SPECIFICATION Spec
CONSTANTS
  own = own  ann = ann  bob = bob
  fOwn = fOwn  fAnn = fAnn  fBob = fBob
  office = office  annLocal = annLocal  annNet = annNet  bobWeb = bobWeb
  Number = {fOwn, fAnn, fBob}
  NoNumber = NoNumber
  Name = {office, annLocal, annNet, bobWeb}
  NoName = NoName
  NoRaw = NoRaw
  Key = {1, 2}
  CallType = {"INCOMING", "OUTGOING"}
  Raw <- MCRaw
  Own = own
  Party = {ann, bob}
  Format <- MCFormat
  Kind <- MCKind
  Reports <- MCReports
  NetName <- MCNetName
  LocalName <- MCLocalName
  WebName <- MCWebName
  DbOk = TRUE
  ByAge = FALSE
  ByCount = FALSE
  MaxCount = 1
  Faults = {}
  MayLose = FALSE
  MaxCalls = 2
  QueueMax = 1
CHECK_DEADLOCK FALSE
INVARIANTS TypeOK RowAttribution JournalTellsTruth WindowsFollowCalls

--------------------------- MODULE MCCallTracking ----------------------------
(***************************************************************************)
(* Small instances of CallTracking: one office number of our own and two   *)
(* parties; Ann is in the address book, Bob only on the web, and the       *)
(* network knows Ann by a third name.                                      *)
(***************************************************************************)
EXTENDS CallTracking, TLC

CONSTANTS own, ann, bob,                         \* numbers as reported
          fOwn, fAnn, fBob,                      \* and formatted
          office, annLocal, annNet, bobWeb       \* names

MCRaw == {own, ann, bob}
MCReports == {<<{"caller", "called"}, FALSE>>, <<{"called"}, TRUE>>}
MCBothNumbers == {<<{"caller", "called"}, FALSE>>}
MCFormat == own :> fOwn @@ ann :> fAnn @@ bob :> fBob
MCKind == own :> "NATIONAL" @@ ann :> "INTERNATIONAL" @@ bob :> "NATIONAL"
MCNetName == own :> NoName @@ ann :> annNet @@ bob :> NoName
MCLocalName == fOwn :> NoName @@ fAnn :> annLocal @@ fBob :> NoName
MCWebName == fOwn :> office @@ fAnn :> NoName @@ fBob :> bobWeb
==============================================================================

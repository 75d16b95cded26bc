---------------------------- MODULE CallTracking -----------------------------
(***************************************************************************)
(* How a telephone call becomes an entry of the journal: CMainApp          *)
(* (gui/mainapp.cpp) receives call events from the call providers and      *)
(* answers from the resolver, keeps one CJournalEntry per active call, and *)
(* saves every change through CJournalModel (gui/journal/journalmodel.cpp).*)
(*                                                                         *)
(* Providers and the resolver run on threads of their own; what they say   *)
(* reaches the GUI thread as queued events (wxQueueEvent), handled one at  *)
(* a time in the order they were posted.  Variable call is the truth about *)
(* the telephone line; the handlers never read it.                         *)
(***************************************************************************)
EXTENDS JournalEntry, Sequences, FiniteSets, Functions

CONSTANTS
  Key,        \* (provider id, call id) pairs, numbered in the order of the map
  CallType,   \* the directions of the calls
  Raw,        \* telephone numbers as providers report them
  NoRaw,      \* no number
  Own,        \* our own number
  Party,      \* the numbers of the people we talk to
  Format,     \* parseAndFormatForResolver: the formatted number ...
  Kind,       \* ... and its kind
  Reports,    \* what providers tell about the parties: sides, with the name or not
  NetName,    \* the name the network sends along with a number
  LocalName,  \* the name the local resolvers have for a formatted number
  WebName,    \* the name the web resolvers have for a formatted number
  DbOk,       \* m_pDB->isOk()
  ByAge,      \* preference: delete old entries
  ByCount,    \* preference: keep the newest MaxCount entries
  MaxCount,
  Faults,     \* the database operations that may fail
  MayLose,    \* may a provider drop a call without reporting its end?
  MaxCalls,   \* bound: calls in a behaviour
  QueueMax    \* bound: provider events waiting in the GUI's queue

ASSUME TrackingAssumption ==
  /\ Key \subseteq Nat
  /\ CallType \subseteq {"INCOMING", "OUTGOING"}
  /\ NoRaw \notin Raw /\ Own \in Raw /\ Party \subseteq Raw \ {Own}
  /\ Format \in [Raw -> Address]
  /\ Kind \in [Raw -> {"INTERNAL", "INTERNATIONAL", "NATIONAL"}]
  /\ Reports \subseteq (SUBSET {"caller", "called"}) \X BOOLEAN
  /\ NetName \in [Raw -> Label]
  /\ LocalName \in [Number -> Label]
  /\ WebName \in [Number -> Label]
  /\ DbOk \in BOOLEAN /\ ByAge \in BOOLEAN /\ ByCount \in BOOLEAN
  /\ MaxCount \in Nat \ {0}
  /\ Faults \subseteq {"begin", "insert", "update", "purge"}
  /\ MayLose \in BOOLEAN
  /\ MaxCalls \in Nat /\ QueueMax \in Nat

VARIABLES
  call,        \* every call there was: what really happened on the line
  evq,         \* the GUI thread's event queue
  entry,       \* the CJournalEntry objects, by the call they were created for
  active,      \* m_ActiveCalls: the entry each key leads to (0: none)
  windows,     \* the entries that have a notification window
  table,       \* the rows of table calls, by id
  nextcallid,  \* the row of table config that hands out ids
  reqs         \* the resolver's pending requests

lineVars == <<call>>
entryVars == <<entry, active, windows>>
dbVars == <<table, nextcallid>>
vars == <<lineVars, evq, entryVars, dbVars, reqs>>

Call == 1..MaxCalls
Id == Nat \ {0}
Status == {"OFFERING", "WAIT_DIALTONE", "DIALTONE", "DIALING", "PROCEEDING", "RINGBACK",
           "CONNECTED", "BUSY", "DISCONNECTED", "ONHOLD", "CONFERENCED", "IDLE"}
Phase == {"ringing", "busy", "up", "held", "over", "gone", "lost"}
Side == {"caller", "called"}

(* outcome and hungup are history: how the call went, and whether its end  *)
(* was reported (DISCONNECTED) after it had been answered.                 *)
TrueCall == [key : Key, type : CallType, remote : Raw, phase : Phase,
             outcome : {"NOTREACHED", "OK", "BUSY"}, hungup : BOOLEAN]

(* A row of table calls; column call is history: whose insert made the row.*)
Row == [call : Call, type : Type, result : Result, begun : BOOLEAN, timed : BOOLEAN,
        clnr : Address, cln : Label, cdnr : Address, cdn : Label]

Info == [caller : Raw \cup {NoRaw}, called : Raw \cup {NoRaw},
         callerName : Label, calledName : Label]

(* Events; c is history: the call the provider is talking about.           *)
Event ==
  [kind : {"new"}, key : Key, c : Call, type : CallType, status : Status]
  \cup [kind : {"state"}, key : Key, c : Call, status : Status]
  \cup [kind : {"info"}, key : Key, c : Call, info : Info]
  \cup [kind : {"resolved"}, dbKey : Nat, side : Side, name : Name]

Request == [dbKey : Nat, nr : Number, online : BOOLEAN, side : Side]

TypeOK ==
  /\ call \in Seq(TrueCall) /\ Len(call) <= MaxCalls
  /\ evq \in Seq(Event)
  /\ DOMAIN entry \subseteq Call /\ entry \in [DOMAIN entry -> Entry]
  /\ active \in [Key -> DOMAIN entry \cup {0}]
  /\ windows \subseteq DOMAIN entry
  /\ DOMAIN table \subseteq Id /\ table \in [DOMAIN table -> Row]
  /\ nextcallid \in Id
  /\ reqs \in Seq(Request)

Init ==
  /\ call = <<>>
  /\ evq = <<>>
  /\ entry = <<>>
  /\ active = [k \in Key |-> 0]
  /\ windows = {}
  /\ table = <<>>
  /\ nextcallid = 1
  /\ reqs = <<>>

----------------------------------------------------------------------------
(* The call providers (plugin_cp_fritz, plugin_cp_tapi, plugin_cp_dummy),  *)
(* as far as CMainApp can tell them apart.                                 *)

Ended == {"gone", "lost"}

Post(e) == Len(evq) < QueueMax /\ evq' = Append(evq, e)

FirstStatus(type) == IF type = "INCOMING" THEN "OFFERING" ELSE "DIALING"

ProviderNew(k, type, remote) ==
  /\ Len(call) < MaxCalls
  /\ \A c \in DOMAIN call : call[c].key = k => call[c].phase \in Ended
  /\ call' = Append(call, [key |-> k, type |-> type, remote |-> remote, phase |-> "ringing",
                           outcome |-> "NOTREACHED", hungup |-> FALSE])
  /\ Post([kind |-> "new", key |-> k, c |-> Len(call) + 1, type |-> type,
           status |-> FirstStatus(type)])
  /\ UNCHANGED <<entryVars, dbVars, reqs>>

(* Both numbers at once (Fritz!Box) or one side first (TAPI); the network  *)
(* may send the name of the other party along.                             *)
InfoOf(t, sides, named) ==
  LET caller == IF t.type = "INCOMING" THEN t.remote ELSE Own
      called == IF t.type = "INCOMING" THEN Own ELSE t.remote
      name == IF named THEN NetName[t.remote] ELSE NoName
  IN  [caller |-> IF "caller" \in sides THEN caller ELSE NoRaw,
       called |-> IF "called" \in sides THEN called ELSE NoRaw,
       callerName |-> IF t.type = "INCOMING" THEN name ELSE NoName,
       calledName |-> IF t.type = "OUTGOING" THEN name ELSE NoName]

ProviderInfo(c, sides, named) ==
  /\ call[c].phase \notin Ended
  /\ Post([kind |-> "info", key |-> call[c].key, c |-> c, info |-> InfoOf(call[c], sides, named)])
  /\ UNCHANGED <<call, entryVars, dbVars, reqs>>

(* What a provider may report next, and the phase the call is then in.     *)
PhaseAfter == [RINGBACK |-> "ringing", BUSY |-> "busy", CONNECTED |-> "up", ONHOLD |-> "held",
               DISCONNECTED |-> "over"]

MayReport(t, s) ==
  CASE s \in {"RINGBACK", "BUSY"} -> t.type = "OUTGOING" /\ t.phase = "ringing"
    [] s = "CONNECTED"            -> t.phase \in {"ringing", "held"}
    [] s = "ONHOLD"               -> t.phase = "up"
    [] s = "DISCONNECTED"         -> t.phase \in {"ringing", "busy", "up", "held"}

ProviderStatus(c, s) ==
  /\ MayReport(call[c], s)
  /\ call' = [call EXCEPT ![c].phase = PhaseAfter[s],
                          ![c].outcome = IF s = "CONNECTED" THEN "OK"
                                         ELSE IF s = "BUSY" THEN "BUSY" ELSE @,
                          ![c].hungup = s = "DISCONNECTED" /\ call[c].outcome = "OK"]
  /\ Post([kind |-> "state", key |-> call[c].key, c |-> c, status |-> s])
  /\ UNCHANGED <<entryVars, dbVars, reqs>>

(* The provider forgets the call and says so; its key is free again.       *)
ProviderIdle(c) ==
  /\ call[c].phase \notin Ended
  /\ call' = [call EXCEPT ![c].phase = "gone"]
  /\ Post([kind |-> "state", key |-> call[c].key, c |-> c, status |-> "IDLE"])
  /\ UNCHANGED <<entryVars, dbVars, reqs>>

(* The connection to the Fritz!Box breaks, or CTafLine::closeCalls runs:   *)
(* the provider forgets the call without a word.                           *)
ProviderLost(c) ==
  /\ MayLose
  /\ call[c].phase \notin Ended
  /\ call' = [call EXCEPT ![c].phase = "lost"]
  /\ UNCHANGED <<evq, entryVars, dbVars, reqs>>

----------------------------------------------------------------------------
(* The resolver (module ResolverQueue) takes requests in order.  A number  *)
(* in a local book always gets an answer; a web page may fail to give one. *)

Answers(r) == {LocalName[r.nr], IF r.online THEN WebName[r.nr] ELSE NoName} \ {NoName}

ResolverServe ==
  /\ reqs # <<>>
  /\ reqs' = Tail(reqs)
  /\ LET r == Head(reqs) IN
       \/ \E name \in Answers(r) :
            evq' = Append(evq, [kind |-> "resolved", dbKey |-> r.dbKey, side |-> r.side,
                                name |-> name])
       \/ LocalName[r.nr] = NoName /\ evq' = evq
  /\ UNCHANGED <<call, entryVars, dbVars>>

----------------------------------------------------------------------------
(* CJournalModel: saving an entry.                                         *)

RowOf(e, c) ==
  [call |-> c, type |-> e.type, result |-> e.result, begun |-> e.begun, timed |-> e.timed,
   clnr |-> e.clnr, cln |-> e.cln, cdnr |-> e.cdnr, cdn |-> e.cdn]

(* Mutation: getEntry does not set the key.                              *)
EntryWithoutKey(row, id) ==
  [dbKey |-> 0, dirty |-> FALSE, type |-> row.type, state |-> "UNKNOWN", result |-> row.result,
   begun |-> row.begun, timed |-> row.timed,
   clnr |-> row.clnr, cln |-> row.cln, cdnr |-> row.cdnr, cdn |-> row.cdn,
   resolvingCaller |-> FALSE, resolvingCalled |-> FALSE]

(* getEntry: a fresh entry filled from a row; it is clean afterwards.      *)
EntryOf(row, id) ==
  [dbKey |-> id, dirty |-> FALSE, type |-> row.type, state |-> "UNKNOWN", result |-> row.result,
   begun |-> row.begun, timed |-> row.timed,
   clnr |-> row.clnr, cln |-> row.cln, cdnr |-> row.cdnr, cdn |-> row.cdn,
   resolvingCaller |-> FALSE, resolvingCalled |-> FALSE]

(* Mutation: the sort order of the subselect is reversed.                *)
Older(t, i) == {j \in DOMAIN t : j < i}

(* purgeEntries after the insert of row id: what is older than some moment *)
(* goes, and what is not among the newest MaxCount.  Ids grow with time.   *)
Newer(t, i) == {j \in DOMAIN t : j > i}
Purged(t, id) ==
  {Restrict(t, {i \in DOMAIN t : /\ ByAge => i >= oldest
                                 /\ ByCount => Cardinality(Newer(t, i)) < MaxCount}) :
     oldest \in 1..id}

WithRow(t, id, row) == [i \in DOMAIN t \cup {id} |-> IF i = id THEN row ELSE t[i]]

(* Mutation: the next id is not stored in table config.                  *)
OutcomeIdNotStored(e, t, next) == [e |-> e, t |-> t, next |-> nextcallid]

Outcome(e, t, next) == [e |-> e, t |-> t, next |-> next]

(* insertUpdateEntry on entry e: everything it may leave behind.  An entry *)
(* that is to be inserted gets its key before the insert is committed, and *)
(* a failure rolls the database back but not the entry.                    *)
Inserted(e, c) ==
  LET keyed == SetDbKey(e, nextcallid)
      t == WithRow(table, nextcallid, RowOf(keyed, c))
  IN  {Outcome([keyed EXCEPT !.dirty = FALSE], p, nextcallid + 1) :
         p \in Purged(t, nextcallid) \cup (IF "purge" \in Faults THEN {t} ELSE {})}
      \cup (IF "begin" \in Faults THEN {Outcome(e, table, nextcallid)} ELSE {})
      \cup (IF "insert" \in Faults THEN {Outcome(keyed, table, nextcallid)} ELSE {})

(* Mutation: setDirty(false) before the commit.                          *)
UpdatedCleanFirst(e) ==
  {Outcome([e EXCEPT !.dirty = FALSE], t, nextcallid) :
     t \in {table, [i \in DOMAIN table |->
                     IF i = e.dbKey THEN RowOf(e, table[i].call) ELSE table[i]]}}

Updated(e) ==
  {Outcome([e EXCEPT !.dirty = FALSE],
           [i \in DOMAIN table |-> IF i = e.dbKey THEN RowOf(e, table[i].call) ELSE table[i]],
           nextcallid)}
  \cup (IF "update" \in Faults THEN {Outcome(e, table, nextcallid)} ELSE {})

Saved(e, c) ==
  IF ~e.dirty THEN {Outcome(e, table, nextcallid)}
  ELSE IF ~DbOk THEN {Outcome([e EXCEPT !.dirty = FALSE], table, nextcallid)}
  ELSE IF e.dbKey = 0 THEN Inserted(e, c)
  ELSE Updated(e)

WithEntry(c, e) == [d \in DOMAIN entry \cup {c} |-> IF d = c THEN e ELSE entry[d]]

SaveAs(c, e) ==
  \E s \in Saved(e, c) :
    /\ entry' = WithEntry(c, s.e)
    /\ table' = s.t
    /\ nextcallid' = s.next

----------------------------------------------------------------------------
(* CMainApp: the handlers on the GUI thread.                               *)

StateOf(s) ==
  CASE s \in {"OFFERING", "WAIT_DIALTONE", "DIALTONE", "DIALING", "PROCEEDING", "RINGBACK"}
                                        -> "PENDING"
    [] s = "CONNECTED"                  -> "CONNECTED"
    [] s = "BUSY"                       -> "BUSY"
    [] s = "DISCONNECTED"               -> "DISCONNECTED"
    [] s \in {"ONHOLD", "CONFERENCED"}  -> "ONHOLD"
    [] OTHER                            -> "UNKNOWN"

Take(kind) == evq # <<>> /\ Head(evq).kind = kind /\ evq' = Tail(evq)

(* The map keeps the entry it has if the key is already there; the new     *)
(* entry and its window are then out of reach.                             *)
OnNewCall ==
  LET ev == Head(evq) IN
  /\ Take("new")
  /\ SaveAs(ev.c, SetState(NewEntry(ev.type), StateOf(ev.status)))
  /\ active' = [active EXCEPT ![ev.key] = IF @ = 0 THEN ev.c ELSE @]
  /\ windows' = IF ev.type = "INCOMING" THEN windows \cup {ev.c} ELSE windows
  /\ UNCHANGED <<call, reqs>>

(* Mutation: IDLE is treated as an unknown state.                        *)
ForgetNothing(k) == UNCHANGED <<entryVars, dbVars>>

(* Mutation: the entry goes, but stays in the map.                       *)
ForgetEntryOnly(k) ==
  /\ entry' = [c \in DOMAIN entry \ {active[k]} |-> entry[c]]
  /\ windows' = windows \ {active[k]}
  /\ UNCHANGED <<active, dbVars>>

(* Mutation: the destructor leaves the window open.                      *)
ForgetNotWindow(k) ==
  /\ entry' = [c \in DOMAIN entry \ {active[k]} |-> entry[c]]
  /\ active' = [active EXCEPT ![k] = 0]
  /\ UNCHANGED <<windows, dbVars>>

(* IDLE destroys the entry, and with it its window, without a last save.   *)
Forget(k) ==
  /\ entry' = [c \in DOMAIN entry \ {active[k]} |-> entry[c]]
  /\ windows' = windows \ {active[k]}
  /\ active' = [active EXCEPT ![k] = 0]
  /\ UNCHANGED dbVars

OnCallStateUpdate ==
  LET ev == Head(evq)
      c == active[ev.key] IN
  /\ Take("state")
  /\ IF c = 0
       THEN UNCHANGED <<entryVars, dbVars>>
       ELSE IF ev.status = "IDLE"
         THEN Forget(ev.key)
         ELSE SaveAs(c, SetState(entry[c], StateOf(ev.status))) /\ UNCHANGED <<active, windows>>
  /\ UNCHANGED <<call, reqs>>

(* ResolveCaller and ResolveCalled: they return the entry with its number, *)
(* and ask for the name if it is not known.  Only the other party's number *)
(* may be looked up on the web, and only if it is a national one.          *)
Lookup(e, side, nr, kind) ==
  [dbKey |-> e.dbKey, nr |-> nr, side |-> side,
   online |-> e.type # (IF side = "caller" THEN "OUTGOING" ELSE "INCOMING")
              /\ kind \notin {"INTERNAL", "INTERNATIONAL"}]

WithCaller(e, raw) ==
  IF raw = NoRaw \/ e.clnr # NoNumber \/ e.resolvingCaller THEN [e |-> e, asked |-> <<>>]
  ELSE LET f == SetField(e, "clnr", Format[raw]) IN
    IF f.cln = NoName /\ f.clnr # NoNumber
      THEN [e |-> [f EXCEPT !.resolvingCaller = TRUE],
            asked |-> <<Lookup(f, "caller", f.clnr, Kind[raw])>>]
      ELSE [e |-> f, asked |-> <<>>]

WithCalled(e, raw) ==
  IF raw = NoRaw \/ e.cdnr # NoNumber \/ e.resolvingCalled THEN [e |-> e, asked |-> <<>>]
  ELSE LET f == SetField(e, "cdnr", Format[raw]) IN
    IF f.cdn = NoName /\ f.cdnr # NoNumber
      THEN [e |-> [f EXCEPT !.resolvingCalled = TRUE],
            asked |-> <<Lookup(f, "called", f.cdnr, Kind[raw])>>]
      ELSE [e |-> f, asked |-> <<>>]

WithNames(e, info) ==
  LET f == IF e.cdn = NoName THEN SetField(e, "cdn", info.calledName) ELSE e
  IN  IF f.cln = NoName THEN SetField(f, "cln", info.callerName) ELSE f

OnCallInfoUpdate ==
  LET ev == Head(evq)
      c == active[ev.key] IN
  /\ Take("info")
  /\ IF c = 0
       THEN UNCHANGED <<entry, dbVars, reqs>>
       ELSE LET called == WithCalled(WithNames(entry[c], ev.info), ev.info.called)
                caller == WithCaller(called.e, ev.info.caller)
            IN  /\ SaveAs(c, caller.e)
                /\ reqs' = reqs \o called.asked \o caller.asked
  /\ UNCHANGED <<call, active, windows>>

(* Mutation: any active call will do.                                    *)
HoldersAny(id) == {k \in Key : active[k] # 0}

(* findActiveEntry: the first active call, in key order, with that key.    *)
Holders(id) == {k \in Key : active[k] # 0 /\ entry[active[k]].dbKey = id}
FirstHolder(id) == CHOOSE k \in Holders(id) : \A l \in Holders(id) : k <= l

Named(e, side, name) == SetField(e, IF side = "caller" THEN "cln" ELSE "cdn", name)

(* The answer goes to the call if it is still active; otherwise the row is *)
(* read, changed and written back through a temporary entry.               *)
OnResolverResponse ==
  LET ev == Head(evq) IN
  /\ Take("resolved")
  /\ IF Holders(ev.dbKey) # {}
       THEN LET c == active[FirstHolder(ev.dbKey)]
            IN  SaveAs(c, Named(entry[c], ev.side, ev.name))
       ELSE /\ IF DbOk /\ ev.dbKey \in DOMAIN table
                 THEN LET row == table[ev.dbKey] IN
                      \E s \in Saved(Named(EntryOf(row, ev.dbKey), ev.side, ev.name), row.call) :
                        table' = s.t /\ nextcallid' = s.next
                 ELSE UNCHANGED dbVars
            /\ UNCHANGED entry
  /\ UNCHANGED <<call, active, windows, reqs>>

----------------------------------------------------------------------------
Provider ==
  \/ \E k \in Key, type \in CallType, remote \in Party :
       ProviderNew(k, type, remote)
  \/ \E c \in DOMAIN call :
       \/ \E report \in Reports : ProviderInfo(c, report[1], report[2])
       \/ \E s \in DOMAIN PhaseAfter : ProviderStatus(c, s)
       \/ ProviderIdle(c)
       \/ ProviderLost(c)

Gui == OnNewCall \/ OnCallStateUpdate \/ OnCallInfoUpdate \/ OnResolverResponse

Next == Provider \/ ResolverServe \/ Gui

Spec == Init /\ [][Next]_vars

(* The GUI thread handles its events and the resolver its requests.        *)
FairSpec == Spec /\ WF_vars(Gui) /\ WF_vars(ResolverServe)

----------------------------------------------------------------------------
(* Properties.                                                             *)

Pending(c) == {i \in DOMAIN evq : evq[i].kind # "resolved" /\ evq[i].c = c}
Reachable == {active[k] : k \in Key} \ {0}

(* What may truthfully be written about the two parties of call c.         *)
TrueNumber(c, side) ==
  IF (side = "caller") = (call[c].type = "INCOMING") THEN Format[call[c].remote] ELSE Format[Own]

TrueNames(c, side) ==
  LET nr == TrueNumber(c, side) IN
  {NoName, NetName[call[c].remote]}
  \cup (IF nr = NoNumber THEN {} ELSE {LocalName[nr], WebName[nr]})

Truthful(r, c) ==
  /\ r.type = call[c].type
  /\ r.clnr \in {NoNumber, TrueNumber(c, "caller")} /\ r.cln \in TrueNames(c, "caller")
  /\ r.cdnr \in {NoNumber, TrueNumber(c, "called")} /\ r.cdn \in TrueNames(c, "called")

(* A row tells about the call it was made for and about no other, however  *)
(* late the names arrive and however soon a call id is used again.         *)
RowAttribution == \A id \in DOMAIN table : Truthful(table[id], table[id].call)

(* No two live entries share a row, and no entry holds an id that has not  *)
(* been handed out (journalmodel.cpp:237-241).                             *)
KeyOwnership ==
  /\ \A c, d \in DOMAIN entry : entry[c].dbKey = entry[d].dbKey /\ entry[c].dbKey # 0 => c = d
  /\ \A c \in DOMAIN entry : entry[c].dbKey < nextcallid
  /\ \A id \in DOMAIN table : id < nextcallid

(* The dirty flag never lies: an active entry that counts as saved equals  *)
(* its row unless the row was purged, failed updates notwithstanding; in   *)
(* particular a late answer never changes the row behind an active entry.  *)
CleanMeansSaved ==
  DbOk => \A c \in Reachable :
    ~entry[c].dirty /\ entry[c].dbKey \in DOMAIN table =>
      table[entry[c].dbKey] = RowOf(entry[c], c)

(* Once all its events are handled, a call's row tells how the call went:  *)
(* missed, answered or busy, and with a duration if its end was reported.  *)
JournalTellsTruth ==
  \A id \in DOMAIN table :
    LET c == table[id].call IN
    Pending(c) = {} => /\ table[id].result = call[c].outcome
                       /\ table[id].timed = call[c].hungup

(* There is a window for exactly the incoming calls that are going on.     *)
WindowsFollowCalls == windows = {c \in Reachable : call[c].type = "INCOMING"}

(* Purging never takes a row that is among the newest MaxCount, the one    *)
(* just inserted included.                                                 *)
RecentRowsStay ==
  [][~ByAge => \A id \in DOMAIN table \cup (nextcallid..(nextcallid' - 1)) :
       id \in DOMAIN table' \/ Cardinality({j \in DOMAIN table' : j > id}) >= MaxCount]_vars

(* The end of a call always gets through: its entry and its window go.     *)
EndedCallsLeave ==
  \A c \in Call : (c \in DOMAIN call /\ call[c].phase = "gone") ~>
                  (c \notin DOMAIN entry /\ c \notin windows)

(* A number the user has in a book gets its name in the journal, whether   *)
(* the call is over by then or not, unless the row has been purged.        *)
NamesArrive ==
  \A id \in Call, side \in Side :
    (\E i \in DOMAIN reqs : reqs[i].dbKey = id /\ reqs[i].side = side
                            /\ LocalName[reqs[i].nr] # NoName)
      ~> (id \in DOMAIN table => (IF side = "caller" THEN table[id].cln ELSE table[id].cdn) # NoName)
==============================================================================

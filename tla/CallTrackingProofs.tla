------------------------- MODULE CallTrackingProofs --------------------------
(***************************************************************************)
(* Theorems about CallTracking for any number of keys, calls and names:    *)
(* the types are right, every entry the map leads to exists and belongs to *)
(* one key only, and no two entries ever write to the same row.            *)
(***************************************************************************)
EXTENDS CallTracking, SequenceTheorems, FiniteSetTheorems, WellFoundedInduction, TLAPS

----------------------------------------------------------------------------
(* CJournalEntry's operations keep an entry an entry, and leave its key.   *)

LEMMA SetStateType ==
  ASSUME NEW e \in Entry, NEW s \in State
  PROVE  SetState(e, s) \in Entry /\ SetState(e, s).dbKey = e.dbKey
<1> DEFINE f == CASE e.type = "OUTGOING" -> OutgoingEffect(e, s)
                  [] e.type = "INCOMING" -> IncomingEffect(e, s)
                  [] OTHER               -> e
<1>1. OutgoingEffect(e, s) \in Entry /\ OutgoingEffect(e, s).dbKey = e.dbKey
  BY DEF OutgoingEffect, SetResult, SetBeginNow, SetEndNow, SetField, Entry, Result, State
<1>2. IncomingEffect(e, s) \in Entry /\ IncomingEffect(e, s).dbKey = e.dbKey
  BY DEF IncomingEffect, SetResult, SetBeginNow, SetEndNow, SetField, Entry, Result, State
<1>3. f \in Entry /\ f.dbKey = e.dbKey
  BY <1>1, <1>2 DEF Entry, Type
<1> HIDE DEF f
<1>4. SetField(f, "state", s) \in Entry /\ SetField(f, "state", s).dbKey = f.dbKey
  BY <1>3 DEF SetField, Entry
<1> QED  BY <1>3, <1>4 DEF SetState, f

LEMMA NewEntryType ==
  ASSUME NEW type \in Type
  PROVE  NewEntry(type) \in Entry /\ NewEntry(type).dbKey = 0
BY DEF NewEntry, Entry, Type, State, Result, Address, Label

LEMMA NamedType ==
  ASSUME NEW e \in Entry, NEW side \in Side, NEW name \in Label
  PROVE  Named(e, side, name) \in Entry /\ Named(e, side, name).dbKey = e.dbKey
BY DEF Named, SetField, Entry, Side

LEMMA WithNamesType ==
  ASSUME NEW e \in Entry, NEW info \in Info
  PROVE  WithNames(e, info) \in Entry /\ WithNames(e, info).dbKey = e.dbKey
<1> DEFINE f == IF e.cdn = NoName THEN SetField(e, "cdn", info.calledName) ELSE e
<1>1. f \in Entry /\ f.dbKey = e.dbKey
  BY DEF SetField, Entry, Info
<1>2. WithNames(e, info) = IF f.cln = NoName THEN SetField(f, "cln", info.callerName) ELSE f
  BY DEF WithNames
<1> HIDE DEF f
<1>3. SetField(f, "cln", info.callerName) \in Entry
      /\ SetField(f, "cln", info.callerName).dbKey = f.dbKey
  BY <1>1 DEF SetField, Entry, Info
<1> QED  BY <1>1, <1>2, <1>3

LEMMA EntryOfType ==
  ASSUME NEW row \in Row, NEW id \in Id
  PROVE  EntryOf(row, id) \in Entry /\ EntryOf(row, id).dbKey = id
BY DEF EntryOf, Row, Entry, Id, State

LEMMA RowOfType ==
  ASSUME NEW e \in Entry, NEW c \in Call
  PROVE  RowOf(e, c) \in Row
BY DEF RowOf, Row, Entry

(* The number goes into the entry, and at most one request goes out.       *)
LEMMA WithCallerType ==
  ASSUME NEW e \in Entry, NEW raw \in Raw \cup {NoRaw}
  PROVE  /\ WithCaller(e, raw).e \in Entry /\ WithCaller(e, raw).e.dbKey = e.dbKey
         /\ WithCaller(e, raw).asked \in Seq(Request)
<1> DEFINE f == SetField(e, "clnr", Format[raw])
<1>1. CASE raw = NoRaw \/ e.clnr # NoNumber \/ e.resolvingCaller
  BY <1>1, EmptySeq DEF WithCaller
<1>2. CASE ~(raw = NoRaw \/ e.clnr # NoNumber \/ e.resolvingCaller)
  <2>1. raw \in Raw /\ Format[raw] \in Address
    BY <1>2, TrackingAssumption DEF TrackingAssumption
  <2>2. f \in Entry /\ f.dbKey = e.dbKey
    BY <2>1 DEF SetField, Entry
  <2>3. CASE f.cln = NoName /\ f.clnr # NoNumber
    <3>1. f.clnr \in Number
      BY <2>2, <2>3 DEF Entry, Address
    <3>2. Lookup(f, "caller", f.clnr, Kind[raw]) \in Request
      BY <2>2, <3>1 DEF Lookup, Request, Side, Entry
    <3>3. <<Lookup(f, "caller", f.clnr, Kind[raw])>> \in Seq(Request)
      BY <3>2
    <3> DEFINE lookup == Lookup(f, "caller", f.clnr, Kind[raw])
               g == [f EXCEPT !.resolvingCaller = TRUE]
    <3>4. WithCaller(e, raw) = [e |-> g, asked |-> <<lookup>>]
      BY <1>2, <2>3 DEF WithCaller
    <3> HIDE DEF f
    <3>5. g \in Entry /\ g.dbKey = f.dbKey
      BY <2>2 DEF Entry
    <3> HIDE DEF g, lookup
    <3>6. WithCaller(e, raw).e = g /\ WithCaller(e, raw).asked = <<lookup>>
      BY <3>4
    <3>7. <<lookup>> \in Seq(Request)
      BY <3>3 DEF lookup
    <3> QED  BY <2>2, <3>5, <3>6, <3>7
  <2>4. CASE ~(f.cln = NoName /\ f.clnr # NoNumber)
    <3>1. WithCaller(e, raw) = [e |-> f, asked |-> <<>>]
      BY <1>2, <2>4 DEF WithCaller
    <3> HIDE DEF f
    <3> QED  BY <2>2, <3>1, EmptySeq
  <2> QED  BY <2>3, <2>4
<1> QED  BY <1>1, <1>2

LEMMA WithCalledType ==
  ASSUME NEW e \in Entry, NEW raw \in Raw \cup {NoRaw}
  PROVE  /\ WithCalled(e, raw).e \in Entry /\ WithCalled(e, raw).e.dbKey = e.dbKey
         /\ WithCalled(e, raw).asked \in Seq(Request)
<1> DEFINE f == SetField(e, "cdnr", Format[raw])
<1>1. CASE raw = NoRaw \/ e.cdnr # NoNumber \/ e.resolvingCalled
  BY <1>1, EmptySeq DEF WithCalled
<1>2. CASE ~(raw = NoRaw \/ e.cdnr # NoNumber \/ e.resolvingCalled)
  <2>1. raw \in Raw /\ Format[raw] \in Address
    BY <1>2, TrackingAssumption DEF TrackingAssumption
  <2>2. f \in Entry /\ f.dbKey = e.dbKey
    BY <2>1 DEF SetField, Entry
  <2>3. CASE f.cdn = NoName /\ f.cdnr # NoNumber
    <3>1. f.cdnr \in Number
      BY <2>2, <2>3 DEF Entry, Address
    <3>2. Lookup(f, "called", f.cdnr, Kind[raw]) \in Request
      BY <2>2, <3>1 DEF Lookup, Request, Side, Entry
    <3>3. <<Lookup(f, "called", f.cdnr, Kind[raw])>> \in Seq(Request)
      BY <3>2
    <3> DEFINE lookup == Lookup(f, "called", f.cdnr, Kind[raw])
               g == [f EXCEPT !.resolvingCalled = TRUE]
    <3>4. WithCalled(e, raw) = [e |-> g, asked |-> <<lookup>>]
      BY <1>2, <2>3 DEF WithCalled
    <3> HIDE DEF f
    <3>5. g \in Entry /\ g.dbKey = f.dbKey
      BY <2>2 DEF Entry
    <3> HIDE DEF g, lookup
    <3>6. WithCalled(e, raw).e = g /\ WithCalled(e, raw).asked = <<lookup>>
      BY <3>4
    <3>7. <<lookup>> \in Seq(Request)
      BY <3>3 DEF lookup
    <3> QED  BY <2>2, <3>5, <3>6, <3>7
  <2>4. CASE ~(f.cdn = NoName /\ f.cdnr # NoNumber)
    <3>1. WithCalled(e, raw) = [e |-> f, asked |-> <<>>]
      BY <1>2, <2>4 DEF WithCalled
    <3> HIDE DEF f
    <3> QED  BY <2>2, <3>1, EmptySeq
  <2> QED  BY <2>3, <2>4
<1> QED  BY <1>1, <1>2

----------------------------------------------------------------------------
(* insertUpdateEntry: the entry keeps its key or gets the next id.         *)

DbType(t, next) == DOMAIN t \subseteq Id /\ t \in [DOMAIN t -> Row] /\ next \in Id

LEMMA PurgedType ==
  ASSUME NEW t, NEW id \in Id, DOMAIN t \subseteq Id, t \in [DOMAIN t -> Row],
         NEW p \in Purged(t, id)
  PROVE  DOMAIN p \subseteq DOMAIN t /\ p \in [DOMAIN p -> Row]
<1>1. PICK S \in SUBSET DOMAIN t : p = Restrict(t, S)
  BY DEF Purged
<1>2. p = [x \in S |-> t[x]]
  BY <1>1 DEF Restrict
<1> QED  BY <1>2

Kept(s, e) ==
  /\ s.e.dbKey = e.dbKey /\ s.next = nextcallid /\ DOMAIN s.t = DOMAIN table

Issued(s, e) ==
  /\ e.dbKey = 0 /\ s.e.dbKey = nextcallid /\ s.next = nextcallid + 1
  /\ DOMAIN s.t \subseteq DOMAIN table \cup {nextcallid}

(* The failed insert: the key is in the entry but not in the database.     *)
Stranded(s, e) ==
  /\ "insert" \in Faults
  /\ e.dbKey = 0 /\ s.e.dbKey = nextcallid /\ s.next = nextcallid /\ DOMAIN s.t = DOMAIN table

LEMMA InsertedType ==
  ASSUME NEW e \in Entry, NEW c \in Call, DbType(table, nextcallid), e.dbKey = 0,
         NEW s \in Inserted(e, c)
  PROVE  /\ s.e \in Entry /\ DbType(s.t, s.next)
         /\ Kept(s, e) \/ Issued(s, e) \/ Stranded(s, e)
<1> DEFINE keyed == SetDbKey(e, nextcallid)
           clean == [keyed EXCEPT !.dirty = FALSE]
           t == WithRow(table, nextcallid, RowOf(keyed, c))
<1>1. nextcallid \in Id /\ nextcallid \in Nat /\ nextcallid + 1 \in Id
  BY DEF DbType, Id
<1>2. keyed \in Entry /\ keyed.dbKey = nextcallid
  BY <1>1 DEF SetDbKey, SetField, Entry
<1>3. RowOf(keyed, c) \in Row
  BY <1>2, RowOfType
<1>4. t = [i \in DOMAIN table \cup {nextcallid} |->
             IF i = nextcallid THEN RowOf(keyed, c) ELSE table[i]]
  BY DEF WithRow
<1> HIDE DEF t
<1>5. DOMAIN t = DOMAIN table \cup {nextcallid} /\ t \in [DOMAIN t -> Row] /\ DOMAIN t \subseteq Id
  BY <1>1, <1>3, <1>4 DEF DbType
<1>6. CASE \E p \in Purged(t, nextcallid) \cup {t} : s = Outcome(clean, p, nextcallid + 1)
  <2>1. PICK p \in Purged(t, nextcallid) \cup {t} : s = Outcome(clean, p, nextcallid + 1)
    BY <1>6
  <2>2. DOMAIN p \subseteq DOMAIN t /\ p \in [DOMAIN p -> Row]
    BY <1>1, <1>5, PurgedType
  <2> HIDE DEF keyed
  <2>3. clean \in Entry /\ clean.dbKey = nextcallid
    BY <1>2 DEF Entry
  <2> HIDE DEF clean
  <2>4. s.e = clean /\ s.t = p /\ s.next = nextcallid + 1
    BY <2>1 DEF Outcome
  <2>5. s.e \in Entry /\ DbType(s.t, s.next)
    BY <1>1, <1>5, <2>2, <2>3, <2>4 DEF DbType
  <2>6. Issued(s, e)
    BY <1>5, <2>2, <2>3, <2>4 DEF Issued
  <2> QED  BY <2>5, <2>6
<1>7. CASE s = Outcome(e, table, nextcallid)
  BY <1>7 DEF Outcome, Kept
<1>8. CASE "insert" \in Faults /\ s = Outcome(keyed, table, nextcallid)
  <2> HIDE DEF keyed
  <2>1. s.e = keyed /\ s.t = table /\ s.next = nextcallid
    BY <1>8 DEF Outcome
  <2> QED  BY <1>2, <1>8, <2>1 DEF Stranded
<1>9. \/ \E p \in Purged(t, nextcallid) \cup {t} : s = Outcome(clean, p, nextcallid + 1)
      \/ s = Outcome(e, table, nextcallid)
      \/ "insert" \in Faults /\ s = Outcome(keyed, table, nextcallid)
  BY DEF Inserted, t
<1> QED  BY <1>6, <1>7, <1>8, <1>9

LEMMA UpdatedType ==
  ASSUME NEW e \in Entry, DbType(table, nextcallid), NEW s \in Updated(e)
  PROVE  s.e \in Entry /\ DbType(s.t, s.next) /\ Kept(s, e)
<1> DEFINE clean == [e EXCEPT !.dirty = FALSE]
           t == [i \in DOMAIN table |-> IF i = e.dbKey THEN RowOf(e, table[i].call) ELSE table[i]]
<1>1. clean \in Entry /\ clean.dbKey = e.dbKey
  BY DEF Entry
<1>2. \A i \in DOMAIN table : table[i] \in Row /\ RowOf(e, table[i].call) \in Row
  BY RowOfType DEF DbType, Row
<1>3. DOMAIN t = DOMAIN table /\ t \in [DOMAIN t -> Row]
  BY <1>2
<1> HIDE DEF clean, t
<1>4. CASE s = Outcome(clean, t, nextcallid)
  <2>1. s.e = clean /\ s.t = t /\ s.next = nextcallid
    BY <1>4 DEF Outcome
  <2> QED  BY <1>1, <1>3, <2>1 DEF DbType, Kept
<1>5. CASE s = Outcome(e, table, nextcallid)
  BY <1>5 DEF Outcome, Kept
<1>6. s = Outcome(clean, t, nextcallid) \/ s = Outcome(e, table, nextcallid)
  BY DEF Updated, clean, t
<1> QED  BY <1>4, <1>5, <1>6

LEMMA SavedType ==
  ASSUME NEW e \in Entry, NEW c \in Call, DbType(table, nextcallid), NEW s \in Saved(e, c)
  PROVE  /\ s.e \in Entry /\ DbType(s.t, s.next)
         /\ Kept(s, e) \/ Issued(s, e) \/ Stranded(s, e)
<1> DEFINE clean == [e EXCEPT !.dirty = FALSE]
<1>1. clean \in Entry /\ clean.dbKey = e.dbKey
  BY DEF Entry
<1>2. CASE ~e.dirty
  BY <1>2 DEF Saved, Outcome, Kept
<1>3. CASE e.dirty /\ ~DbOk
  <2> HIDE DEF clean
  <2>1. s = Outcome(clean, table, nextcallid)
    BY <1>3 DEF Saved, clean
  <2>2. s.e = clean /\ s.t = table /\ s.next = nextcallid
    BY <2>1 DEF Outcome
  <2> QED  BY <1>1, <2>2 DEF Kept
<1>4. CASE e.dirty /\ DbOk /\ e.dbKey = 0
  BY <1>4, InsertedType DEF Saved
<1>5. CASE e.dirty /\ DbOk /\ e.dbKey # 0
  BY <1>5, UpdatedType DEF Saved
<1> QED  BY <1>2, <1>3, <1>4, <1>5

----------------------------------------------------------------------------
(* The inductive invariant behind the types.  A newCall event that still   *)
(* waits is about a call that has no entry yet, and no call is announced   *)
(* twice: so OnNewCall never makes the map lead to one entry under two     *)
(* keys, and removing an entry from the map leaves no dangling reference.  *)

NewsInv ==
  /\ \A i \in DOMAIN evq : evq[i].kind = "new" => evq[i].c \in DOMAIN call \ DOMAIN entry
  /\ \A i, j \in DOMAIN evq :
       evq[i].kind = "new" /\ evq[j].kind = "new" /\ evq[i].c = evq[j].c => i = j

ActiveInj == \A k, l \in Key : active[k] = active[l] /\ active[k] # 0 => k = l

TrackInv == TypeOK /\ DOMAIN entry \subseteq DOMAIN call /\ NewsInv /\ ActiveInj

(* The queue: what is left after the head was taken, and after a post.     *)
LEMMA TailOf ==
  ASSUME NEW S, NEW q \in Seq(S), q # <<>>
  PROVE  /\ Head(q) \in S /\ Tail(q) \in Seq(S)
         /\ 1 \in DOMAIN q /\ Head(q) = q[1]
         /\ \A i \in DOMAIN Tail(q) : i + 1 \in DOMAIN q /\ i + 1 # 1 /\ Tail(q)[i] = q[i + 1]
<1>1. Len(q) \in Nat /\ Len(q) >= 1 /\ DOMAIN q = 1..Len(q)
  BY EmptySeq, LenProperties
<1>2. Head(q) \in S /\ Tail(q) \in Seq(S) /\ Len(Tail(q)) = Len(q) - 1 /\ Head(q) = q[1]
  BY HeadTailProperties
<1>3. DOMAIN Tail(q) = 1..(Len(q) - 1)
  BY <1>2, LenProperties
<1>4. \A i \in 1..(Len(q) - 1) : Tail(q)[i] = q[i + 1]
  BY <1>1, HeadTailProperties
<1> QED  BY <1>1, <1>2, <1>3, <1>4

LEMMA AppendOf ==
  ASSUME NEW S, NEW q \in Seq(S), NEW x \in S
  PROVE  /\ Append(q, x) \in Seq(S) /\ DOMAIN Append(q, x) = DOMAIN q \cup {Len(q) + 1}
         /\ Len(q) + 1 \notin DOMAIN q /\ Append(q, x)[Len(q) + 1] = x
         /\ \A i \in DOMAIN q : Append(q, x)[i] = q[i]
<1>1. Len(q) \in Nat /\ DOMAIN q = 1..Len(q)
  BY LenProperties
<1>2. Append(q, x) \in Seq(S) /\ Len(Append(q, x)) = Len(q) + 1
      /\ Append(q, x)[Len(q) + 1] = x /\ \A i \in 1..Len(q) : Append(q, x)[i] = q[i]
  BY AppendProperties
<1> QED  BY <1>1, <1>2, LenProperties

LEMMA StateOfType == \A s \in Status : StateOf(s) \in State
BY DEF StateOf, State, Status

LEMMA EventFields ==
  ASSUME NEW ev \in Event
  PROVE  /\ ev.kind \in {"new", "state", "info", "resolved"}
         /\ ev.kind = "new" => ev.key \in Key /\ ev.c \in Call /\ ev.type \in CallType
                               /\ ev.status \in Status
         /\ ev.kind = "state" => ev.key \in Key /\ ev.status \in Status
         /\ ev.kind = "info" => ev.key \in Key /\ ev.info \in Info
         /\ ev.kind = "resolved" => ev.dbKey \in Nat /\ ev.side \in Side /\ ev.name \in Name
BY DEF Event

(* A provider's step: a known call changes, one event is posted about it.  *)
LEMMA PostKeeps ==
  ASSUME TrackInv, NEW ev \in Event, Post(ev), UNCHANGED <<entryVars, dbVars, reqs>>,
         call' \in Seq(TrueCall), Len(call') <= MaxCalls, DOMAIN call \subseteq DOMAIN call',
         ev.kind = "new" => ev.c \in DOMAIN call' \ DOMAIN call
  PROVE  TrackInv'
<1>1. evq' = Append(evq, ev) /\ evq \in Seq(Event)
  BY DEF Post, TrackInv, TypeOK
<1>2. evq' \in Seq(Event)
  BY <1>1, AppendOf
<1>3. TypeOK'
  BY <1>2 DEF TrackInv, TypeOK, entryVars, dbVars
<1>4. (DOMAIN entry \subseteq DOMAIN call)' /\ ActiveInj'
  BY DEF TrackInv, ActiveInj, entryVars
<1>5. NewsInv'
  <2>1. DOMAIN evq' = DOMAIN evq \cup {Len(evq) + 1} /\ evq'[Len(evq) + 1] = ev
        /\ \A i \in DOMAIN evq : evq'[i] = evq[i]
    BY <1>1, AppendOf
  <2>2. \A i \in DOMAIN evq : evq[i].kind = "new" => evq[i].c \in DOMAIN call \ DOMAIN entry
    BY DEF TrackInv, NewsInv
  <2>3. ev.kind = "new" => ev.c \notin DOMAIN entry
    BY DEF TrackInv
  <2> QED  BY <2>1, <2>2, <2>3 DEF TrackInv, NewsInv, entryVars
<1> QED  BY <1>3, <1>4, <1>5 DEF TrackInv

(* A handler's step: the head of the queue is taken, the map stays a map.  *)
LEMMA TakeKeeps ==
  ASSUME TrackInv, NEW kind, Take(kind), kind = "new" \/ DOMAIN entry' \subseteq DOMAIN entry,
         kind = "new" => DOMAIN entry' = DOMAIN entry \cup {Head(evq).c},
         UNCHANGED call
  PROVE  NewsInv' /\ (DOMAIN entry \subseteq DOMAIN call)' /\ evq' \in Seq(Event)
<1>1. evq # <<>> /\ evq \in Seq(Event) /\ evq' = Tail(evq) /\ Head(evq).kind = kind
  BY DEF Take, TrackInv, TypeOK
<1>2. /\ evq' \in Seq(Event) /\ 1 \in DOMAIN evq /\ Head(evq) = evq[1]
      /\ \A i \in DOMAIN evq' : i + 1 \in DOMAIN evq /\ i + 1 # 1 /\ evq'[i] = evq[i + 1]
  BY <1>1, TailOf
<1>3. DOMAIN evq' \subseteq Nat
  BY <1>2, LenProperties
<1>4. \A i \in DOMAIN evq' : evq'[i].kind = "new" => evq'[i].c \in DOMAIN call \ DOMAIN entry'
  <2> SUFFICES ASSUME NEW i \in DOMAIN evq', evq'[i].kind = "new"
               PROVE  evq'[i].c \in DOMAIN call \ DOMAIN entry'
    OBVIOUS
  <2>1. evq'[i].c \in DOMAIN call \ DOMAIN entry
    BY <1>2 DEF TrackInv, NewsInv
  <2>2. kind = "new" => evq'[i].c # Head(evq).c
    BY <1>1, <1>2 DEF TrackInv, NewsInv
  <2> QED  BY <2>1, <2>2
<1>5. \A i, j \in DOMAIN evq' :
        evq'[i].kind = "new" /\ evq'[j].kind = "new" /\ evq'[i].c = evq'[j].c => i = j
  <2> SUFFICES ASSUME NEW i \in DOMAIN evq', NEW j \in DOMAIN evq', evq'[i].kind = "new",
                      evq'[j].kind = "new", evq'[i].c = evq'[j].c
               PROVE  i = j
    OBVIOUS
  <2>1. i + 1 = j + 1
    BY <1>2 DEF TrackInv, NewsInv
  <2> QED  BY <1>3, <2>1
<1>6. (DOMAIN entry \subseteq DOMAIN call)'
  BY <1>1, <1>2 DEF TrackInv, NewsInv
<1> QED  BY <1>2, <1>4, <1>5, <1>6 DEF NewsInv

----------------------------------------------------------------------------
(* The actions of the providers and the resolver.                          *)

LEMMA InfoOfType ==
  ASSUME NEW t \in TrueCall, NEW sides, NEW named
  PROVE  InfoOf(t, sides, named) \in Info
<1>1. t.remote \in Raw /\ Own \in Raw /\ NetName[t.remote] \in Label /\ NoName \in Label
  BY TrackingAssumption DEF TrackingAssumption, TrueCall, Label
<1>2. InfoOf(t, sides, named).caller \in Raw \cup {NoRaw}
      /\ InfoOf(t, sides, named).called \in Raw \cup {NoRaw}
  BY <1>1 DEF InfoOf
<1>3. InfoOf(t, sides, named).callerName \in Label /\ InfoOf(t, sides, named).calledName \in Label
  BY <1>1 DEF InfoOf
<1> QED  BY <1>2, <1>3 DEF InfoOf, Info

LEMMA ProviderKeeps == TrackInv /\ Provider => TrackInv'
<1> SUFFICES ASSUME TrackInv, Provider PROVE TrackInv'
  OBVIOUS
<1>1. /\ call \in Seq(TrueCall) /\ Len(call) <= MaxCalls /\ Len(call) \in Nat
      /\ DOMAIN call = 1..Len(call) /\ MaxCalls \in Nat
  BY LenProperties, TrackingAssumption DEF TrackInv, TypeOK, TrackingAssumption
<1>2. \A c \in DOMAIN call : call[c] \in TrueCall /\ c \in Call
  BY <1>1, ElementOfSeq DEF Call
<1>3. \A c \in DOMAIN call, t \in TrueCall :
        LET q == [call EXCEPT ![c] = t]
        IN  q \in Seq(TrueCall) /\ Len(q) = Len(call) /\ DOMAIN q = DOMAIN call
  BY <1>1, ExceptSeq
<1>4. ASSUME NEW k \in Key, NEW type \in CallType, NEW remote \in Party,
             ProviderNew(k, type, remote)
      PROVE  TrackInv'
  <2> DEFINE t == [key |-> k, type |-> type, remote |-> remote, phase |-> "ringing",
                   outcome |-> "NOTREACHED", hungup |-> FALSE]
             ev == [kind |-> "new", key |-> k, c |-> Len(call) + 1, type |-> type,
                    status |-> FirstStatus(type)]
  <2>1. t \in TrueCall
    BY TrackingAssumption DEF TrackingAssumption, TrueCall, Phase
  <2>2. ev \in Event
    BY <1>1, <1>4 DEF ProviderNew, Event, Call, FirstStatus, Status
  <2>3. /\ call' = Append(call, t) /\ Post(ev) /\ UNCHANGED <<entryVars, dbVars, reqs>>
        /\ Len(call) < MaxCalls /\ ev.c = Len(call) + 1
    BY <1>4 DEF ProviderNew
  <2> HIDE DEF t, ev
  <2>4. call' \in Seq(TrueCall) /\ DOMAIN call' = DOMAIN call \cup {Len(call) + 1}
        /\ Len(call) + 1 \notin DOMAIN call
    BY <1>1, <2>1, <2>3, AppendOf
  <2>5. Len(call') = Len(call) + 1
    BY <1>1, <2>1, <2>3, AppendProperties
  <2> QED  BY <1>1, <2>2, <2>3, <2>4, <2>5, PostKeeps
<1>5. ASSUME NEW c \in DOMAIN call, NEW report \in Reports, ProviderInfo(c, report[1], report[2])
      PROVE  TrackInv'
  <2> DEFINE ev == [kind |-> "info", key |-> call[c].key, c |-> c,
                    info |-> InfoOf(call[c], report[1], report[2])]
  <2>1. InfoOf(call[c], report[1], report[2]) \in Info /\ call[c].key \in Key
    BY <1>2, InfoOfType DEF TrueCall
  <2>2. ev \in Event
    BY <1>2, <2>1 DEF Event
  <2>3. ev.kind # "new" /\ Post(ev) /\ UNCHANGED <<call, entryVars, dbVars, reqs>>
    BY <1>5 DEF ProviderInfo
  <2> HIDE DEF ev
  <2> QED  BY <1>1, <2>2, <2>3, PostKeeps
<1>6. ASSUME NEW c \in DOMAIN call, NEW s \in DOMAIN PhaseAfter, ProviderStatus(c, s)
      PROVE  TrackInv'
  <2> DEFINE ev == [kind |-> "state", key |-> call[c].key, c |-> c, status |-> s]
             t == [call[c] EXCEPT !.phase = PhaseAfter[s],
                                  !.outcome = IF s = "CONNECTED" THEN "OK"
                                              ELSE IF s = "BUSY" THEN "BUSY" ELSE @,
                                  !.hungup = s = "DISCONNECTED" /\ call[c].outcome = "OK"]
  <2>1. s \in Status /\ PhaseAfter[s] \in Phase /\ call[c].key \in Key
    BY <1>2 DEF PhaseAfter, Status, Phase, TrueCall
  <2>2. t \in TrueCall
    BY <1>2, <2>1 DEF TrueCall
  <2>3. ev \in Event
    BY <1>2, <2>1 DEF Event
  <2>4. ev.kind # "new" /\ Post(ev) /\ UNCHANGED <<entryVars, dbVars, reqs>>
        /\ call' = [call EXCEPT ![c] = t]
    BY <1>6 DEF ProviderStatus
  <2> HIDE DEF ev, t
  <2> QED  BY <1>1, <1>3, <2>2, <2>3, <2>4, PostKeeps
<1>7. ASSUME NEW c \in DOMAIN call, ProviderIdle(c)
      PROVE  TrackInv'
  <2> DEFINE ev == [kind |-> "state", key |-> call[c].key, c |-> c, status |-> "IDLE"]
             t == [call[c] EXCEPT !.phase = "gone"]
  <2>1. t \in TrueCall /\ ev \in Event
    BY <1>2 DEF TrueCall, Phase, Event, Status
  <2>2. ev.kind # "new" /\ Post(ev) /\ UNCHANGED <<entryVars, dbVars, reqs>>
        /\ call' = [call EXCEPT ![c] = t]
    BY <1>7 DEF ProviderIdle
  <2> HIDE DEF ev, t
  <2> QED  BY <1>1, <1>3, <2>1, <2>2, PostKeeps
<1>8. ASSUME NEW c \in DOMAIN call, ProviderLost(c)
      PROVE  TrackInv'
  <2> DEFINE t == [call[c] EXCEPT !.phase = "lost"]
  <2>1. t \in TrueCall
    BY <1>2 DEF TrueCall, Phase
  <2>2. call' = [call EXCEPT ![c] = t] /\ UNCHANGED <<evq, entryVars, dbVars, reqs>>
    BY <1>8 DEF ProviderLost
  <2> HIDE DEF t
  <2>3. call' \in Seq(TrueCall) /\ Len(call') = Len(call) /\ DOMAIN call' = DOMAIN call
    BY <1>3, <2>1, <2>2
  <2> QED  BY <1>1, <2>2, <2>3 DEF TrackInv, TypeOK, NewsInv, ActiveInj, entryVars, dbVars
<1> QED  BY <1>4, <1>5, <1>6, <1>7, <1>8 DEF Provider

LEMMA ServeKeeps == TrackInv /\ ResolverServe => TrackInv'
<1> SUFFICES ASSUME TrackInv, ResolverServe PROVE TrackInv'
  OBVIOUS
<1> DEFINE r == Head(reqs)
<1>1. reqs # <<>> /\ reqs' = Tail(reqs) /\ UNCHANGED <<call, entryVars, dbVars>>
      /\ evq \in Seq(Event) /\ reqs \in Seq(Request)
  BY DEF ResolverServe, TrackInv, TypeOK
<1>2. r \in Request /\ reqs' \in Seq(Request)
  BY <1>1, TailOf
<1>3. CASE UNCHANGED evq
  BY <1>1, <1>2, <1>3 DEF TrackInv, TypeOK, NewsInv, ActiveInj, entryVars, dbVars
<1>4. ASSUME NEW name \in Answers(r),
             evq' = Append(evq, [kind |-> "resolved", dbKey |-> r.dbKey, side |-> r.side,
                                 name |-> name])
      PROVE  TrackInv'
  <2> DEFINE ev == [kind |-> "resolved", dbKey |-> r.dbKey, side |-> r.side, name |-> name]
  <2>1. name \in Name
    BY <1>2, <1>4, TrackingAssumption DEF Answers, TrackingAssumption, Label, Request
  <2>2. ev \in Event /\ ev.kind # "new" /\ evq' = Append(evq, ev)
    BY <1>2, <1>4, <2>1 DEF Event, Request
  <2> HIDE DEF ev
  <2>3. /\ evq' \in Seq(Event) /\ DOMAIN evq' = DOMAIN evq \cup {Len(evq) + 1}
        /\ evq'[Len(evq) + 1] = ev /\ \A i \in DOMAIN evq : evq'[i] = evq[i]
    BY <1>1, <2>2, AppendOf
  <2>4. NewsInv'
    BY <1>1, <2>2, <2>3 DEF TrackInv, NewsInv, entryVars
  <2> QED  BY <1>1, <1>2, <2>3, <2>4 DEF TrackInv, TypeOK, ActiveInj, entryVars, dbVars
<1> QED  BY <1>3, <1>4 DEF ResolverServe

----------------------------------------------------------------------------
(* The handlers on the GUI thread.                                         *)

LEMMA SaveAsType ==
  ASSUME TrackInv, NEW c \in Call, NEW e \in Entry, SaveAs(c, e)
  PROVE  /\ DOMAIN entry' = DOMAIN entry \cup {c} /\ entry' \in [DOMAIN entry' -> Entry]
         /\ DOMAIN entry' \subseteq Call
         /\ DbType(table', nextcallid')
<1>1. DbType(table, nextcallid) /\ entry \in [DOMAIN entry -> Entry] /\ DOMAIN entry \subseteq Call
  BY DEF TrackInv, TypeOK, DbType
<1>2. PICK s \in Saved(e, c) : entry' = WithEntry(c, s.e) /\ table' = s.t /\ nextcallid' = s.next
  BY DEF SaveAs
<1>3. s.e \in Entry /\ DbType(s.t, s.next)
  BY <1>1, <1>2, SavedType
<1> QED  BY <1>1, <1>2, <1>3 DEF WithEntry

(* With no failing insert, a save leaves every row with one writer.        *)
LEMMA SaveAsOwns ==
  ASSUME TrackInv, KeyOwnership, "insert" \notin Faults,
         NEW c \in Call, NEW e \in Entry, SaveAs(c, e),
         IF c \in DOMAIN entry THEN e.dbKey = entry[c].dbKey ELSE e.dbKey = 0
  PROVE  KeyOwnership'
<1>1. DbType(table, nextcallid) /\ entry \in [DOMAIN entry -> Entry] /\ DOMAIN entry \subseteq Call
  BY DEF TrackInv, TypeOK, DbType
<1>2. PICK s \in Saved(e, c) : entry' = WithEntry(c, s.e) /\ table' = s.t /\ nextcallid' = s.next
  BY DEF SaveAs
<1>3. Kept(s, e) \/ Issued(s, e)
  BY <1>1, <1>2, SavedType DEF Stranded
<1>4. /\ DOMAIN entry' = DOMAIN entry \cup {c}
      /\ \A d \in DOMAIN entry' : entry'[d] = IF d = c THEN s.e ELSE entry[d]
  BY <1>2 DEF WithEntry
<1>5. /\ nextcallid \in Nat /\ nextcallid >= 1 /\ DOMAIN table \subseteq Nat
      /\ \A d \in DOMAIN entry : entry[d].dbKey \in Nat
  BY <1>1 DEF DbType, Id, Entry
<1>6. CASE Kept(s, e)
  BY <1>2, <1>4, <1>5, <1>6 DEF Kept, KeyOwnership
<1>7. CASE Issued(s, e)
  <2>1. \A a, b \in DOMAIN entry' : entry'[a].dbKey = entry'[b].dbKey /\ entry'[a].dbKey # 0 => a = b
    BY <1>4, <1>5, <1>7 DEF Issued, KeyOwnership
  <2>2. \A a \in DOMAIN entry' : entry'[a].dbKey < nextcallid'
    BY <1>2, <1>4, <1>5, <1>7 DEF Issued, KeyOwnership
  <2>3. \A id \in DOMAIN table' : id < nextcallid'
    BY <1>2, <1>5, <1>7 DEF Issued, KeyOwnership
  <2> QED  BY <2>1, <2>2, <2>3 DEF KeyOwnership
<1> QED  BY <1>3, <1>6, <1>7

(* What the head of the queue is, by the handler that takes it.            *)
LEMMA TakeFields ==
  ASSUME TrackInv, NEW kind, Take(kind)
  PROVE  /\ Head(evq) \in Event /\ Head(evq).kind = kind
         /\ kind = "new" => Head(evq).c \in DOMAIN call \ DOMAIN entry
         /\ active \in [Key -> DOMAIN entry \cup {0}] /\ windows \subseteq DOMAIN entry
         /\ DOMAIN entry \subseteq Call /\ 0 \notin Call
         /\ \A c \in DOMAIN entry : entry[c] \in Entry
<1>1. evq # <<>> /\ evq \in Seq(Event) /\ Head(evq).kind = kind
  BY DEF Take, TrackInv, TypeOK
<1>2. Head(evq) \in Event /\ 1 \in DOMAIN evq /\ Head(evq) = evq[1]
  BY <1>1, TailOf
<1> QED  BY <1>1, <1>2 DEF TrackInv, TypeOK, NewsInv, Call

Owned == "insert" \notin Faults /\ KeyOwnership

LEMMA OnNewCallKeeps ==
  ASSUME TrackInv, OnNewCall
  PROVE  TrackInv' /\ (Owned => KeyOwnership')
<1> DEFINE ev == Head(evq)
           e == SetState(NewEntry(ev.type), StateOf(ev.status))
<1>1. /\ Take("new") /\ SaveAs(ev.c, e) /\ UNCHANGED <<call, reqs>>
      /\ active' = [active EXCEPT ![ev.key] = IF @ = 0 THEN ev.c ELSE @]
      /\ windows' = IF ev.type = "INCOMING" THEN windows \cup {ev.c} ELSE windows
  BY DEF OnNewCall
<1>2. /\ ev.c \in DOMAIN call \ DOMAIN entry /\ ev.c \in Call /\ ev.key \in Key
      /\ ev.type \in Type /\ StateOf(ev.status) \in State
      /\ active \in [Key -> DOMAIN entry \cup {0}] /\ windows \subseteq DOMAIN entry
  BY <1>1, TakeFields, EventFields, StateOfType, TrackingAssumption DEF TrackingAssumption, Type
<1>3. e \in Entry /\ e.dbKey = 0
  BY <1>2, NewEntryType, SetStateType
<1> HIDE DEF e
<1>4. /\ DOMAIN entry' = DOMAIN entry \cup {ev.c} /\ entry' \in [DOMAIN entry' -> Entry]
      /\ DOMAIN entry' \subseteq Call /\ DbType(table', nextcallid')
  BY <1>1, <1>2, <1>3, SaveAsType
<1>5. NewsInv' /\ (DOMAIN entry \subseteq DOMAIN call)' /\ evq' \in Seq(Event)
  BY <1>1, <1>4, TakeKeeps
<1>6. active' \in [Key -> DOMAIN entry' \cup {0}] /\ windows' \subseteq DOMAIN entry'
  BY <1>1, <1>2, <1>4
<1>7. ActiveInj'
  BY <1>1, <1>2 DEF TrackInv, ActiveInj
<1>8. TypeOK'
  BY <1>1, <1>4, <1>5, <1>6 DEF TrackInv, TypeOK, DbType
<1>9. Owned => KeyOwnership'
  BY <1>1, <1>2, <1>3, SaveAsOwns DEF Owned
<1> QED  BY <1>5, <1>7, <1>8, <1>9 DEF TrackInv

(* The part the other handlers share: entry c, already there, is saved.    *)
LEMMA ResaveKeeps ==
  ASSUME TrackInv, NEW kind, Take(kind), kind # "new", NEW c \in DOMAIN entry, NEW e \in Entry,
         e.dbKey = entry[c].dbKey, SaveAs(c, e), UNCHANGED <<call, active, windows>>,
         reqs' \in Seq(Request)
  PROVE  TrackInv' /\ (Owned => KeyOwnership')
<1>1. c \in Call
  BY DEF TrackInv, TypeOK
<1>2. /\ DOMAIN entry' = DOMAIN entry /\ entry' \in [DOMAIN entry' -> Entry]
      /\ DOMAIN entry' \subseteq Call /\ DbType(table', nextcallid')
  BY <1>1, SaveAsType
<1>3. NewsInv' /\ (DOMAIN entry \subseteq DOMAIN call)' /\ evq' \in Seq(Event)
  BY <1>2, TakeKeeps
<1>4. TypeOK' /\ ActiveInj'
  BY <1>2, <1>3 DEF TrackInv, TypeOK, DbType, ActiveInj
<1>5. Owned => KeyOwnership'
  BY <1>1, SaveAsOwns DEF Owned
<1> QED  BY <1>3, <1>4, <1>5 DEF TrackInv

LEMMA OnCallStateUpdateKeeps ==
  ASSUME TrackInv, OnCallStateUpdate
  PROVE  TrackInv' /\ (Owned => KeyOwnership')
<1> DEFINE ev == Head(evq)
           c == active[ev.key]
<1>1. Take("state") /\ UNCHANGED <<call, reqs>> /\ reqs' \in Seq(Request)
  BY DEF OnCallStateUpdate, TrackInv, TypeOK
<1>2. /\ ev.key \in Key /\ StateOf(ev.status) \in State
      /\ active \in [Key -> DOMAIN entry \cup {0}] /\ windows \subseteq DOMAIN entry
      /\ 0 \notin DOMAIN entry /\ \A d \in DOMAIN entry : entry[d] \in Entry
  BY <1>1, TakeFields, EventFields, StateOfType
<1>3. CASE c = 0
  <2>1. UNCHANGED <<entryVars, dbVars>>
    BY <1>3 DEF OnCallStateUpdate
  <2>2. NewsInv' /\ (DOMAIN entry \subseteq DOMAIN call)' /\ evq' \in Seq(Event)
    BY <1>1, <2>1, TakeKeeps DEF entryVars
  <2> QED  BY <1>1, <2>1, <2>2
           DEF TrackInv, TypeOK, ActiveInj, KeyOwnership, Owned, entryVars, dbVars
<1>4. CASE c # 0 /\ ev.status = "IDLE"
  <2>1. Forget(ev.key)
    BY <1>4 DEF OnCallStateUpdate
  <2>2. /\ DOMAIN entry' = DOMAIN entry \ {c} /\ \A d \in DOMAIN entry' : entry'[d] = entry[d]
        /\ entry' = [d \in DOMAIN entry \ {c} |-> entry[d]]
        /\ windows' = windows \ {c} /\ active' = [active EXCEPT ![ev.key] = 0]
        /\ UNCHANGED dbVars
    BY <2>1 DEF Forget
  <2>3. NewsInv' /\ (DOMAIN entry \subseteq DOMAIN call)' /\ evq' \in Seq(Event)
    BY <1>1, <2>2, TakeKeeps
  <2>4. entry' \in [DOMAIN entry' -> Entry]
    BY <1>2, <2>2
  <2>5. active' \in [Key -> DOMAIN entry' \cup {0}]
    BY <1>2, <1>4, <2>2 DEF TrackInv, ActiveInj
  <2>6. TypeOK'
    BY <1>1, <1>2, <2>2, <2>3, <2>4, <2>5 DEF TrackInv, TypeOK, dbVars
  <2>7. ActiveInj'
    BY <1>2, <2>2 DEF TrackInv, ActiveInj
  <2>8. Owned => KeyOwnership'
    BY <2>2 DEF Owned, KeyOwnership, dbVars
  <2> QED  BY <2>3, <2>6, <2>7, <2>8 DEF TrackInv
<1>5. CASE c # 0 /\ ev.status # "IDLE"
  <2>1. SaveAs(c, SetState(entry[c], StateOf(ev.status))) /\ UNCHANGED <<active, windows>>
    BY <1>5 DEF OnCallStateUpdate
  <2>2. c \in DOMAIN entry
    BY <1>2, <1>5
  <2>3. SetState(entry[c], StateOf(ev.status)) \in Entry
        /\ SetState(entry[c], StateOf(ev.status)).dbKey = entry[c].dbKey
    BY <1>2, <2>2, SetStateType
  <2> QED  BY <1>1, <2>1, <2>2, <2>3, ResaveKeeps
<1> QED  BY <1>3, <1>4, <1>5

LEMMA OnCallInfoUpdateKeeps ==
  ASSUME TrackInv, OnCallInfoUpdate
  PROVE  TrackInv' /\ (Owned => KeyOwnership')
<1> DEFINE ev == Head(evq)
           c == active[ev.key]
<1>1. Take("info") /\ UNCHANGED <<call, active, windows>> /\ reqs \in Seq(Request)
  BY DEF OnCallInfoUpdate, TrackInv, TypeOK
<1>2. /\ ev.key \in Key /\ ev.info \in Info /\ active \in [Key -> DOMAIN entry \cup {0}]
      /\ \A d \in DOMAIN entry : entry[d] \in Entry
  BY <1>1, TakeFields, EventFields
<1>3. CASE c = 0
  <2>1. UNCHANGED <<entry, dbVars, reqs>>
    BY <1>3 DEF OnCallInfoUpdate
  <2>2. NewsInv' /\ (DOMAIN entry \subseteq DOMAIN call)' /\ evq' \in Seq(Event)
    BY <1>1, <2>1, TakeKeeps
  <2> QED  BY <1>1, <2>1, <2>2 DEF TrackInv, TypeOK, ActiveInj, KeyOwnership, Owned, dbVars
<1>4. CASE c # 0
  <2> DEFINE named == WithNames(entry[c], ev.info)
             called == WithCalled(named, ev.info.called)
             caller == WithCaller(called.e, ev.info.caller)
  <2>1. SaveAs(c, caller.e) /\ reqs' = reqs \o called.asked \o caller.asked
    BY <1>4 DEF OnCallInfoUpdate
  <2>2. c \in DOMAIN entry /\ entry[c] \in Entry
    BY <1>2, <1>4
  <2>3. ev.info.called \in Raw \cup {NoRaw} /\ ev.info.caller \in Raw \cup {NoRaw}
    BY <1>2 DEF Info
  <2>4. named \in Entry /\ named.dbKey = entry[c].dbKey
    BY <1>2, <2>2, WithNamesType
  <2> HIDE DEF named
  <2>5. called.e \in Entry /\ called.e.dbKey = named.dbKey /\ called.asked \in Seq(Request)
    BY <2>3, <2>4, WithCalledType
  <2> HIDE DEF called
  <2>6. caller.e \in Entry /\ caller.e.dbKey = called.e.dbKey /\ caller.asked \in Seq(Request)
    BY <2>3, <2>5, WithCallerType
  <2> HIDE DEF caller
  <2>7. reqs' \in Seq(Request)
    BY <1>1, <2>1, <2>5, <2>6, ConcatProperties
  <2> QED  BY <1>1, <2>1, <2>2, <2>4, <2>5, <2>6, <2>7, ResaveKeeps
<1> QED  BY <1>3, <1>4

(* A set of keys that is not empty has a first one.                        *)
LEMMA LeastElement ==
  ASSUME NEW T, T \subseteq Nat, T # {}
  PROVE  \E x \in T : \A y \in T : x <= y
<1> DEFINE Less == OpToRel(<, Nat)
<1>1. IsWellFoundedOn(Less, Nat)
  BY NatLessThanWellFounded
<1>2. \A x, y \in Nat : y < x => <<y, x>> \in Less
  BY DEF OpToRel
<1> HIDE DEF Less
<1>3. PICK x \in T : \A y \in T : ~(<<y, x>> \in Less)
  BY <1>1, WFMin
<1>4. \A y \in T : ~(y < x)
  BY <1>2, <1>3
<1> QED  BY <1>3, <1>4

LEMMA OnResolverResponseKeeps ==
  ASSUME TrackInv, OnResolverResponse
  PROVE  TrackInv' /\ (Owned => KeyOwnership')
<1> DEFINE ev == Head(evq)
<1>1. Take("resolved") /\ UNCHANGED <<call, active, windows, reqs>> /\ reqs' \in Seq(Request)
  BY DEF OnResolverResponse, TrackInv, TypeOK
<1>2. /\ ev.dbKey \in Nat /\ ev.side \in Side /\ ev.name \in Label
      /\ active \in [Key -> DOMAIN entry \cup {0}]
      /\ \A d \in DOMAIN entry : entry[d] \in Entry
  BY <1>1, TakeFields, EventFields DEF Label
<1>3. CASE Holders(ev.dbKey) # {}
  <2> DEFINE c == active[FirstHolder(ev.dbKey)]
  <2>1. SaveAs(c, Named(entry[c], ev.side, ev.name))
    BY <1>3 DEF OnResolverResponse
  <2>2. FirstHolder(ev.dbKey) \in Holders(ev.dbKey)
    <3>1. Holders(ev.dbKey) \subseteq Nat
      BY TrackingAssumption DEF Holders, TrackingAssumption
    <3>2. \E k \in Holders(ev.dbKey) : \A l \in Holders(ev.dbKey) : k <= l
      BY <1>3, <3>1, LeastElement
    <3> QED  BY <3>2 DEF FirstHolder
  <2>3. c \in DOMAIN entry /\ entry[c] \in Entry
    BY <1>2, <2>2 DEF Holders
  <2>4. Named(entry[c], ev.side, ev.name) \in Entry
        /\ Named(entry[c], ev.side, ev.name).dbKey = entry[c].dbKey
    BY <1>2, <2>3, NamedType
  <2> HIDE DEF c
  <2> QED  BY <1>1, <2>1, <2>3, <2>4, ResaveKeeps
<1>4. CASE Holders(ev.dbKey) = {}
  <2>1. UNCHANGED entry
    BY <1>4 DEF OnResolverResponse
  <2>2. NewsInv' /\ (DOMAIN entry \subseteq DOMAIN call)' /\ evq' \in Seq(Event)
    BY <1>1, <2>1, TakeKeeps
  <2>3. DbType(table', nextcallid') /\ DOMAIN table' = DOMAIN table /\ nextcallid' = nextcallid
    <3>1. DbType(table, nextcallid)
      BY DEF TrackInv, TypeOK, DbType
    <3>2. CASE DbOk /\ ev.dbKey \in DOMAIN table
      <4> DEFINE row == table[ev.dbKey]
                 e == Named(EntryOf(row, ev.dbKey), ev.side, ev.name)
      <4>1. row \in Row /\ row.call \in Call /\ ev.dbKey \in Id
        BY <3>1, <3>2 DEF DbType, Row
      <4>2. e \in Entry /\ e.dbKey = ev.dbKey /\ e.dbKey # 0
        BY <1>2, <4>1, EntryOfType, NamedType DEF Id
      <4>3. PICK s \in Saved(e, row.call) : table' = s.t /\ nextcallid' = s.next
        BY <1>4, <3>2 DEF OnResolverResponse
      <4> HIDE DEF row, e
      <4> QED  BY <3>1, <4>1, <4>2, <4>3, SavedType DEF Kept, Issued, Stranded
    <3>3. CASE ~(DbOk /\ ev.dbKey \in DOMAIN table)
      BY <1>4, <3>1, <3>3 DEF OnResolverResponse, dbVars
    <3> QED  BY <3>2, <3>3
  <2> QED  BY <1>1, <2>1, <2>2, <2>3
           DEF TrackInv, TypeOK, DbType, ActiveInj, KeyOwnership, Owned
<1> QED  BY <1>3, <1>4

----------------------------------------------------------------------------
LEMMA InitTracks == Init => TrackInv /\ KeyOwnership
<1> SUFFICES ASSUME Init PROVE TrackInv /\ KeyOwnership
  OBVIOUS
<1>1. /\ call = <<>> /\ evq = <<>> /\ entry = <<>> /\ windows = {} /\ table = <<>> /\ reqs = <<>>
      /\ nextcallid = 1 /\ active = [k \in Key |-> 0]
  BY DEF Init
<1>2. Len(call) = 0 /\ MaxCalls \in Nat
  BY <1>1, TrackingAssumption DEF TrackingAssumption
<1>3. /\ call \in Seq(TrueCall) /\ evq \in Seq(Event) /\ reqs \in Seq(Request)
      /\ DOMAIN evq = {} /\ DOMAIN call = {}
  BY <1>1, EmptySeq
<1>4. /\ DOMAIN entry = {} /\ entry \in [DOMAIN entry -> Entry]
      /\ DOMAIN table = {} /\ table \in [DOMAIN table -> Row]
  BY <1>1
<1>5. TypeOK
  BY <1>1, <1>2, <1>3, <1>4 DEF TypeOK, Id
<1> QED  BY <1>1, <1>3, <1>4, <1>5 DEF TrackInv, NewsInv, ActiveInj, KeyOwnership

LEMMA NextTracks ==
  ASSUME TrackInv, [Next]_vars
  PROVE  TrackInv' /\ (Owned => KeyOwnership')
<1>1. CASE Provider
  <2>1. UNCHANGED <<entryVars, dbVars>>
    BY <1>1 DEF Provider, ProviderNew, ProviderInfo, ProviderStatus, ProviderIdle, ProviderLost
  <2> QED  BY <1>1, <2>1, ProviderKeeps DEF Owned, KeyOwnership, entryVars, dbVars
<1>2. CASE ResolverServe
  BY <1>2, ServeKeeps DEF ResolverServe, Owned, KeyOwnership, entryVars, dbVars
<1>3. CASE Gui
  BY <1>3, OnNewCallKeeps, OnCallStateUpdateKeeps, OnCallInfoUpdateKeeps, OnResolverResponseKeeps
     DEF Gui
<1>4. CASE UNCHANGED vars
  BY <1>4 DEF vars, lineVars, entryVars, dbVars, TrackInv, TypeOK, NewsInv, ActiveInj, Owned,
              KeyOwnership
<1> QED  BY <1>1, <1>2, <1>3, <1>4 DEF Next

(* The map of active calls never dangles, however the threads' events mix. *)
THEOREM TrackCorrect == Spec => []TrackInv
<1>1. Init => TrackInv
  BY InitTracks
<1>2. TrackInv /\ [Next]_vars => TrackInv'
  BY NextTracks
<1> QED  BY <1>1, <1>2, PTL DEF Spec

(* The variables keep their types.                                         *)
THEOREM TypeCorrect == Spec => []TypeOK
<1>1. TrackInv => TypeOK
  BY DEF TrackInv
<1> QED  BY <1>1, TrackCorrect, PTL

(* If no insert fails half way, no two entries ever share a row and no id  *)
(* is handed out twice, whatever updates and purges fail, whatever calls   *)
(* get lost and whichever keys are used again.                             *)
THEOREM KeysOwned == ASSUME "insert" \notin Faults PROVE Spec => []KeyOwnership
<1>1. Init => KeyOwnership
  BY InitTracks
<1>2. TrackInv /\ KeyOwnership /\ [Next]_vars => KeyOwnership'
  BY NextTracks DEF Owned
<1> QED  BY <1>1, <1>2, TrackCorrect, PTL DEF Spec

----------------------------------------------------------------------------
(* Purging.  Rows have the keys that were given out; of those that a purge *)
(* by count takes, the newest has MaxCount newer ones, and all these stay. *)

RowsIssued == nextcallid \in Nat \ {0} /\ DOMAIN table \subseteq 1..(nextcallid - 1)

LEMMA GreatestElement ==
  ASSUME NEW n \in Nat, NEW S \in SUBSET (1..n), S # {}
  PROVE  \E k \in S : \A l \in S : l <= k
<1> DEFINE T == {n - k : k \in S}
<1>1. T \subseteq Nat /\ T # {}
  <2>1. \A k \in S : n - k \in Nat
    OBVIOUS
  <2> QED  BY <2>1
<1>2. PICK m \in T : \A l \in T : m <= l
  BY <1>1, LeastElement
<1>3. PICK k \in S : m = n - k
  BY <1>2
<1>4. ASSUME NEW l \in S PROVE l <= k
  <2>1. n - l \in T
    OBVIOUS
  <2>2. n - k <= n - l
    BY <1>2, <1>3, <2>1
  <2> QED  BY <2>2
<1> QED  BY <1>4

LEMMA PurgedRecent ==
  ASSUME ~ByAge, NEW n \in Nat, NEW t, DOMAIN t \subseteq 1..n, NEW id \in DOMAIN t, NEW p \in Purged(t, n)
  PROVE  id \in DOMAIN p \/ Cardinality(Newer(p, id)) >= MaxCount
<1> DEFINE Stay == {i \in DOMAIN t : ByCount => Cardinality(Newer(t, i)) < MaxCount}
           Taken == DOMAIN t \ Stay
<1>1. DOMAIN p = Stay
  <2>1. p = Restrict(t, Stay)
    BY DEF Purged
  <2> QED  BY <2>1 DEF Restrict
<1>2. IsFiniteSet(DOMAIN t) /\ MaxCount \in Nat
  BY FS_Interval, FS_Subset, TrackingAssumption DEF TrackingAssumption
<1>3. SUFFICES ASSUME id \in Taken PROVE Cardinality(Newer(p, id)) >= MaxCount
  BY <1>1
<1>4. PICK k \in Taken : \A l \in Taken : l <= k
  BY <1>3, GreatestElement
<1>5. Newer(t, k) \subseteq Newer(p, id)
  <2>1. ASSUME NEW j \in DOMAIN t, j > k PROVE j \in Stay /\ j > id
    <3>1. j \in 1..n /\ k \in 1..n /\ id \in 1..n /\ id <= k
      BY <1>3, <1>4
    <3>2. j \notin Taken
      BY <1>4, <2>1, <3>1
    <3> QED  BY <2>1, <3>1, <3>2
  <2> QED  BY <1>1, <2>1 DEF Newer
<1>6. IsFiniteSet(Newer(p, id)) /\ IsFiniteSet(Newer(t, k))
  <2>1. Newer(p, id) \in SUBSET DOMAIN t /\ Newer(t, k) \in SUBSET DOMAIN t
    BY <1>1 DEF Newer
  <2> QED  BY <1>2, <2>1, FS_Subset
<1>7. Cardinality(Newer(t, k)) <= Cardinality(Newer(p, id))
  BY <1>5, <1>6, FS_Subset
<1>8. Cardinality(Newer(t, k)) >= MaxCount
  <2>1. Cardinality(Newer(t, k)) \in Nat
    BY <1>6, FS_CardinalityType
  <2> QED  BY <1>2, <1>4, <2>1
<1>9. Cardinality(Newer(t, k)) \in Nat /\ Cardinality(Newer(p, id)) \in Nat
  BY <1>6, FS_CardinalityType
<1> QED  BY <1>2, <1>7, <1>8, <1>9

\* What a save does to the rows.
Recent(t, next) ==
  ~ByAge => \A id \in DOMAIN table \cup (nextcallid..(next - 1)) :
              id \in DOMAIN t \/ Cardinality({j \in DOMAIN t : j > id}) >= MaxCount

LEMMA SavedRecent ==
  ASSUME RowsIssued, NEW e, NEW c, NEW s \in Saved(e, c)
  PROVE  s.next \in Nat \ {0} /\ DOMAIN s.t \subseteq 1..(s.next - 1) /\ Recent(s.t, s.next)
<1>1. CASE s.next = nextcallid /\ DOMAIN s.t = DOMAIN table
  BY <1>1 DEF RowsIssued, Recent
<1> DEFINE row == RowOf(SetDbKey(e, nextcallid), c)
           t == WithRow(table, nextcallid, row)
<1>2. CASE s.next = nextcallid + 1 /\ s.t \in Purged(t, nextcallid) \cup {t}
  <2>1. DOMAIN t = DOMAIN table \cup {nextcallid}
    BY DEF WithRow
  <2> HIDE DEF t
  <2>2. nextcallid \in Nat /\ DOMAIN t \subseteq 1..nextcallid
    BY <2>1 DEF RowsIssued
  <2>3. DOMAIN s.t \subseteq DOMAIN t
    BY <1>2 DEF Purged, Restrict
  <2>4. ASSUME ~ByAge, NEW id \in DOMAIN t
        PROVE  id \in DOMAIN s.t \/ Cardinality({j \in DOMAIN s.t : j > id}) >= MaxCount
    BY <1>2, <2>2, <2>4, PurgedRecent DEF Newer
  <2>5. nextcallid..(s.next - 1) = {nextcallid}
    BY <1>2, <2>2
  <2> QED  BY <1>2, <2>1, <2>2, <2>3, <2>4, <2>5 DEF Recent
<1>3. \A f, u, x : Outcome(f, u, x).t = u /\ Outcome(f, u, x).next = x
  BY DEF Outcome
<1>4. CASE s \in Inserted(e, c)
  <2>1. \/ \E p \in Purged(t, nextcallid) \cup {t} : \E f : s = Outcome(f, p, nextcallid + 1)
        \/ \E f : s = Outcome(f, table, nextcallid)
    BY <1>4 DEF Inserted
  <2> HIDE DEF t
  <2> QED  BY <1>1, <1>2, <1>3, <2>1
<1>5. CASE s \in Updated(e)
  <2>1. \E u : \E f : s = Outcome(f, u, nextcallid) /\ DOMAIN u = DOMAIN table
    BY <1>5 DEF Updated
  <2> QED  BY <1>1, <1>3, <2>1
<1>6. CASE \E f : s = Outcome(f, table, nextcallid)
  BY <1>1, <1>3, <1>6
<1> QED  BY <1>4, <1>5, <1>6 DEF Saved

LEMMA RowsChange ==
  ASSUME [Next]_vars
  PROVE  UNCHANGED dbVars \/ \E e, c : \E s \in Saved(e, c) : table' = s.t /\ nextcallid' = s.next
<1>1. CASE Provider \/ ResolverServe \/ UNCHANGED vars
  BY <1>1 DEF Provider, ProviderNew, ProviderInfo, ProviderStatus, ProviderIdle, ProviderLost, ResolverServe,
              vars, dbVars
<1>2. ASSUME NEW e, NEW c, SaveAs(c, e)
      PROVE  \E f, d : \E s \in Saved(f, d) : table' = s.t /\ nextcallid' = s.next
  BY <1>2 DEF SaveAs
<1>3. CASE OnNewCall
  <2>1. \E e, c : SaveAs(c, e)
    BY <1>3 DEF OnNewCall
  <2> QED  BY <1>2, <2>1
<1>4. CASE OnCallStateUpdate
  <2>1. UNCHANGED dbVars \/ \E e, c : SaveAs(c, e)
    BY <1>4 DEF OnCallStateUpdate, Forget
  <2> QED  BY <1>2, <2>1
<1>5. CASE OnCallInfoUpdate
  <2>1. UNCHANGED dbVars \/ \E e, c : SaveAs(c, e)
    BY <1>5 DEF OnCallInfoUpdate
  <2> QED  BY <1>2, <2>1
<1>6. CASE OnResolverResponse
  <2>1. \/ UNCHANGED dbVars \/ \E e, c : SaveAs(c, e)
        \/ \E e, c : \E s \in Saved(e, c) : table' = s.t /\ nextcallid' = s.next
    BY <1>6 DEF OnResolverResponse
  <2> QED  BY <1>2, <2>1
<1> QED  BY <1>1, <1>3, <1>4, <1>5, <1>6 DEF Next, Gui

(* Purging by count never takes one of the newest MaxCount rows, the one   *)
(* just inserted included: whatever fails and in whatever order calls end. *)
THEOREM RecentRowsStayHolds == Spec => RecentRowsStay
<1>1. Init => RowsIssued
  BY DEF Init, RowsIssued
<1>2. RowsIssued /\ [Next]_vars => RowsIssued' /\ Recent(table', nextcallid')
  <2> SUFFICES ASSUME RowsIssued, [Next]_vars PROVE RowsIssued' /\ Recent(table', nextcallid')
    OBVIOUS
  <2>1. CASE UNCHANGED dbVars
    BY <2>1 DEF dbVars, RowsIssued, Recent
  <2>2. CASE \E e, c : \E s \in Saved(e, c) : table' = s.t /\ nextcallid' = s.next
    BY <2>2, SavedRecent DEF RowsIssued
  <2> QED  BY <2>1, <2>2, RowsChange
<1>3. Recent(table', nextcallid') =>
        (~ByAge => \A id \in DOMAIN table \cup (nextcallid..(nextcallid' - 1)) :
           id \in DOMAIN table' \/ Cardinality({j \in DOMAIN table' : j > id}) >= MaxCount)
  BY DEF Recent
<1> QED  BY <1>1, <1>2, <1>3, PTL DEF Spec, RecentRowsStay
==============================================================================

--------------------------- MODULE CallTruthProofs ---------------------------
(***************************************************************************)
(* What the journal says: theorems about CallTracking that relate its      *)
(* entries to its rows and both to the calls on the line, for any number   *)
(* of keys, calls and names.                                               *)
(***************************************************************************)
EXTENDS CallTrackingProofs

----------------------------------------------------------------------------
(* The operations of an entry set the dirty flag if they change what goes  *)
(* into the row.                                                           *)

SameRow(e, f) == \A c : RowOf(f, c) = RowOf(e, c)

Honest(e, f) == f.dbKey = e.dbKey /\ (~f.dirty => ~e.dirty /\ SameRow(e, f))

LEMMA HonestSelf == \A e : Honest(e, e)
BY DEF Honest, SameRow

LEMMA HonestThen ==
  ASSUME NEW e, NEW f, NEW g, Honest(e, f), Honest(f, g)
  PROVE  Honest(e, g)
BY DEF Honest, SameRow

LEMMA SetFieldHonest ==
  ASSUME NEW e \in Entry,
         NEW field \in {"type", "state", "result", "clnr", "cln", "cdnr", "cdn"}, NEW value
  PROVE  Honest(e, SetField(e, field, value))
<1> DEFINE f == SetField(e, field, value)
<1>1. f = [e EXCEPT ![field] = value, !.dirty = @ \/ e[field] # value]
  BY DEF SetField
<1>2. f.dbKey = e.dbKey
  BY <1>1 DEF Entry
<1>3. ASSUME ~f.dirty
      PROVE  ~e.dirty /\ e[field] = value
  BY <1>1, <1>3 DEF Entry
<1>4. ASSUME ~f.dirty
      PROVE  SameRow(e, f)
  BY <1>1, <1>3, <1>4 DEF SameRow, RowOf, Entry
<1> QED  BY <1>2, <1>3, <1>4 DEF Honest

LEMMA SetTimeHonest ==
  ASSUME NEW e \in Entry
  PROVE  Honest(e, SetBeginNow(e)) /\ Honest(e, SetEndNow(e))
BY DEF Honest, SetBeginNow, SetEndNow, Entry

LEMMA SetStateHonest ==
  ASSUME NEW e \in Entry, NEW s \in State
  PROVE  Honest(e, SetState(e, s))
<1> DEFINE f == CASE e.type = "OUTGOING" -> OutgoingEffect(e, s)
                  [] e.type = "INCOMING" -> IncomingEffect(e, s)
                  [] OTHER               -> e
<1>1. /\ SetBeginNow(e) \in Entry /\ SetEndNow(e) \in Entry
      /\ \A r \in Result : SetResult(e, r) \in Entry
  BY DEF SetBeginNow, SetEndNow, SetResult, SetField, Entry
<1>2. OutgoingEffect(e, s) \in Entry /\ Honest(e, OutgoingEffect(e, s))
  <2>1. \A r \in Result : SetResult(SetBeginNow(e), r) \in Entry
    BY <1>1 DEF SetResult, SetField, Entry
  <2>2. \A r \in Result : Honest(e, SetResult(e, r)) /\ Honest(SetBeginNow(e), SetResult(SetBeginNow(e), r))
    BY <1>1, SetFieldHonest DEF SetResult
  <2>3. \A r \in Result : Honest(e, SetResult(SetBeginNow(e), r))
    BY <2>2, SetTimeHonest, HonestThen
  <2> QED  BY <1>1, <2>1, <2>2, <2>3, SetTimeHonest, HonestSelf DEF OutgoingEffect, Result
<1>3. IncomingEffect(e, s) \in Entry /\ Honest(e, IncomingEffect(e, s))
  <2>1. "OK" \in Result
    BY DEF Result
  <2>2. SetBeginNow(SetResult(e, "OK")) \in Entry
    BY <1>1, <2>1 DEF SetBeginNow, Entry
  <2>3. Honest(e, SetBeginNow(SetResult(e, "OK")))
    BY <1>1, <2>1, SetFieldHonest, SetTimeHonest, HonestThen DEF SetResult
  <2> QED  BY <1>1, <2>2, <2>3, SetTimeHonest, HonestSelf DEF IncomingEffect
<1>4. f \in Entry /\ Honest(e, f)
  BY <1>2, <1>3, HonestSelf
<1> HIDE DEF f
<1>5. Honest(f, SetField(f, "state", s))
  BY <1>4, SetFieldHonest
<1>6. SetState(e, s) = SetField(f, "state", s)
  BY DEF SetState, f
<1> QED  BY <1>4, <1>5, <1>6, HonestThen

LEMMA NamedHonest ==
  ASSUME NEW e \in Entry, NEW side, NEW name
  PROVE  Honest(e, Named(e, side, name))
BY SetFieldHonest DEF Named

LEMMA WithNamesHonest ==
  ASSUME NEW e \in Entry, NEW info \in Info
  PROVE  Honest(e, WithNames(e, info))
<1> DEFINE f == IF e.cdn = NoName THEN SetField(e, "cdn", info.calledName) ELSE e
<1>1. f \in Entry /\ Honest(e, f)
  <2>1. SetField(e, "cdn", info.calledName) \in Entry
    BY DEF SetField, Entry, Info
  <2> QED  BY <2>1, SetFieldHonest, HonestSelf
<1>2. WithNames(e, info) = IF f.cln = NoName THEN SetField(f, "cln", info.callerName) ELSE f
  BY DEF WithNames
<1> HIDE DEF f
<1> QED  BY <1>1, <1>2, SetFieldHonest, HonestThen

\* The look-up that is under way is not part of the row.
LEMMA ResolvingHonest ==
  ASSUME NEW e \in Entry
  PROVE  /\ Honest(e, [e EXCEPT !.resolvingCaller = TRUE])
         /\ Honest(e, [e EXCEPT !.resolvingCalled = TRUE])
BY DEF Honest, SameRow, RowOf, Entry

LEMMA WithCallerHonest ==
  ASSUME NEW e \in Entry, NEW raw \in Raw \cup {NoRaw}
  PROVE  Honest(e, WithCaller(e, raw).e)
<1> DEFINE f == SetField(e, "clnr", Format[raw])
<1>1. CASE raw = NoRaw \/ e.clnr # NoNumber \/ e.resolvingCaller
  BY <1>1, HonestSelf DEF WithCaller
<1>2. CASE ~(raw = NoRaw \/ e.clnr # NoNumber \/ e.resolvingCaller)
  <2>1. Format[raw] \in Address
    BY <1>2, TrackingAssumption DEF TrackingAssumption
  <2>2. f \in Entry /\ Honest(e, f)
    BY <2>1, SetFieldHonest DEF SetField, Entry
  <2> DEFINE g == [f EXCEPT !.resolvingCaller = TRUE]
  <2>3. WithCaller(e, raw).e \in {f, g}
    BY <1>2 DEF WithCaller
  <2> HIDE DEF f
  <2>4. Honest(f, g)
    BY <2>2, ResolvingHonest
  <2> HIDE DEF g
  <2> QED  BY <2>2, <2>3, <2>4, HonestThen
<1> QED  BY <1>1, <1>2

LEMMA WithCalledHonest ==
  ASSUME NEW e \in Entry, NEW raw \in Raw \cup {NoRaw}
  PROVE  Honest(e, WithCalled(e, raw).e)
<1> DEFINE f == SetField(e, "cdnr", Format[raw])
<1>1. CASE raw = NoRaw \/ e.cdnr # NoNumber \/ e.resolvingCalled
  BY <1>1, HonestSelf DEF WithCalled
<1>2. CASE ~(raw = NoRaw \/ e.cdnr # NoNumber \/ e.resolvingCalled)
  <2>1. Format[raw] \in Address
    BY <1>2, TrackingAssumption DEF TrackingAssumption
  <2>2. f \in Entry /\ Honest(e, f)
    BY <2>1, SetFieldHonest DEF SetField, Entry
  <2> DEFINE g == [f EXCEPT !.resolvingCalled = TRUE]
  <2>3. WithCalled(e, raw).e \in {f, g}
    BY <1>2 DEF WithCalled
  <2> HIDE DEF f
  <2>4. Honest(f, g)
    BY <2>2, ResolvingHonest
  <2> HIDE DEF g
  <2> QED  BY <2>2, <2>3, <2>4, HonestThen
<1> QED  BY <1>1, <1>2

----------------------------------------------------------------------------
(* insertUpdateEntry, told by what it does to the table: nothing, rewrite  *)
(* the row of the entry, or enter a new one.  Purging only removes rows.   *)

Untouched(s, e) ==
  /\ s.e.dbKey = e.dbKey /\ SameRow(e, s.e) /\ s.t = table /\ s.next = nextcallid
  /\ s.e.state = e.state /\ (~s.e.dirty => ~e.dirty \/ ~DbOk)
  /\ s.e.dirty => s.e = e /\ (IF e.dbKey = 0 THEN "begin" ELSE "update") \in Faults

Rewritten(s, e) ==
  /\ DbOk /\ e.dbKey # 0 /\ s.e.dbKey = e.dbKey /\ SameRow(e, s.e) /\ s.next = nextcallid
  /\ s.e.state = e.state /\ ~s.e.dirty
  /\ s.t = [i \in DOMAIN table |-> IF i = e.dbKey THEN RowOf(s.e, table[i].call) ELSE table[i]]

NewRow(s, e, c) ==
  /\ DbOk /\ e.dbKey = 0 /\ s.e.dbKey = nextcallid /\ SameRow(e, s.e) /\ s.next = nextcallid + 1
  /\ s.e.state = e.state /\ ~s.e.dirty
  /\ DOMAIN s.t \subseteq DOMAIN table \cup {nextcallid}
  /\ \A i \in DOMAIN s.t : s.t[i] = IF i = nextcallid THEN RowOf(s.e, c) ELSE table[i]

LEMMA CleanSameRow ==
  ASSUME NEW e \in Entry
  PROVE  /\ SameRow(e, [e EXCEPT !.dirty = FALSE]) /\ ~[e EXCEPT !.dirty = FALSE].dirty
         /\ [e EXCEPT !.dirty = FALSE].dbKey = e.dbKey
         /\ [e EXCEPT !.dirty = FALSE].state = e.state
BY DEF SameRow, RowOf, Entry

LEMMA InsertedCases ==
  ASSUME NEW e \in Entry, NEW c \in Call, DbType(table, nextcallid), "insert" \notin Faults,
         DbOk, e.dbKey = 0, e.dirty, NEW s \in Inserted(e, c)
  PROVE  Untouched(s, e) \/ NewRow(s, e, c)
<1> DEFINE keyed == SetDbKey(e, nextcallid)
           clean == [keyed EXCEPT !.dirty = FALSE]
           t == WithRow(table, nextcallid, RowOf(keyed, c))
<1>1. keyed \in Entry /\ keyed.dbKey = nextcallid /\ SameRow(e, keyed) /\ keyed.state = e.state
  BY DEF SetDbKey, SetField, Entry, DbType, Id, SameRow, RowOf
<1>2. t = [i \in DOMAIN table \cup {nextcallid} |->
             IF i = nextcallid THEN RowOf(keyed, c) ELSE table[i]]
  BY DEF WithRow
<1> HIDE DEF keyed
<1>3. clean.dbKey = nextcallid /\ SameRow(keyed, clean) /\ ~clean.dirty /\ clean.state = e.state
  BY <1>1, CleanSameRow
<1> HIDE DEF clean, t
<1>4. CASE \E p \in Purged(t, nextcallid) \cup {t} : s = Outcome(clean, p, nextcallid + 1)
  <2>1. PICK p \in Purged(t, nextcallid) \cup {t} : s = Outcome(clean, p, nextcallid + 1)
    BY <1>4
  <2>2. PICK S \in SUBSET DOMAIN t : p = [i \in S |-> t[i]]
    <3>1. CASE p \in Purged(t, nextcallid)
      BY <3>1 DEF Purged, Restrict
    <3>2. CASE p = t
      BY <1>2, <3>2
    <3> QED  BY <2>1, <3>1, <3>2
  <2>3. s.e = clean /\ s.t = p /\ s.next = nextcallid + 1
    BY <2>1 DEF Outcome
  <2>4. DOMAIN p \subseteq DOMAIN table \cup {nextcallid}
        /\ \A i \in DOMAIN p : p[i] = IF i = nextcallid THEN RowOf(keyed, c) ELSE table[i]
    BY <1>2, <2>2
  <2>5. SameRow(e, clean) /\ RowOf(keyed, c) = RowOf(clean, c)
    BY <1>1, <1>3 DEF SameRow
  <2> QED  BY <1>3, <2>3, <2>4, <2>5 DEF NewRow
<1>5. CASE "begin" \in Faults /\ s = Outcome(e, table, nextcallid)
  BY <1>5 DEF Outcome, Untouched, SameRow
<1>6. \/ \E p \in Purged(t, nextcallid) \cup {t} : s = Outcome(clean, p, nextcallid + 1)
      \/ "begin" \in Faults /\ s = Outcome(e, table, nextcallid)
  BY DEF Inserted, t, clean, keyed
<1> QED  BY <1>4, <1>5, <1>6

LEMMA SavedCases ==
  ASSUME NEW e \in Entry, NEW c \in Call, DbType(table, nextcallid), "insert" \notin Faults,
         NEW s \in Saved(e, c)
  PROVE  Untouched(s, e) \/ Rewritten(s, e) \/ NewRow(s, e, c)
<1> DEFINE clean == [e EXCEPT !.dirty = FALSE]
           t == [i \in DOMAIN table |-> IF i = e.dbKey THEN RowOf(e, table[i].call) ELSE table[i]]
<1>1. clean.dbKey = e.dbKey /\ SameRow(e, clean) /\ ~clean.dirty /\ clean.state = e.state
  BY CleanSameRow
<1> HIDE DEF clean
<1>2. CASE ~e.dirty
  BY <1>2 DEF Saved, Outcome, Untouched, SameRow
<1>3. CASE e.dirty /\ ~DbOk
  <2>1. s = Outcome(clean, table, nextcallid)
    BY <1>3 DEF Saved, clean
  <2>2. s.e = clean /\ s.t = table /\ s.next = nextcallid
    BY <2>1 DEF Outcome
  <2> QED  BY <1>1, <1>3, <2>2 DEF Untouched
<1>4. CASE e.dirty /\ DbOk /\ e.dbKey = 0
  BY <1>4, InsertedCases DEF Saved
<1>5. CASE e.dirty /\ DbOk /\ e.dbKey # 0
  <2> HIDE DEF t
  <2>1. \/ s = Outcome(clean, t, nextcallid)
        \/ "update" \in Faults /\ s = Outcome(e, table, nextcallid)
    BY <1>5 DEF Saved, Updated, clean, t
  <2>2. CASE "update" \in Faults /\ s = Outcome(e, table, nextcallid)
    BY <1>5, <2>2 DEF Outcome, Untouched, SameRow
  <2>3. CASE s = Outcome(clean, t, nextcallid)
    <3>1. s.e = clean /\ s.t = t /\ s.next = nextcallid
      BY <2>3 DEF Outcome
    <3>2. t = [i \in DOMAIN table |->
                 IF i = e.dbKey THEN RowOf(clean, table[i].call) ELSE table[i]]
      BY <1>1 DEF t, SameRow
    <3> QED  BY <1>1, <1>5, <3>1, <3>2 DEF Rewritten
  <2> QED  BY <2>1, <2>2, <2>3
<1> QED  BY <1>2, <1>3, <1>4, <1>5

----------------------------------------------------------------------------
(* The dirty flag.  The row of an entry was made by it, and no other entry *)
(* that a key leads to writes there (KeyOwnership).                        *)

RowKeys ==
  \A c \in DOMAIN entry : entry[c].dbKey \in DOMAIN table => table[entry[c].dbKey].call = c

CleanInv == TrackInv /\ KeyOwnership /\ RowKeys /\ CleanMeansSaved

LEMMA SaveAsClean ==
  ASSUME CleanInv, "insert" \notin Faults, NEW c \in Call, NEW e \in Entry, SaveAs(c, e),
         IF c \in DOMAIN entry THEN c \in Reachable /\ Honest(entry[c], e) ELSE e.dbKey = 0,
         Reachable' \subseteq Reachable \cup {c}
  PROVE  RowKeys' /\ CleanMeansSaved'
<1>1. /\ DbType(table, nextcallid) /\ DOMAIN entry \subseteq Call
      /\ \A d \in DOMAIN entry : entry[d] \in Entry
      /\ Reachable \subseteq DOMAIN entry
  BY DEF CleanInv, TrackInv, TypeOK, DbType, Reachable
<1>2. PICK s \in Saved(e, c) : entry' = WithEntry(c, s.e) /\ table' = s.t /\ nextcallid' = s.next
  BY DEF SaveAs
<1>3. Untouched(s, e) \/ Rewritten(s, e) \/ NewRow(s, e, c)
  BY <1>1, <1>2, SavedCases
<1>4. /\ DOMAIN entry' = DOMAIN entry \cup {c}
      /\ entry'[c] = s.e /\ \A d \in DOMAIN entry : d # c => entry'[d] = entry[d]
  BY <1>2 DEF WithEntry
<1>5. 0 \notin DOMAIN table /\ nextcallid \in Nat /\ nextcallid # 0
      /\ \A d \in DOMAIN entry : entry[d].dbKey \in Nat /\ entry[d].dbKey < nextcallid
                                 /\ entry[d].dbKey # nextcallid
  BY <1>1 DEF DbType, Id, CleanInv, KeyOwnership, Entry
<1>6. c \in DOMAIN entry => e.dbKey = entry[c].dbKey
  BY DEF Honest
<1>7. \A d \in DOMAIN entry : d # c /\ e.dbKey # 0 => entry[d].dbKey # e.dbKey
  BY <1>6 DEF CleanInv, KeyOwnership
<1>8. CASE Untouched(s, e)
  <2>1. table' = table /\ s.e.dbKey = e.dbKey /\ SameRow(e, s.e)
        /\ (~s.e.dirty => ~e.dirty \/ ~DbOk)
    BY <1>2, <1>8 DEF Untouched
  <2>2. RowKeys'
    BY <1>4, <1>5, <1>6, <2>1 DEF RowKeys, CleanInv
  <2>3. ASSUME DbOk, ~s.e.dirty, s.e.dbKey \in DOMAIN table
        PROVE  table[s.e.dbKey] = RowOf(s.e, c)
    <3>1. c \in DOMAIN entry /\ c \in Reachable /\ Honest(entry[c], e)
      BY <1>5, <2>1, <2>3
    <3>2. ~entry[c].dirty /\ SameRow(entry[c], e) /\ entry[c].dbKey \in DOMAIN table
          /\ entry[c].dbKey = s.e.dbKey
      BY <2>1, <2>3, <3>1 DEF Honest
    <3>3. table[s.e.dbKey] = RowOf(entry[c], c)
      BY <2>3, <3>1, <3>2 DEF CleanInv, CleanMeansSaved
    <3> QED  BY <2>1, <3>2, <3>3 DEF SameRow
  <2>4. CleanMeansSaved'
    <3> SUFFICES ASSUME DbOk, NEW d \in Reachable', ~entry'[d].dirty,
                        entry'[d].dbKey \in DOMAIN table'
                 PROVE  table'[entry'[d].dbKey] = RowOf(entry'[d], d)
      BY DEF CleanMeansSaved
    <3>1. CASE d = c
      BY <1>4, <2>1, <2>3, <3>1
    <3>2. CASE d # c
      BY <1>1, <1>4, <2>1, <3>2 DEF CleanInv, CleanMeansSaved
    <3> QED  BY <3>1, <3>2
  <2> QED  BY <2>2, <2>4
<1>9. CASE Rewritten(s, e)
  <2>1. /\ e.dbKey # 0 /\ s.e.dbKey = e.dbKey /\ DOMAIN table' = DOMAIN table
        /\ \A i \in DOMAIN table :
             table'[i] = IF i = e.dbKey THEN RowOf(s.e, table[i].call) ELSE table[i]
    BY <1>2, <1>9 DEF Rewritten
  <2>2. c \in DOMAIN entry
    BY <2>1
  <2>3. \A i \in DOMAIN table : table'[i].call = table[i].call
    BY <2>1 DEF RowOf
  <2>4. RowKeys'
    BY <1>4, <1>6, <2>1, <2>2, <2>3 DEF RowKeys, CleanInv
  <2>5. CleanMeansSaved'
    <3> SUFFICES ASSUME DbOk, NEW d \in Reachable', ~entry'[d].dirty,
                        entry'[d].dbKey \in DOMAIN table'
                 PROVE  table'[entry'[d].dbKey] = RowOf(entry'[d], d)
      BY DEF CleanMeansSaved
    <3>1. CASE d = c
      <4>1. table[e.dbKey].call = c
        BY <1>4, <1>6, <2>1, <2>2, <3>1 DEF RowKeys, CleanInv
      <4> QED  BY <1>4, <2>1, <3>1, <4>1
    <3>2. CASE d # c
      BY <1>1, <1>4, <1>7, <2>1, <3>2 DEF CleanInv, CleanMeansSaved
    <3> QED  BY <3>1, <3>2
  <2> QED  BY <2>4, <2>5
<1>10. CASE NewRow(s, e, c)
  <2>1. /\ s.e.dbKey = nextcallid /\ DOMAIN table' \subseteq DOMAIN table \cup {nextcallid}
        /\ \A i \in DOMAIN table' :
             table'[i] = IF i = nextcallid THEN RowOf(s.e, c) ELSE table[i]
    BY <1>2, <1>10 DEF NewRow
  <2>2. RowOf(s.e, c).call = c
    BY DEF RowOf
  <2>3. RowKeys'
    BY <1>4, <1>5, <2>1, <2>2 DEF RowKeys, CleanInv
  <2>4. CleanMeansSaved'
    BY <1>1, <1>4, <1>5, <2>1 DEF CleanInv, CleanMeansSaved
  <2> QED  BY <2>3, <2>4
<1> QED  BY <1>3, <1>8, <1>9, <1>10

LEMMA FirstHolderHolds ==
  ASSUME NEW id, Holders(id) # {}
  PROVE  FirstHolder(id) \in Holders(id)
<1>1. Holders(id) \subseteq Nat
  BY TrackingAssumption DEF Holders, TrackingAssumption
<1>2. \E k \in Holders(id) : \A l \in Holders(id) : k <= l
  BY <1>1, LeastElement
<1> QED  BY <1>2 DEF FirstHolder

LEMMA OnNewCallClean ==
  ASSUME CleanInv, "insert" \notin Faults, OnNewCall
  PROVE  RowKeys' /\ CleanMeansSaved'
<1> DEFINE ev == Head(evq)
           e == SetState(NewEntry(ev.type), StateOf(ev.status))
<1>1. /\ Take("new") /\ SaveAs(ev.c, e)
      /\ active' = [active EXCEPT ![ev.key] = IF @ = 0 THEN ev.c ELSE @]
  BY DEF OnNewCall
<1>2. /\ ev.c \notin DOMAIN entry /\ ev.c \in Call /\ ev.key \in Key
      /\ ev.type \in Type /\ StateOf(ev.status) \in State
      /\ active \in [Key -> DOMAIN entry \cup {0}]
  BY <1>1, TakeFields, EventFields, StateOfType, TrackingAssumption
     DEF TrackingAssumption, Type, CleanInv
<1>3. e \in Entry /\ e.dbKey = 0
  BY <1>2, NewEntryType, SetStateType
<1> HIDE DEF e
<1>4. Reachable' \subseteq Reachable \cup {ev.c}
  BY <1>1, <1>2 DEF Reachable
<1> QED  BY <1>1, <1>2, <1>3, <1>4, SaveAsClean

LEMMA OnCallStateUpdateClean ==
  ASSUME CleanInv, "insert" \notin Faults, OnCallStateUpdate
  PROVE  RowKeys' /\ CleanMeansSaved'
<1> DEFINE ev == Head(evq)
           c == active[ev.key]
<1>1. Take("state")
  BY DEF OnCallStateUpdate
<1>2. /\ ev.key \in Key /\ StateOf(ev.status) \in State
      /\ active \in [Key -> DOMAIN entry \cup {0}] /\ DOMAIN entry \subseteq Call
      /\ \A d \in DOMAIN entry : entry[d] \in Entry
  BY <1>1, TakeFields, EventFields, StateOfType DEF CleanInv
<1>3. CASE c = 0
  BY <1>3 DEF OnCallStateUpdate, entryVars, dbVars, CleanInv, RowKeys, CleanMeansSaved, Reachable
<1>4. CASE c # 0 /\ ev.status = "IDLE"
  <2>1. Forget(ev.key)
    BY <1>4 DEF OnCallStateUpdate
  <2>2. /\ DOMAIN entry' = DOMAIN entry \ {c} /\ \A d \in DOMAIN entry' : entry'[d] = entry[d]
        /\ active' = [active EXCEPT ![ev.key] = 0] /\ UNCHANGED <<table, nextcallid>>
    BY <2>1 DEF Forget, dbVars
  <2>3. Reachable' \subseteq Reachable /\ c \notin Reachable' /\ Reachable \subseteq DOMAIN entry
    BY <1>2, <2>2 DEF CleanInv, TrackInv, ActiveInj, Reachable
  <2> QED  BY <2>2, <2>3 DEF CleanInv, RowKeys, CleanMeansSaved
<1>5. CASE c # 0 /\ ev.status # "IDLE"
  <2> DEFINE e == SetState(entry[c], StateOf(ev.status))
  <2>1. SaveAs(c, e) /\ UNCHANGED active
    BY <1>5 DEF OnCallStateUpdate
  <2>2. c \in Reachable /\ c \in DOMAIN entry /\ c \in Call /\ Reachable' = Reachable
    BY <1>2, <1>5, <2>1 DEF Reachable
  <2>3. e \in Entry /\ Honest(entry[c], e)
    BY <1>2, <2>2, SetStateType, SetStateHonest
  <2> HIDE DEF e
  <2> QED  BY <2>1, <2>2, <2>3, SaveAsClean
<1> QED  BY <1>3, <1>4, <1>5

LEMMA OnCallInfoUpdateClean ==
  ASSUME CleanInv, "insert" \notin Faults, OnCallInfoUpdate
  PROVE  RowKeys' /\ CleanMeansSaved'
<1> DEFINE ev == Head(evq)
           c == active[ev.key]
<1>1. Take("info") /\ UNCHANGED active
  BY DEF OnCallInfoUpdate
<1>2. /\ ev.key \in Key /\ ev.info \in Info /\ active \in [Key -> DOMAIN entry \cup {0}]
      /\ DOMAIN entry \subseteq Call /\ \A d \in DOMAIN entry : entry[d] \in Entry
  BY <1>1, TakeFields, EventFields DEF CleanInv
<1>3. CASE c = 0
  BY <1>1, <1>3 DEF OnCallInfoUpdate, dbVars, CleanInv, RowKeys, CleanMeansSaved, Reachable
<1>4. CASE c # 0
  <2> DEFINE named == WithNames(entry[c], ev.info)
             called == WithCalled(named, ev.info.called)
             caller == WithCaller(called.e, ev.info.caller)
  <2>1. SaveAs(c, caller.e)
    BY <1>4 DEF OnCallInfoUpdate
  <2>2. c \in Reachable /\ c \in DOMAIN entry /\ c \in Call /\ entry[c] \in Entry
        /\ Reachable' = Reachable
    BY <1>1, <1>2, <1>4 DEF Reachable
  <2>3. ev.info.called \in Raw \cup {NoRaw} /\ ev.info.caller \in Raw \cup {NoRaw}
    BY <1>2 DEF Info
  <2>4. named \in Entry /\ Honest(entry[c], named)
    BY <1>2, <2>2, WithNamesType, WithNamesHonest
  <2> HIDE DEF named
  <2>5. called.e \in Entry /\ Honest(named, called.e)
    BY <2>3, <2>4, WithCalledType, WithCalledHonest
  <2> HIDE DEF called
  <2>6. caller.e \in Entry /\ Honest(called.e, caller.e)
    BY <2>3, <2>5, WithCallerType, WithCallerHonest
  <2> HIDE DEF caller
  <2>7. Honest(entry[c], caller.e)
    BY <2>4, <2>5, <2>6, HonestThen
  <2> QED  BY <2>1, <2>2, <2>6, <2>7, SaveAsClean
<1> QED  BY <1>3, <1>4

\* A late answer rewrites a row only if no key leads to the entry of that row.
LEMMA OnResolverResponseClean ==
  ASSUME CleanInv, "insert" \notin Faults, OnResolverResponse
  PROVE  RowKeys' /\ CleanMeansSaved'
<1> DEFINE ev == Head(evq)
<1>1. Take("resolved") /\ UNCHANGED active
  BY DEF OnResolverResponse
<1>2. /\ ev.dbKey \in Nat /\ ev.side \in Side /\ ev.name \in Label
      /\ active \in [Key -> DOMAIN entry \cup {0}] /\ DOMAIN entry \subseteq Call
      /\ \A d \in DOMAIN entry : entry[d] \in Entry
  BY <1>1, TakeFields, EventFields DEF Label, CleanInv
<1>3. CASE Holders(ev.dbKey) # {}
  <2> DEFINE c == active[FirstHolder(ev.dbKey)]
             e == Named(entry[c], ev.side, ev.name)
  <2>1. SaveAs(c, e)
    BY <1>3 DEF OnResolverResponse
  <2>2. c \in Reachable /\ c \in DOMAIN entry /\ c \in Call /\ entry[c] \in Entry
        /\ Reachable' = Reachable
    BY <1>1, <1>2, <1>3, FirstHolderHolds DEF Holders, Reachable
  <2> HIDE DEF c
  <2>3. e \in Entry /\ Honest(entry[c], e)
    BY <1>2, <2>2, NamedType, NamedHonest
  <2> HIDE DEF e
  <2> QED  BY <2>1, <2>2, <2>3, SaveAsClean
<1>4. CASE Holders(ev.dbKey) = {}
  <2>1. UNCHANGED entry /\ Reachable' = Reachable
    BY <1>1, <1>4 DEF OnResolverResponse, Reachable
  <2>2. \A c \in Reachable : entry[c].dbKey # ev.dbKey
    BY <1>4 DEF Reachable, Holders
  <2>3. CASE DbOk /\ ev.dbKey \in DOMAIN table
    <3> DEFINE row == table[ev.dbKey]
               e == Named(EntryOf(row, ev.dbKey), ev.side, ev.name)
    <3>1. DbType(table, nextcallid) /\ row \in Row /\ row.call \in Call /\ ev.dbKey \in Id
      BY <2>3 DEF CleanInv, TrackInv, TypeOK, DbType, Row
    <3>2. e \in Entry /\ e.dbKey = ev.dbKey /\ e.dbKey # 0
      BY <1>2, <3>1, EntryOfType, NamedType DEF Id
    <3>3. PICK s \in Saved(e, row.call) : table' = s.t /\ nextcallid' = s.next
      BY <1>4, <2>3 DEF OnResolverResponse
    <3> HIDE DEF e
    <3>4. Untouched(s, e) \/ Rewritten(s, e)
      BY <3>1, <3>2, <3>3, SavedCases DEF NewRow
    <3> HIDE DEF row
    <3>5. /\ DOMAIN table' = DOMAIN table
          /\ \A i \in DOMAIN table : table'[i].call = table[i].call
                                     /\ (i # ev.dbKey => table'[i] = table[i])
      BY <3>2, <3>3, <3>4 DEF Untouched, Rewritten, RowOf
    <3> QED  BY <2>1, <2>2, <3>5 DEF CleanInv, RowKeys, CleanMeansSaved
  <2>4. CASE ~(DbOk /\ ev.dbKey \in DOMAIN table)
    BY <1>4, <2>1, <2>4 DEF OnResolverResponse, dbVars, CleanInv, RowKeys, CleanMeansSaved
  <2> QED  BY <2>3, <2>4
<1> QED  BY <1>3, <1>4

\* Nothing but the handlers touches an entry or a row.
LEMMA ElsewhereClean ==
  ASSUME CleanInv, UNCHANGED <<entryVars, dbVars>>
  PROVE  RowKeys' /\ CleanMeansSaved'
BY DEF CleanInv, RowKeys, CleanMeansSaved, Reachable, entryVars, dbVars

LEMMA InitClean == Init => CleanInv
BY InitTracks DEF Init, CleanInv, RowKeys, CleanMeansSaved, Reachable

LEMMA NextClean ==
  ASSUME "insert" \notin Faults, CleanInv, [Next]_vars
  PROVE  CleanInv'
<1>1. TrackInv' /\ KeyOwnership'
  BY NextTracks DEF CleanInv, Owned
<1>2. ASSUME Provider \/ ResolverServe \/ UNCHANGED vars
      PROVE  RowKeys' /\ CleanMeansSaved'
  <2>1. UNCHANGED <<entryVars, dbVars>>
    BY <1>2 DEF Provider, ProviderNew, ProviderInfo, ProviderStatus, ProviderIdle,
                ProviderLost, ResolverServe, vars
  <2> QED  BY <2>1, ElsewhereClean
<1>3. RowKeys' /\ CleanMeansSaved'
  BY <1>2, OnNewCallClean, OnCallStateUpdateClean, OnCallInfoUpdateClean,
     OnResolverResponseClean DEF Next, Gui
<1> QED  BY <1>1, <1>3 DEF CleanInv

(* If no insert fails half way, an active entry that counts as saved is    *)
(* what its row says, if the row is still there: whatever updates and      *)
(* purges fail, calls get lost and answers come late.                      *)
THEOREM CleanMeansSavedHolds ==
  ASSUME "insert" \notin Faults
  PROVE  Spec => []CleanMeansSaved
<1>1. CleanInv => CleanMeansSaved
  BY DEF CleanInv
<1> QED  BY <1>1, InitClean, NextClean, PTL DEF Spec
----------------------------------------------------------------------------
(* The line.  If providers report the end of every call, a key is free     *)
(* again only after the IDLE of its last call was posted, and the queue    *)
(* keeps the order: the events of an earlier call with the key come before *)
(* those of a later one, newCall first and IDLE last.  So every event the  *)
(* GUI thread takes finds the map leading to the call it is about.         *)

IsIdle(ev) == ev.kind = "state" /\ ev.status = "IDLE"

EventsFit ==
  \A i \in DOMAIN evq : evq[i].kind # "resolved" =>
    /\ evq[i].c \in DOMAIN call /\ evq[i].key = call[evq[i].c].key
    /\ evq[i].kind = "new" => evq[i].type = call[evq[i].c].type

EventOrder ==
  \A i, j \in DOMAIN evq : evq[i].kind # "resolved" /\ evq[j].kind # "resolved" =>
    /\ evq[i].key = evq[j].key /\ evq[i].c < evq[j].c => i < j
    /\ evq[i].c = evq[j].c /\ evq[i].kind = "new" => i <= j
    /\ evq[i].c = evq[j].c /\ IsIdle(evq[j]) => i <= j

OneCallAKey ==
  /\ \A c \in DOMAIN call : call[c].phase # "lost"
  /\ \A c, d \in DOMAIN call : call[c].key = call[d].key /\ c < d => call[c].phase = "gone"

IdleComes ==
  \A c \in DOMAIN call :
    /\ \A i \in Pending(c) : IsIdle(evq[i]) => call[c].phase = "gone"
    /\ call[c].phase = "gone" /\ (c \in DOMAIN entry \/ Pending(c) # {}) =>
         \E i \in Pending(c) : IsIdle(evq[i])

NewComes ==
  \A c \in DOMAIN call \ DOMAIN entry :
    \/ Pending(c) = {} /\ call[c].phase = "gone"
    \/ \E i \in Pending(c) : evq[i].kind = "new"

InTheMap ==
  /\ \A c \in DOMAIN entry : active[call[c].key] = c
  /\ \A k \in Key : active[k] # 0 => call[active[k]].key = k
  /\ \A c \in DOMAIN call, d \in DOMAIN entry :
       call[c].key = call[d].key /\ c < d => Pending(c) = {}

LineInv ==
  /\ TrackInv /\ EventsFit /\ EventOrder /\ OneCallAKey /\ IdleComes /\ NewComes /\ InTheMap
  /\ WindowsFollowCalls

\* The queue after its head was taken, and what that means for one call.
LEMMA TakeQueue ==
  ASSUME TrackInv, NEW kind, Take(kind)
  PROVE  /\ 1 \in DOMAIN evq /\ Head(evq) = evq[1] /\ evq[1].kind = kind
         /\ \A i \in DOMAIN evq : i \in Nat /\ i >= 1
         /\ \A i \in DOMAIN evq' :
              i \in Nat /\ i >= 1 /\ i + 1 \in DOMAIN evq /\ evq'[i] = evq[i + 1]
         /\ \A i \in DOMAIN evq : i # 1 => i - 1 \in DOMAIN evq' /\ evq'[i - 1] = evq[i]
<1>1. evq # <<>> /\ evq \in Seq(Event) /\ Head(evq).kind = kind /\ evq' = Tail(evq)
  BY DEF Take, TrackInv, TypeOK
<1>2. Len(evq) \in Nat /\ Len(evq) >= 1 /\ DOMAIN evq = 1..Len(evq)
  BY <1>1, EmptySeq, LenProperties
<1>3. Tail(evq) \in Seq(Event) /\ Len(Tail(evq)) = Len(evq) - 1 /\ Head(evq) = evq[1]
  BY <1>1, HeadTailProperties
<1>4. DOMAIN Tail(evq) = 1..(Len(evq) - 1)
  BY <1>3, LenProperties
<1>5. \A i \in 1..(Len(evq) - 1) : Tail(evq)[i] = evq[i + 1]
  BY <1>1, <1>2, HeadTailProperties
<1>6. \A i \in DOMAIN evq : i # 1 => i - 1 \in DOMAIN Tail(evq) /\ Tail(evq)[i - 1] = evq[i]
  BY <1>2, <1>4, <1>5
<1> QED  BY <1>1, <1>2, <1>3, <1>4, <1>5, <1>6

LEMMA PendingTake ==
  ASSUME TrackInv, NEW kind, Take(kind), NEW c
  PROVE  /\ \A i \in Pending(c)' : i + 1 \in Pending(c) /\ evq'[i] = evq[i + 1]
         /\ \A i \in Pending(c) : i # 1 => i - 1 \in Pending(c)' /\ evq'[i - 1] = evq[i]
         /\ 1 \in Pending(c) <=> kind # "resolved" /\ Head(evq).c = c
BY TakeQueue DEF Pending

LEMMA PendingPost ==
  ASSUME TrackInv, NEW ev \in Event, evq' = Append(evq, ev), NEW c
  PROVE  /\ Pending(c)' = Pending(c) \cup
              (IF ev.kind # "resolved" /\ ev.c = c THEN {Len(evq) + 1} ELSE {})
         /\ \A i \in Pending(c) : evq'[i] = evq[i]
<1>1. /\ DOMAIN evq' = DOMAIN evq \cup {Len(evq) + 1} /\ Len(evq) + 1 \notin DOMAIN evq
      /\ evq'[Len(evq) + 1] = ev /\ \A i \in DOMAIN evq : evq'[i] = evq[i]
  BY AppendOf DEF TrackInv, TypeOK
<1> QED  BY <1>1 DEF Pending

\* Taking an event keeps what is said of those behind it.
LEMMA TakeLine ==
  ASSUME LineInv, NEW kind, Take(kind), UNCHANGED call
  PROVE  EventsFit' /\ EventOrder' /\ OneCallAKey'
<1>1. \A i \in DOMAIN evq' : i \in Nat /\ i + 1 \in DOMAIN evq /\ evq'[i] = evq[i + 1]
  BY TakeQueue DEF LineInv
<1>2. EventsFit'
  BY <1>1 DEF LineInv, EventsFit
<1>3. EventOrder'
  <2> SUFFICES ASSUME NEW i \in DOMAIN evq', NEW j \in DOMAIN evq',
                      evq'[i].kind # "resolved", evq'[j].kind # "resolved"
               PROVE  /\ evq'[i].key = evq'[j].key /\ evq'[i].c < evq'[j].c => i < j
                      /\ evq'[i].c = evq'[j].c /\ evq'[i].kind = "new" => i <= j
                      /\ evq'[i].c = evq'[j].c /\ IsIdle(evq'[j]) => i <= j
    BY DEF EventOrder, IsIdle
  <2>1. /\ i \in Nat /\ i + 1 \in DOMAIN evq /\ evq'[i] = evq[i + 1]
        /\ j \in Nat /\ j + 1 \in DOMAIN evq /\ evq'[j] = evq[j + 1]
    BY <1>1
  <2>2. /\ evq'[i].key = evq'[j].key /\ evq'[i].c < evq'[j].c => i + 1 < j + 1
        /\ evq'[i].c = evq'[j].c /\ evq'[i].kind = "new" => i + 1 <= j + 1
        /\ evq'[i].c = evq'[j].c /\ IsIdle(evq'[j]) => i + 1 <= j + 1
    BY <2>1 DEF LineInv, EventOrder
  <2> QED  BY <2>1, <2>2
<1>4. OneCallAKey'
  BY DEF LineInv, OneCallAKey
<1> QED  BY <1>2, <1>3, <1>4

(* The event that is taken: newCall finds its key free; any other event    *)
(* finds the entry of its own call.                                        *)
LEMMA HeadIsCurrent ==
  ASSUME LineInv, NEW kind, Take(kind), kind # "resolved"
  PROVE  LET ev == Head(evq) IN
         /\ ev.c \in DOMAIN call /\ ev.key = call[ev.c].key /\ ev.key \in Key
         /\ kind = "new" => active[ev.key] = 0 /\ ev.c \notin DOMAIN entry
                            /\ ev.type = call[ev.c].type
         /\ kind # "new" => active[ev.key] = ev.c /\ ev.c \in DOMAIN entry
         /\ \A c \in DOMAIN call : call[c].key = ev.key /\ c < ev.c => Pending(c) = {}
<1> DEFINE ev == Head(evq)
<1>1. /\ 1 \in DOMAIN evq /\ ev = evq[1] /\ ev.kind = kind
      /\ \A i \in DOMAIN evq : i \in Nat /\ i >= 1
  BY TakeQueue DEF LineInv
<1>2. ev.c \in DOMAIN call /\ ev.key = call[ev.c].key /\ (kind = "new" => ev.type = call[ev.c].type)
  BY <1>1 DEF LineInv, EventsFit
<1>3. DOMAIN call \subseteq Nat /\ ev.key \in Key /\ active \in [Key -> DOMAIN entry \cup {0}]
      /\ DOMAIN entry \subseteq DOMAIN call /\ 0 \notin DOMAIN call
  <2>1. call \in Seq(TrueCall)
    BY DEF LineInv, TrackInv, TypeOK
  <2>2. call[ev.c] \in TrueCall /\ DOMAIN call = 1..Len(call) /\ Len(call) \in Nat
    BY <1>2, <2>1, ElementOfSeq, LenProperties
  <2> QED  BY <1>2, <2>2 DEF TrueCall, LineInv, TrackInv, TypeOK
<1>4. ASSUME NEW c \in DOMAIN call, call[c].key = ev.key, c < ev.c
      PROVE  Pending(c) = {}
  <2> SUFFICES ASSUME NEW i \in Pending(c) PROVE FALSE
    OBVIOUS
  <2>1. i \in DOMAIN evq /\ evq[i].kind # "resolved" /\ evq[i].c = c /\ evq[i].key = ev.key
    BY <1>4 DEF Pending, LineInv, EventsFit
  <2>2. ~(i < 1)
    BY <1>1, <2>1
  <2> QED  BY <1>1, <1>4, <2>1, <2>2 DEF LineInv, EventOrder
<1>5. 1 \in Pending(ev.c)
  BY <1>1 DEF Pending
<1>6. CASE kind = "new"
  <2>1. ev.c \notin DOMAIN entry
    BY <1>6, TakeFields DEF LineInv
  <2>2. active[ev.key] = 0
    <3> DEFINE d == active[ev.key]
    <3> SUFFICES ASSUME d # 0 PROVE FALSE
      OBVIOUS
    <3>1. d \in DOMAIN entry /\ d \in DOMAIN call /\ call[d].key = ev.key /\ d # ev.c
      BY <1>3, <2>1 DEF LineInv, InTheMap
    <3> HIDE DEF d
    <3>2. CASE ev.c < d
      BY <1>2, <1>5, <3>1, <3>2 DEF LineInv, InTheMap
    <3>3. CASE d < ev.c
      <4>1. call[d].phase = "gone"
        BY <1>2, <3>1, <3>3 DEF LineInv, OneCallAKey
      <4>2. Pending(d) # {}
        BY <3>1, <4>1 DEF LineInv, IdleComes
      <4> QED  BY <1>4, <3>1, <3>3, <4>2
    <3> QED  BY <1>2, <1>3, <3>1, <3>2, <3>3
  <2> QED  BY <1>2, <1>3, <1>4, <1>6, <2>1, <2>2
<1>7. CASE kind # "new"
  <2>1. ev.c \in DOMAIN entry
    <3> SUFFICES ASSUME ev.c \notin DOMAIN entry PROVE FALSE
      OBVIOUS
    <3>1. PICK i \in Pending(ev.c) : evq[i].kind = "new"
      BY <1>2, <1>5 DEF LineInv, NewComes
    <3>2. i \in DOMAIN evq /\ evq[i].c = evq[1].c
      BY <1>1, <3>1 DEF Pending
    <3>3. i <= 1
      BY <1>1, <1>7, <3>1, <3>2 DEF LineInv, EventOrder
    <3> QED  BY <1>1, <1>7, <3>1, <3>2, <3>3
  <2> QED  BY <1>2, <1>3, <1>4, <1>7, <2>1 DEF LineInv, InTheMap
<1> QED  BY <1>6, <1>7

\* The part the handlers share that take an event which neither starts nor
\* ends a call.
LEMMA PassLine ==
  ASSUME LineInv, TrackInv', NEW kind, Take(kind), kind # "new", ~IsIdle(Head(evq)),
         UNCHANGED <<call, active, windows>>, DOMAIN entry' = DOMAIN entry
  PROVE  LineInv'
<1>1. EventsFit' /\ EventOrder' /\ OneCallAKey'
  BY TakeLine
<1>2. Head(evq) = evq[1] /\ evq[1].kind = kind /\ TrackInv
  BY TakeQueue DEF LineInv
<1>3. /\ \A c : \A i \in Pending(c)' : i + 1 \in Pending(c) /\ evq'[i] = evq[i + 1]
      /\ \A c : \A i \in Pending(c) : i # 1 => i - 1 \in Pending(c)' /\ evq'[i - 1] = evq[i]
  BY <1>2, PendingTake
<1>4. IdleComes'
  <2> SUFFICES ASSUME NEW c \in DOMAIN call
               PROVE  /\ \A i \in Pending(c)' : IsIdle(evq'[i]) => call[c].phase = "gone"
                      /\ call[c].phase = "gone" /\ (c \in DOMAIN entry \/ Pending(c)' # {}) =>
                           \E i \in Pending(c)' : IsIdle(evq'[i])
    BY DEF IdleComes, IsIdle
  <2>1. \A i \in Pending(c)' : IsIdle(evq'[i]) => call[c].phase = "gone"
    BY <1>3 DEF LineInv, IdleComes
  <2>2. ASSUME call[c].phase = "gone", c \in DOMAIN entry \/ Pending(c)' # {}
        PROVE  \E i \in Pending(c)' : IsIdle(evq'[i])
    <3>1. PICK i \in Pending(c) : IsIdle(evq[i])
      BY <1>3, <2>2 DEF LineInv, IdleComes
    <3>2. i # 1
      BY <1>2, <3>1
    <3> QED  BY <1>3, <3>1, <3>2
  <2> QED  BY <2>1, <2>2
<1>5. NewComes'
  <2> SUFFICES ASSUME NEW c \in DOMAIN call \ DOMAIN entry
               PROVE  \/ Pending(c)' = {} /\ call[c].phase = "gone"
                      \/ \E i \in Pending(c)' : evq'[i].kind = "new"
    BY DEF NewComes
  <2>1. CASE Pending(c) = {} /\ call[c].phase = "gone"
    BY <1>3, <2>1
  <2>2. CASE \E i \in Pending(c) : evq[i].kind = "new"
    <3>1. PICK i \in Pending(c) : evq[i].kind = "new"
      BY <2>2
    <3>2. i # 1
      BY <1>2, <3>1
    <3> QED  BY <1>3, <3>1, <3>2
  <2> QED  BY <2>1, <2>2 DEF LineInv, NewComes
<1>6. InTheMap'
  BY <1>3 DEF LineInv, InTheMap
<1>7. WindowsFollowCalls'
  BY DEF LineInv, WindowsFollowCalls, Reachable
<1> QED  BY <1>1, <1>4, <1>5, <1>6, <1>7 DEF LineInv

\* In this invariant the map leads to every entry there is.
LEMMA AllReachable ==
  ASSUME TrackInv, InTheMap
  PROVE  Reachable = DOMAIN entry
<1>1. /\ active \in [Key -> DOMAIN entry \cup {0}] /\ DOMAIN entry \subseteq DOMAIN call
      /\ call \in Seq(TrueCall) /\ DOMAIN entry \subseteq Call
  BY DEF TrackInv, TypeOK
<1>2. \A c \in DOMAIN call : call[c].key \in Key
  <2>1. \A c \in 1..Len(call) : call[c] \in TrueCall
    BY <1>1, ElementOfSeq
  <2> QED  BY <1>1, <2>1, LenProperties DEF TrueCall
<1>3. 0 \notin DOMAIN entry
  BY <1>1 DEF Call
<1>4. \A c \in DOMAIN entry : call[c].key \in Key /\ active[call[c].key] = c /\ c # 0
  BY <1>1, <1>2, <1>3 DEF InTheMap
<1>5. \A k \in Key : active[k] \in DOMAIN entry \cup {0}
  BY <1>1
<1> QED  BY <1>4, <1>5 DEF Reachable

LEMMA OnNewCallLine ==
  ASSUME LineInv, TrackInv', OnNewCall
  PROVE  LineInv'
<1> DEFINE ev == Head(evq)
           e == SetState(NewEntry(ev.type), StateOf(ev.status))
<1>1. /\ Take("new") /\ SaveAs(ev.c, e) /\ UNCHANGED <<call, reqs>>
      /\ active' = [active EXCEPT ![ev.key] = IF @ = 0 THEN ev.c ELSE @]
      /\ windows' = IF ev.type = "INCOMING" THEN windows \cup {ev.c} ELSE windows
  BY DEF OnNewCall
<1>2. DOMAIN entry' = DOMAIN entry \cup {ev.c}
  BY <1>1 DEF SaveAs, WithEntry
<1> HIDE DEF e
<1>3. /\ ev.c \in DOMAIN call /\ ev.key = call[ev.c].key /\ ev.key \in Key
      /\ active[ev.key] = 0 /\ ev.c \notin DOMAIN entry /\ ev.type = call[ev.c].type
      /\ \A c \in DOMAIN call : call[c].key = ev.key /\ c < ev.c => Pending(c) = {}
  BY <1>1, HeadIsCurrent
<1>4. EventsFit' /\ EventOrder' /\ OneCallAKey'
  BY <1>1, TakeLine
<1>5. ev = evq[1] /\ evq[1].kind = "new" /\ TrackInv
  BY <1>1, TakeQueue DEF LineInv
<1>6. /\ \A c : \A i \in Pending(c)' : i + 1 \in Pending(c) /\ evq'[i] = evq[i + 1]
      /\ \A c : \A i \in Pending(c) : i # 1 => i - 1 \in Pending(c)' /\ evq'[i - 1] = evq[i]
      /\ \A c : 1 \in Pending(c) <=> ev.c = c
  BY <1>1, <1>5, PendingTake
<1>7. active \in [Key -> DOMAIN entry \cup {0}] /\ active' = [active EXCEPT ![ev.key] = ev.c]
  BY <1>1, <1>3 DEF LineInv, TrackInv, TypeOK
<1>8. IdleComes'
  <2> SUFFICES ASSUME NEW c \in DOMAIN call
               PROVE  /\ \A i \in Pending(c)' : IsIdle(evq'[i]) => call[c].phase = "gone"
                      /\ call[c].phase = "gone" /\ (c \in DOMAIN entry' \/ Pending(c)' # {}) =>
                           \E i \in Pending(c)' : IsIdle(evq'[i])
    BY <1>1 DEF IdleComes, IsIdle
  <2>1. \A i \in Pending(c)' : IsIdle(evq'[i]) => call[c].phase = "gone"
    BY <1>6 DEF LineInv, IdleComes
  <2>2. ASSUME call[c].phase = "gone", c \in DOMAIN entry' \/ Pending(c)' # {}
        PROVE  \E i \in Pending(c)' : IsIdle(evq'[i])
    <3>1. c \in DOMAIN entry \/ Pending(c) # {}
      BY <1>2, <1>6, <2>2
    <3>2. PICK i \in Pending(c) : IsIdle(evq[i])
      BY <2>2, <3>1 DEF LineInv, IdleComes
    <3>3. i # 1
      BY <1>5, <3>2 DEF IsIdle
    <3> QED  BY <1>6, <3>2, <3>3
  <2> QED  BY <2>1, <2>2
<1>9. NewComes'
  <2> SUFFICES ASSUME NEW c \in DOMAIN call \ DOMAIN entry, c # ev.c
               PROVE  \/ Pending(c)' = {} /\ call[c].phase = "gone"
                      \/ \E i \in Pending(c)' : evq'[i].kind = "new"
    BY <1>1, <1>2 DEF NewComes
  <2>1. CASE Pending(c) = {} /\ call[c].phase = "gone"
    BY <1>6, <2>1
  <2>2. CASE \E i \in Pending(c) : evq[i].kind = "new"
    BY <1>6, <2>2
  <2> QED  BY <2>1, <2>2 DEF LineInv, NewComes
<1>10. InTheMap'
  <2>1. \A c \in DOMAIN entry' : active'[call'[c].key] = c
    BY <1>1, <1>2, <1>3, <1>7 DEF LineInv, InTheMap, TrackInv, TypeOK
  <2>2. \A k \in Key : active'[k] # 0 => call'[active'[k]].key = k
    BY <1>1, <1>3, <1>7 DEF LineInv, InTheMap
  <2>3. ASSUME NEW c \in DOMAIN call, NEW d \in DOMAIN entry', call[c].key = call[d].key, c < d
        PROVE  Pending(c)' = {}
    <3>1. Pending(c) = {}
      BY <1>2, <1>3, <2>3 DEF LineInv, InTheMap
    <3> QED  BY <1>6, <3>1
  <2> QED  BY <1>1, <2>1, <2>2, <2>3 DEF InTheMap
<1>11. WindowsFollowCalls'
  <2>1. Reachable' = Reachable \cup {ev.c}
    BY <1>3, <1>5, <1>7 DEF Reachable, TrackInv, TypeOK, Call
  <2> QED  BY <1>1, <1>3, <2>1 DEF LineInv, WindowsFollowCalls
<1> QED  BY <1>4, <1>8, <1>9, <1>10, <1>11 DEF LineInv

\* IDLE is the last event of its call, so nothing of the call is left.
LEMMA IdleLine ==
  ASSUME LineInv, TrackInv', Take("state"), Head(evq).status = "IDLE", Forget(Head(evq).key),
         UNCHANGED call
  PROVE  LineInv'
<1> DEFINE ev == Head(evq)
<1>0. PICK x \in DOMAIN entry : x = ev.c
  BY HeadIsCurrent
<1>1. /\ ev.c = x /\ x \in DOMAIN call /\ ev.key = call[x].key /\ ev.key \in Key
      /\ active[ev.key] = x
  BY <1>0, HeadIsCurrent
<1>2. /\ DOMAIN entry' = DOMAIN entry \ {x} /\ windows' = windows \ {x}
      /\ active' = [active EXCEPT ![ev.key] = 0]
  BY <1>1 DEF Forget
<1>3. EventsFit' /\ EventOrder' /\ OneCallAKey'
  BY TakeLine
<1>4. ev = evq[1] /\ evq[1].kind = "state" /\ IsIdle(evq[1]) /\ TrackInv /\ 1 \in DOMAIN evq
      /\ \A i \in DOMAIN evq : i \in Nat /\ i >= 1
  BY TakeQueue DEF LineInv, IsIdle
<1>5. /\ \A c : \A i \in Pending(c)' : i + 1 \in Pending(c) /\ evq'[i] = evq[i + 1]
      /\ \A c : \A i \in Pending(c) : i # 1 => i - 1 \in Pending(c)' /\ evq'[i - 1] = evq[i]
      /\ \A c : 1 \in Pending(c) <=> x = c
  BY <1>1, <1>4, PendingTake
<1>6. Pending(x)' = {} /\ call[x].phase = "gone"
  <2>1. \A i \in Pending(x) : i <= 1
    BY <1>1, <1>4 DEF LineInv, EventOrder, Pending
  <2>2. Pending(x) \subseteq {1}
    BY <1>4, <2>1 DEF Pending
  <2>3. \A i \in Pending(x)' : i \in Nat /\ i >= 1
    BY <1>4, TakeQueue DEF Pending
  <2>4. Pending(x)' = {}
    BY <1>5, <2>2, <2>3
  <2> QED  BY <1>1, <1>4, <1>5, <2>4 DEF LineInv, IdleComes
<1>7. active \in [Key -> DOMAIN entry \cup {0}] /\ DOMAIN entry \subseteq DOMAIN call
  BY <1>4 DEF TrackInv, TypeOK
<1>8. IdleComes'
  <2> SUFFICES ASSUME NEW c \in DOMAIN call
               PROVE  /\ \A i \in Pending(c)' : IsIdle(evq'[i]) => call[c].phase = "gone"
                      /\ call[c].phase = "gone" /\ (c \in DOMAIN entry' \/ Pending(c)' # {}) =>
                           \E i \in Pending(c)' : IsIdle(evq'[i])
    BY DEF IdleComes, IsIdle
  <2>1. CASE c = x
    BY <1>2, <1>6, <2>1
  <2>2. CASE c # x
    BY <1>2, <1>5, <2>2 DEF LineInv, IdleComes
  <2> QED  BY <2>1, <2>2
<1>9. NewComes'
  <2> SUFFICES ASSUME NEW c \in DOMAIN call \ DOMAIN entry, c # x
               PROVE  \/ Pending(c)' = {} /\ call[c].phase = "gone"
                      \/ \E i \in Pending(c)' : evq'[i].kind = "new"
    BY <1>2, <1>6 DEF NewComes
  <2>1. CASE Pending(c) = {} /\ call[c].phase = "gone"
    BY <1>5, <2>1
  <2>2. CASE \E i \in Pending(c) : evq[i].kind = "new"
    BY <1>5, <2>2
  <2> QED  BY <2>1, <2>2 DEF LineInv, NewComes
<1>10. InTheMap'
  <2>1. \A c \in DOMAIN entry' : active'[call'[c].key] = c
    BY <1>1, <1>2, <1>7 DEF LineInv, InTheMap
  <2>2. \A k \in Key : active'[k] # 0 => call'[active'[k]].key = k
    BY <1>1, <1>2, <1>7 DEF LineInv, InTheMap
  <2>3. \A c \in DOMAIN call', d \in DOMAIN entry' :
          call'[c].key = call'[d].key /\ c < d => Pending(c)' = {}
    BY <1>2, <1>5 DEF LineInv, InTheMap
  <2> QED  BY <2>1, <2>2, <2>3 DEF InTheMap
<1>11. WindowsFollowCalls'
  <2>1. Reachable' = Reachable \ {x}
    BY <1>1, <1>2, <1>4, <1>7 DEF Reachable, TrackInv, ActiveInj
  <2> QED  BY <1>2, <2>1 DEF LineInv, WindowsFollowCalls
<1> QED  BY <1>3, <1>8, <1>9, <1>10, <1>11 DEF LineInv

\* A provider's step about a call that goes on.
LEMMA PostLine ==
  ASSUME LineInv, TrackInv', NEW c \in DOMAIN call, call[c].phase \notin Ended,
         NEW ev \in Event, ev.kind \in {"state", "info"}, ev.c = c, ev.key = call[c].key,
         evq' = Append(evq, ev), UNCHANGED entryVars, DOMAIN call' = DOMAIN call,
         \A d \in DOMAIN call : /\ call'[d].key = call[d].key /\ call'[d].type = call[d].type
                                /\ d # c => call'[d].phase = call[d].phase,
         call'[c].phase = "gone" <=> IsIdle(ev), call'[c].phase # "lost"
  PROVE  LineInv'
<1> DEFINE n == Len(evq) + 1
<1>1. /\ DOMAIN evq' = DOMAIN evq \cup {n} /\ n \notin DOMAIN evq
      /\ evq'[n] = ev /\ \A i \in DOMAIN evq : evq'[i] = evq[i] /\ i \in Nat /\ i < n
      /\ n \in Nat
  <2>1. evq \in Seq(Event) /\ Len(evq) \in Nat /\ DOMAIN evq = 1..Len(evq)
    BY LenProperties DEF LineInv, TrackInv, TypeOK
  <2> QED  BY <2>1, AppendOf
<1> HIDE DEF n
<1>2. \A d : /\ Pending(d)' = Pending(d) \cup (IF d = c THEN {n} ELSE {})
             /\ \A i \in Pending(d) : evq'[i] = evq[i]
  BY <1>1 DEF Pending
<1>3. DOMAIN call \subseteq Nat /\ DOMAIN entry \subseteq DOMAIN call
  <2>1. call \in Seq(TrueCall) /\ DOMAIN entry \subseteq DOMAIN call
    BY DEF LineInv, TrackInv, TypeOK
  <2> QED  BY <2>1, LenProperties
<1>4. call[c].phase # "gone"
  BY DEF Ended
<1>5. EventsFit'
  BY <1>1 DEF LineInv, EventsFit
<1>6. EventOrder'
  <2> SUFFICES ASSUME NEW i \in DOMAIN evq', NEW j \in DOMAIN evq',
                      evq'[i].kind # "resolved", evq'[j].kind # "resolved"
               PROVE  /\ evq'[i].key = evq'[j].key /\ evq'[i].c < evq'[j].c => i < j
                      /\ evq'[i].c = evq'[j].c /\ evq'[i].kind = "new" => i <= j
                      /\ evq'[i].c = evq'[j].c /\ IsIdle(evq'[j]) => i <= j
    BY DEF EventOrder, IsIdle
  <2>1. CASE i # n /\ j # n
    BY <1>1, <2>1 DEF LineInv, EventOrder
  <2>2. CASE i = n /\ j = n
    BY <1>1, <1>3, <2>2
  <2>3. CASE i # n /\ j = n
    BY <1>1, <2>3
  <2>4. CASE i = n /\ j # n
    <3>1. j \in DOMAIN evq /\ evq'[j] = evq[j] /\ evq'[i] = ev /\ evq[j].c \in DOMAIN call
          /\ evq[j].key = call[evq[j].c].key
      BY <1>1, <2>4 DEF LineInv, EventsFit
    <3>2. ~(evq[j].key = call[c].key /\ c < evq[j].c)
      BY <1>4, <3>1 DEF LineInv, OneCallAKey
    <3>3. ~(evq[j].c = c /\ IsIdle(evq[j]))
      BY <1>4, <3>1 DEF LineInv, IdleComes, Pending
    <3> QED  BY <3>1, <3>2, <3>3
  <2> QED  BY <2>1, <2>2, <2>3, <2>4
<1>7. OneCallAKey'
  BY <1>4 DEF LineInv, OneCallAKey
<1>8. IdleComes'
  <2> SUFFICES ASSUME NEW d \in DOMAIN call
               PROVE  /\ \A i \in Pending(d)' : IsIdle(evq'[i]) => call'[d].phase = "gone"
                      /\ call'[d].phase = "gone" /\ (d \in DOMAIN entry \/ Pending(d)' # {}) =>
                           \E i \in Pending(d)' : IsIdle(evq'[i])
    BY DEF IdleComes, IsIdle, entryVars
  <2>1. CASE d # c
    <3>1. Pending(d)' = Pending(d) /\ call'[d].phase = call[d].phase
      BY <1>2, <2>1
    <3>2. \A i \in Pending(d) : evq'[i] = evq[i]
      BY <1>2
    <3>3. /\ \A i \in Pending(d) : IsIdle(evq[i]) => call[d].phase = "gone"
          /\ call[d].phase = "gone" /\ (d \in DOMAIN entry \/ Pending(d) # {}) =>
               \E i \in Pending(d) : IsIdle(evq[i])
      BY DEF LineInv, IdleComes
    <3> QED  BY <3>1, <3>2, <3>3
  <2>2. CASE d = c
    <3>1. \A i \in Pending(c) : evq'[i] = evq[i] /\ ~IsIdle(evq'[i])
      <4>1. \A i \in Pending(c) : ~IsIdle(evq[i])
        BY <1>4 DEF LineInv, IdleComes
      <4> QED  BY <1>2, <4>1
    <3>2. Pending(c)' = Pending(c) \cup {n} /\ evq'[n] = ev
      BY <1>1, <1>2
    <3>3. \A i \in Pending(c)' : IsIdle(evq'[i]) => IsIdle(ev)
      BY <3>1, <3>2
    <3>4. IsIdle(ev) => \E i \in Pending(c)' : IsIdle(evq'[i])
      BY <3>2
    <3> QED  BY <2>2, <3>3, <3>4
  <2> QED  BY <2>1, <2>2
<1>9. NewComes'
  <2> SUFFICES ASSUME NEW d \in DOMAIN call \ DOMAIN entry
               PROVE  \/ Pending(d)' = {} /\ call'[d].phase = "gone"
                      \/ \E i \in Pending(d)' : evq'[i].kind = "new"
    BY DEF NewComes, entryVars
  <2>1. CASE Pending(d) = {} /\ call[d].phase = "gone"
    BY <1>2, <1>4, <2>1
  <2>2. CASE \E i \in Pending(d) : evq[i].kind = "new"
    BY <1>2, <2>2
  <2> QED  BY <2>1, <2>2 DEF LineInv, NewComes
<1>10. InTheMap'
  <2>1. \A d \in DOMAIN entry' : active'[call'[d].key] = d
    BY <1>3 DEF LineInv, InTheMap, entryVars
  <2>2. \A k \in Key : active'[k] # 0 => call'[active'[k]].key = k
    BY <1>3 DEF LineInv, InTheMap, TrackInv, TypeOK, entryVars
  <2>3. ASSUME NEW b \in DOMAIN call, NEW d \in DOMAIN entry, call[b].key = call[d].key, b < d
        PROVE  Pending(b)' = {}
    <3>1. b # c
      BY <1>3, <1>4, <2>3 DEF LineInv, OneCallAKey
    <3> QED  BY <1>2, <2>3, <3>1 DEF LineInv, InTheMap
  <2>4. \A b \in DOMAIN call', d \in DOMAIN entry' :
          call'[b].key = call'[d].key /\ b < d => Pending(b)' = {}
    BY <1>3, <2>3 DEF entryVars
  <2> QED  BY <2>1, <2>2, <2>4 DEF InTheMap
<1>11. WindowsFollowCalls'
  <2>1. Reachable' = Reachable /\ Reachable \subseteq DOMAIN call
    BY <1>3 DEF Reachable, entryVars, LineInv, TrackInv, TypeOK
  <2> QED  BY <2>1 DEF LineInv, WindowsFollowCalls, entryVars
<1> QED  BY <1>5, <1>6, <1>7, <1>8, <1>9, <1>10, <1>11 DEF LineInv

(* The providers' steps in one form: call c, which goes on, becomes t, and *)
(* event ev says so.                                                       *)
Told(c, t, ev) ==
  \/ /\ ev.kind = "info" /\ t = call[c]
     /\ \E sides \in SUBSET Side, named \in BOOLEAN : ev.info = InfoOf(call[c], sides, named)
  \/ /\ ev.kind = "state" /\ ev.status \in DOMAIN PhaseAfter /\ MayReport(call[c], ev.status)
     /\ t.phase = PhaseAfter[ev.status]
     /\ t.outcome = (IF ev.status = "CONNECTED" THEN "OK"
                     ELSE IF ev.status = "BUSY" THEN "BUSY" ELSE call[c].outcome)
     /\ t.hungup = (ev.status = "DISCONNECTED" /\ call[c].outcome = "OK")
  \/ /\ ev.kind = "state" /\ ev.status = "IDLE"
     /\ t.phase = "gone" /\ t.outcome = call[c].outcome /\ t.hungup = call[c].hungup

Reported(c, t, ev) ==
  /\ call[c].phase \notin Ended /\ t.key = call[c].key /\ t.type = call[c].type
  /\ t.remote = call[c].remote
  /\ ev.c = c /\ ev.key = call[c].key /\ Told(c, t, ev)
  /\ evq' = Append(evq, ev) /\ call' = [call EXCEPT ![c] = t]
  /\ UNCHANGED <<entryVars, dbVars, reqs>>

Announced(k, t, ev) ==
  /\ \A c \in DOMAIN call : call[c].key = k => call[c].phase \in Ended
  /\ t.key = k /\ t.phase = "ringing" /\ t.outcome = "NOTREACHED" /\ ~t.hungup
  /\ ev.kind = "new" /\ ev.c = Len(call) + 1 /\ ev.key = k /\ ev.type = t.type
  /\ ev.status = FirstStatus(t.type)
  /\ evq' = Append(evq, ev) /\ call' = Append(call, t)
  /\ UNCHANGED <<entryVars, dbVars, reqs>>

LEMMA ReportPhase ==
  ASSUME NEW s \in DOMAIN PhaseAfter, NEW t \in TrueCall, MayReport(t, s)
  PROVE  t.phase \notin Ended /\ PhaseAfter[s] \notin Ended /\ s # "IDLE"
<1>1. s \in {"RINGBACK", "BUSY", "CONNECTED", "ONHOLD", "DISCONNECTED"}
  BY DEF PhaseAfter
<1>2. PhaseAfter[s] \in {"ringing", "busy", "up", "held", "over"}
  BY <1>1 DEF PhaseAfter
<1>3. t.phase \in {"ringing", "busy", "up", "held"}
  BY <1>1 DEF MayReport
<1> QED  BY <1>1, <1>2, <1>3 DEF Ended

LEMMA CallFacts ==
  ASSUME TrackInv
  PROVE  /\ call \in Seq(TrueCall) /\ Len(call) \in Nat /\ DOMAIN call = 1..Len(call)
         /\ \A c \in DOMAIN call : call[c] \in TrueCall /\ c \in Call /\ c \in Nat
         /\ DOMAIN entry \subseteq DOMAIN call
<1>1. call \in Seq(TrueCall) /\ Len(call) <= MaxCalls /\ Len(call) \in Nat
      /\ DOMAIN call = 1..Len(call) /\ MaxCalls \in Nat
  BY LenProperties, TrackingAssumption DEF TrackInv, TypeOK, TrackingAssumption
<1>2. \A c \in DOMAIN call : call[c] \in TrueCall /\ c \in Call /\ c \in Nat
  BY <1>1, ElementOfSeq DEF Call
<1> QED  BY <1>1, <1>2 DEF TrackInv

LEMMA ProviderCases ==
  ASSUME TrackInv, Provider, ~MayLose
  PROVE  \/ \E c \in DOMAIN call, t \in TrueCall, ev \in Event : Reported(c, t, ev)
         \/ \E k \in Key, t \in TrueCall, ev \in Event : Announced(k, t, ev)
<1>1. \A c \in DOMAIN call : call[c] \in TrueCall /\ c \in Call
  BY CallFacts
<1>2. ASSUME NEW k \in Key, NEW type \in CallType, NEW remote \in Party,
             ProviderNew(k, type, remote)
      PROVE  \E t \in TrueCall, ev \in Event : Announced(k, t, ev)
  <2> DEFINE t == [key |-> k, type |-> type, remote |-> remote, phase |-> "ringing",
                   outcome |-> "NOTREACHED", hungup |-> FALSE]
             ev == [kind |-> "new", key |-> k, c |-> Len(call) + 1, type |-> type,
                    status |-> FirstStatus(type)]
  <2>1. t \in TrueCall
    BY TrackingAssumption DEF TrackingAssumption, TrueCall, Phase
  <2>2. ev \in Event
    BY <1>2, CallFacts, TrackingAssumption
       DEF ProviderNew, Event, Call, FirstStatus, Status, TrackingAssumption
  <2>3. Announced(k, t, ev)
    BY <1>2 DEF ProviderNew, Post, Announced
  <2> QED  BY <2>1, <2>2, <2>3
<1>3. ASSUME NEW c \in DOMAIN call, NEW report \in Reports, ProviderInfo(c, report[1], report[2])
      PROVE  \E t \in TrueCall, ev \in Event : Reported(c, t, ev)
  <2> DEFINE ev == [kind |-> "info", key |-> call[c].key, c |-> c,
                    info |-> InfoOf(call[c], report[1], report[2])]
  <2>1. InfoOf(call[c], report[1], report[2]) \in Info /\ call[c].key \in Key
        /\ call[c] \in TrueCall
    BY <1>1, InfoOfType DEF TrueCall
  <2>2. ev \in Event
    BY <1>1, <2>1 DEF Event
  <2>3. report[1] \in SUBSET Side /\ report[2] \in BOOLEAN
    BY TrackingAssumption DEF TrackingAssumption, Side
  <2>4. Told(c, call[c], ev)
    BY <2>3 DEF Told
  <2>5. call' = [call EXCEPT ![c] = call[c]]
    BY <1>3, CallFacts DEF ProviderInfo
  <2>6. Reported(c, call[c], ev)
    BY <1>3, <2>4, <2>5 DEF ProviderInfo, Post, Reported
  <2> QED  BY <2>1, <2>2, <2>6
<1>4. ASSUME NEW c \in DOMAIN call, NEW s \in DOMAIN PhaseAfter, ProviderStatus(c, s)
      PROVE  \E t \in TrueCall, ev \in Event : Reported(c, t, ev)
  <2> DEFINE ev == [kind |-> "state", key |-> call[c].key, c |-> c, status |-> s]
             t == [call[c] EXCEPT !.phase = PhaseAfter[s],
                                  !.outcome = IF s = "CONNECTED" THEN "OK"
                                              ELSE IF s = "BUSY" THEN "BUSY" ELSE @,
                                  !.hungup = s = "DISCONNECTED" /\ call[c].outcome = "OK"]
  <2>1. s \in Status /\ PhaseAfter[s] \in Phase /\ call[c].key \in Key /\ call[c] \in TrueCall
        /\ MayReport(call[c], s)
    BY <1>1, <1>4 DEF PhaseAfter, Status, Phase, TrueCall, ProviderStatus
  <2>2. t \in TrueCall /\ ev \in Event
    BY <1>1, <2>1 DEF TrueCall, Event
  <2>3. t.key = call[c].key /\ t.type = call[c].type /\ t.remote = call[c].remote
        /\ t.phase = PhaseAfter[s]
        /\ t.outcome = (IF s = "CONNECTED" THEN "OK"
                        ELSE IF s = "BUSY" THEN "BUSY" ELSE call[c].outcome)
        /\ t.hungup = (s = "DISCONNECTED" /\ call[c].outcome = "OK")
    BY <2>1 DEF TrueCall
  <2>4. call' = [call EXCEPT ![c] = t]
    BY <1>4 DEF ProviderStatus
  <2>5. evq' = Append(evq, ev) /\ UNCHANGED <<entryVars, dbVars, reqs>>
    BY <1>4 DEF ProviderStatus, Post
  <2> HIDE DEF t
  <2>6. Told(c, t, ev)
    BY <2>1, <2>3 DEF Told
  <2>7. Reported(c, t, ev)
    BY <2>1, <2>3, <2>4, <2>5, <2>6, ReportPhase DEF Reported
  <2> QED  BY <2>2, <2>7
<1>5. ASSUME NEW c \in DOMAIN call, ProviderIdle(c)
      PROVE  \E t \in TrueCall, ev \in Event : Reported(c, t, ev)
  <2> DEFINE ev == [kind |-> "state", key |-> call[c].key, c |-> c, status |-> "IDLE"]
             t == [call[c] EXCEPT !.phase = "gone"]
  <2>1. t \in TrueCall /\ ev \in Event
    BY <1>1 DEF TrueCall, Phase, Event, Status
  <2>2. t.key = call[c].key /\ t.type = call[c].type /\ t.remote = call[c].remote
        /\ t.phase = "gone" /\ t.outcome = call[c].outcome /\ t.hungup = call[c].hungup
    BY <1>1 DEF TrueCall
  <2>3. evq' = Append(evq, ev) /\ call' = [call EXCEPT ![c] = t]
        /\ call[c].phase \notin Ended /\ UNCHANGED <<entryVars, dbVars, reqs>>
    BY <1>5 DEF ProviderIdle, Post
  <2> HIDE DEF t
  <2>4. Reported(c, t, ev)
    BY <2>2, <2>3 DEF Reported, Told
  <2> QED  BY <2>1, <2>4
<1> QED  BY <1>2, <1>3, <1>4, <1>5 DEF Provider, ProviderLost

LEMMA ReportedLine ==
  ASSUME LineInv, TrackInv', NEW c \in DOMAIN call, NEW t \in TrueCall, NEW ev \in Event,
         Reported(c, t, ev)
  PROVE  LineInv'
<1>1. /\ call[c].phase \notin Ended /\ ev.c = c /\ ev.key = call[c].key
      /\ evq' = Append(evq, ev) /\ call' = [call EXCEPT ![c] = t] /\ UNCHANGED entryVars
      /\ t.key = call[c].key /\ t.type = call[c].type
  BY DEF Reported
<1>2. call \in Seq(TrueCall) /\ call[c] \in TrueCall
  BY CallFacts DEF LineInv
<1>3. /\ DOMAIN call' = DOMAIN call /\ call'[c] = t
      /\ \A d \in DOMAIN call : d # c => call'[d] = call[d]
  BY <1>1, <1>2
<1>4. /\ ev.kind \in {"state", "info"}
      /\ t.phase = "gone" <=> IsIdle(ev)
      /\ t.phase # "lost"
  <2>1. CASE ev.kind = "info"
    BY <1>1, <2>1 DEF Reported, Told, Ended, IsIdle
  <2>2. CASE ev.kind # "info" /\ ev.status = "IDLE"
    BY <1>2, <2>2, ReportPhase DEF Reported, Told, IsIdle
  <2>3. CASE ev.kind # "info" /\ ev.status # "IDLE"
    BY <1>2, <2>3, ReportPhase DEF Reported, Told, IsIdle, Ended
  <2> QED  BY <2>1, <2>2, <2>3
<1> QED  BY <1>1, <1>3, <1>4, PostLine

\* A call begins: its key is free, so the other calls with that key are over.
LEMMA AnnouncedLine ==
  ASSUME LineInv, TrackInv', NEW k \in Key, NEW t \in TrueCall, NEW ev \in Event,
         Announced(k, t, ev)
  PROVE  LineInv'
<1> DEFINE n == Len(evq) + 1
           m == Len(call) + 1
<1>1. /\ \A c \in DOMAIN call : call[c].key = k => call[c].phase \in Ended
      /\ t.key = k /\ t.phase = "ringing" /\ ev.kind = "new" /\ ev.c = m /\ ev.key = k
      /\ ev.type = t.type /\ evq' = Append(evq, ev) /\ call' = Append(call, t)
      /\ UNCHANGED entryVars
  BY DEF Announced
<1>2. /\ DOMAIN evq' = DOMAIN evq \cup {n} /\ n \notin DOMAIN evq
      /\ evq'[n] = ev /\ \A i \in DOMAIN evq : evq'[i] = evq[i] /\ i \in Nat /\ i < n
      /\ n \in Nat
  <2>1. evq \in Seq(Event) /\ Len(evq) \in Nat /\ DOMAIN evq = 1..Len(evq)
    BY LenProperties DEF LineInv, TrackInv, TypeOK
  <2> QED  BY <1>1, <2>1, AppendOf
<1>3. /\ DOMAIN call' = DOMAIN call \cup {m} /\ m \notin DOMAIN call /\ m \in Nat
      /\ call'[m] = t /\ \A c \in DOMAIN call : call'[c] = call[c] /\ c \in Nat /\ c < m
      /\ DOMAIN entry \subseteq DOMAIN call
  <2>1. /\ call \in Seq(TrueCall) /\ DOMAIN call = 1..Len(call) /\ Len(call) \in Nat
        /\ DOMAIN entry \subseteq DOMAIN call
    BY CallFacts DEF LineInv
  <2> QED  BY <1>1, <2>1, AppendOf
<1> HIDE DEF n, m
<1>4. \A i \in DOMAIN evq : evq[i].kind # "resolved" => evq[i].c \in DOMAIN call
                            /\ evq[i].key = call[evq[i].c].key
  BY DEF LineInv, EventsFit
<1>5. \A d : /\ Pending(d)' = Pending(d) \cup (IF d = m THEN {n} ELSE {})
             /\ \A i \in Pending(d) : evq'[i] = evq[i]
  BY <1>1, <1>2 DEF Pending
<1>6. Pending(m) = {}
  BY <1>3, <1>4 DEF Pending
<1>7. \A c \in DOMAIN call : call[c].key = k => call[c].phase = "gone"
  BY <1>1 DEF Ended, LineInv, OneCallAKey
<1>8. EventsFit'
  BY <1>1, <1>2, <1>3 DEF LineInv, EventsFit
<1>9. EventOrder'
  <2> SUFFICES ASSUME NEW i \in DOMAIN evq', NEW j \in DOMAIN evq',
                      evq'[i].kind # "resolved", evq'[j].kind # "resolved"
               PROVE  /\ evq'[i].key = evq'[j].key /\ evq'[i].c < evq'[j].c => i < j
                      /\ evq'[i].c = evq'[j].c /\ evq'[i].kind = "new" => i <= j
                      /\ evq'[i].c = evq'[j].c /\ IsIdle(evq'[j]) => i <= j
    BY DEF EventOrder, IsIdle
  <2>1. CASE i # n /\ j # n
    BY <1>2, <2>1 DEF LineInv, EventOrder
  <2>2. CASE i = n /\ j = n
    BY <1>1, <1>2, <1>3, <2>2
  <2>3. CASE i # n /\ j = n
    BY <1>2, <2>3
  <2>4. CASE i = n /\ j # n
    BY <1>1, <1>2, <1>3, <1>4, <2>4
  <2> QED  BY <2>1, <2>2, <2>3, <2>4
<1>10. OneCallAKey'
  BY <1>1, <1>3, <1>7 DEF LineInv, OneCallAKey
<1>11. IdleComes'
  <2> SUFFICES ASSUME NEW d \in DOMAIN call'
               PROVE  /\ \A i \in Pending(d)' : IsIdle(evq'[i]) => call'[d].phase = "gone"
                      /\ call'[d].phase = "gone" /\ (d \in DOMAIN entry \/ Pending(d)' # {}) =>
                           \E i \in Pending(d)' : IsIdle(evq'[i])
    BY <1>1 DEF IdleComes, IsIdle, entryVars
  <2>1. CASE d # m
    <3>1. Pending(d)' = Pending(d) /\ call'[d] = call[d] /\ d \in DOMAIN call
      BY <1>3, <1>5, <2>1
    <3>2. \A i \in Pending(d) : evq'[i] = evq[i]
      BY <1>5
    <3>3. /\ \A i \in Pending(d) : IsIdle(evq[i]) => call[d].phase = "gone"
          /\ call[d].phase = "gone" /\ (d \in DOMAIN entry \/ Pending(d) # {}) =>
               \E i \in Pending(d) : IsIdle(evq[i])
      BY <3>1 DEF LineInv, IdleComes
    <3> QED  BY <3>1, <3>2, <3>3
  <2>2. CASE d = m
    BY <1>1, <1>2, <1>3, <1>5, <1>6, <2>2 DEF IsIdle
  <2> QED  BY <2>1, <2>2
<1>12. NewComes'
  <2> SUFFICES ASSUME NEW d \in DOMAIN call' \ DOMAIN entry
               PROVE  \/ Pending(d)' = {} /\ call'[d].phase = "gone"
                      \/ \E i \in Pending(d)' : evq'[i].kind = "new"
    BY <1>1 DEF NewComes, entryVars
  <2>1. CASE d = m
    BY <1>1, <1>2, <1>5, <2>1
  <2>2. CASE d # m
    BY <1>3, <1>5, <2>2 DEF LineInv, NewComes
  <2> QED  BY <2>1, <2>2
<1>13. InTheMap'
  <2>1. \A d \in DOMAIN entry' : active'[call'[d].key] = d
    BY <1>1, <1>3 DEF LineInv, InTheMap, entryVars
  <2>2. \A l \in Key : active'[l] # 0 => call'[active'[l]].key = l
    BY <1>1, <1>3 DEF LineInv, InTheMap, TrackInv, TypeOK, entryVars
  <2>3. \A c \in DOMAIN call', d \in DOMAIN entry' :
          call'[c].key = call'[d].key /\ c < d => Pending(c)' = {}
    <3> SUFFICES ASSUME NEW c \in DOMAIN call', NEW d \in DOMAIN entry,
                        call'[c].key = call'[d].key, c < d
                 PROVE  Pending(c)' = {}
      BY <1>1 DEF entryVars
    <3>1. c # m /\ c \in DOMAIN call /\ d \in DOMAIN call
      BY <1>3
    <3> QED  BY <1>3, <1>5, <3>1 DEF LineInv, InTheMap
  <2> QED  BY <2>1, <2>2, <2>3 DEF InTheMap
<1>14. WindowsFollowCalls'
  <2>1. Reachable' = Reachable /\ Reachable \subseteq DOMAIN call
    BY <1>1, <1>3 DEF Reachable, entryVars, LineInv, TrackInv, TypeOK
  <2> QED  BY <1>1, <1>3, <2>1 DEF LineInv, WindowsFollowCalls, entryVars
<1> QED  BY <1>8, <1>9, <1>10, <1>11, <1>12, <1>13, <1>14 DEF LineInv

\* The resolver's answers stand between the providers' events, and belong
\* to none of them.
LEMMA ServeLine ==
  ASSUME LineInv, TrackInv', ResolverServe
  PROVE  LineInv'
<1>1. UNCHANGED <<call, entryVars>>
  BY DEF ResolverServe
<1>2. /\ \A i \in DOMAIN evq : i \in DOMAIN evq' /\ evq'[i] = evq[i]
      /\ \A i \in DOMAIN evq' \ DOMAIN evq : evq'[i].kind = "resolved"
  <2>1. CASE UNCHANGED evq
    BY <2>1
  <2>2. CASE ~UNCHANGED evq
    <3>1. PICK name \in Answers(Head(reqs)) :
            evq' = Append(evq, [kind |-> "resolved", dbKey |-> Head(reqs).dbKey,
                                side |-> Head(reqs).side, name |-> name])
      BY <2>2 DEF ResolverServe
    <3> DEFINE ev == [kind |-> "resolved", dbKey |-> Head(reqs).dbKey, side |-> Head(reqs).side,
                      name |-> name]
    <3>2. ev.kind = "resolved" /\ evq \in Seq(Event \cup {ev}) /\ evq' = Append(evq, ev)
      <4>1. evq \in Seq(Event)
        BY DEF LineInv, TrackInv, TypeOK
      <4> QED  BY <3>1, <4>1
    <3> HIDE DEF ev
    <3> QED  BY <3>2, AppendOf
  <2> QED  BY <2>1, <2>2
<1>3. \A c : Pending(c)' = Pending(c) /\ \A i \in Pending(c) : evq'[i] = evq[i]
  BY <1>2 DEF Pending
<1>4. EventsFit' /\ EventOrder' /\ OneCallAKey'
  BY <1>1, <1>2 DEF LineInv, EventsFit, EventOrder, OneCallAKey, IsIdle
<1>5. IdleComes'
  BY <1>1, <1>3 DEF LineInv, IdleComes, IsIdle, entryVars
<1>6. NewComes' /\ InTheMap' /\ WindowsFollowCalls'
  BY <1>1, <1>3 DEF LineInv, NewComes, InTheMap, WindowsFollowCalls, Reachable, entryVars
<1> QED  BY <1>4, <1>5, <1>6 DEF LineInv

LEMMA InitLine == Init => LineInv
<1> SUFFICES ASSUME Init PROVE LineInv
  OBVIOUS
<1>1. TrackInv
  BY InitTracks
<1>2. /\ call = <<>> /\ evq = <<>> /\ entry = <<>> /\ windows = {}
      /\ active = [k \in Key |-> 0] /\ DOMAIN call = {} /\ DOMAIN evq = {} /\ DOMAIN entry = {}
  BY EmptySeq DEF Init
<1> QED  BY <1>1, <1>2 DEF LineInv, EventsFit, EventOrder, OneCallAKey, IdleComes, NewComes,
                           InTheMap, WindowsFollowCalls, Reachable

LEMMA GuiLine ==
  ASSUME LineInv, TrackInv', Gui
  PROVE  LineInv'
<1>1. CASE OnNewCall
  BY <1>1, OnNewCallLine
<1>2. CASE OnCallStateUpdate
  <2>1. Take("state") /\ UNCHANGED call
    BY <1>2 DEF OnCallStateUpdate
  <2>2. active[Head(evq).key] \in DOMAIN entry /\ active[Head(evq).key] # 0
    <3>1. 0 \notin DOMAIN entry
      BY DEF LineInv, TrackInv, TypeOK, Call
    <3> QED  BY <2>1, <3>1, HeadIsCurrent
  <2>3. CASE Head(evq).status = "IDLE"
    BY <1>2, <2>1, <2>2, <2>3, IdleLine DEF OnCallStateUpdate
  <2>4. CASE Head(evq).status # "IDLE"
    <3>1. UNCHANGED <<active, windows>> /\ DOMAIN entry' = DOMAIN entry
      BY <1>2, <2>2, <2>4 DEF OnCallStateUpdate, SaveAs, WithEntry
    <3> QED  BY <2>1, <2>4, <3>1, PassLine DEF IsIdle
  <2> QED  BY <2>3, <2>4
<1>3. CASE OnCallInfoUpdate
  <2>1. Take("info") /\ UNCHANGED <<call, active, windows>>
    BY <1>3 DEF OnCallInfoUpdate
  <2>2. active[Head(evq).key] \in DOMAIN entry
    BY <2>1, HeadIsCurrent
  <2>3. DOMAIN entry' = DOMAIN entry
    BY <1>3, <2>2 DEF OnCallInfoUpdate, SaveAs, WithEntry
  <2> QED  BY <2>1, <2>3, TakeQueue, PassLine DEF IsIdle, LineInv
<1>4. CASE OnResolverResponse
  <2>1. Take("resolved") /\ UNCHANGED <<call, active, windows>>
    BY <1>4 DEF OnResolverResponse
  <2>2. DOMAIN entry' = DOMAIN entry
    <3>1. CASE Holders(Head(evq).dbKey) = {}
      BY <1>4, <3>1 DEF OnResolverResponse
    <3>2. CASE Holders(Head(evq).dbKey) # {}
      <4>1. FirstHolder(Head(evq).dbKey) \in Holders(Head(evq).dbKey)
        BY <3>2, FirstHolderHolds
      <4>2. active[FirstHolder(Head(evq).dbKey)] \in DOMAIN entry
        BY <4>1 DEF Holders, LineInv, TrackInv, TypeOK
      <4> QED  BY <1>4, <3>2, <4>2 DEF OnResolverResponse, SaveAs, WithEntry
    <3> QED  BY <3>1, <3>2
  <2> QED  BY <2>1, <2>2, TakeQueue, PassLine DEF IsIdle, LineInv
<1> QED  BY <1>1, <1>2, <1>3, <1>4 DEF Gui

LEMMA NextLine ==
  ASSUME ~MayLose, LineInv, [Next]_vars
  PROVE  LineInv'
<1>1. TrackInv'
  BY NextTracks DEF LineInv
<1>2. CASE Provider
  BY <1>1, <1>2, ProviderCases, ReportedLine, AnnouncedLine DEF LineInv
<1>3. CASE UNCHANGED vars
  BY <1>1, <1>3 DEF vars, lineVars, entryVars, dbVars, LineInv, EventsFit, EventOrder, OneCallAKey,
     IdleComes, NewComes, InTheMap, WindowsFollowCalls, Reachable, Pending
<1> QED  BY <1>1, <1>2, <1>3, ServeLine, GuiLine DEF Next

(* If providers report the end of every call: every event the GUI thread   *)
(* takes is about the call its key leads to, newCall finds the key free,   *)
(* IDLE ends its call; however early a key is used again.                  *)
THEOREM LineHolds == ASSUME ~MayLose PROVE Spec => []LineInv
BY InitLine, NextLine, PTL DEF Spec

(* And so there is a window for exactly the incoming calls that go on.     *)
THEOREM WindowsFollowCallsHolds == ASSUME ~MayLose PROVE Spec => []WindowsFollowCalls
<1>1. LineInv => WindowsFollowCalls
  BY DEF LineInv
<1> QED  BY <1>1, LineHolds, PTL

----------------------------------------------------------------------------
(* Whom the journal is about.  Everything on the way to a row is true of   *)
(* one call: the entries, the numbers and names in the queue, the requests *)
(* the resolver still has and the answers it gave.  A request or an answer *)
(* carries the key of a row; Meant are the calls it may be put down to.    *)

Meant(id, c) ==
  \/ c \in DOMAIN entry /\ entry[c].dbKey = id
  \/ id \in DOMAIN table /\ table[id].call = c

TrueInfo(info, c) ==
  /\ info.caller # NoRaw => Format[info.caller] = TrueNumber(c, "caller")
  /\ info.called # NoRaw => Format[info.called] = TrueNumber(c, "called")
  /\ info.callerName \in TrueNames(c, "caller") /\ info.calledName \in TrueNames(c, "called")

TrueEvent ==
  {ev \in Event :
     /\ ev.kind = "info" => ev.c \in DOMAIN call /\ TrueInfo(ev.info, ev.c)
     /\ ev.kind = "resolved" =>
          /\ ev.dbKey < nextcallid
          /\ \A c \in DOMAIN call : Meant(ev.dbKey, c) => ev.name \in TrueNames(c, ev.side)}

TrueRequest ==
  {r \in Request :
     /\ r.dbKey < nextcallid
     /\ \A c \in DOMAIN call : Meant(r.dbKey, c) => r.nr = TrueNumber(c, r.side)}

TrueEntries == \A c \in DOMAIN entry : Truthful(entry[c], c) /\ entry[c].dbKey # 0
TrueRows == \A id \in DOMAIN table : table[id].call \in DOMAIN call /\ Truthful(table[id], table[id].call)

TruthInv ==
  /\ LineInv /\ CleanInv
  /\ TrueEntries /\ TrueRows /\ evq \in Seq(TrueEvent) /\ reqs \in Seq(TrueRequest)

LEMMA SeqMono ==
  ASSUME NEW S, NEW T, S \subseteq T, NEW q \in Seq(S)
  PROVE  q \in Seq(T)
OBVIOUS

\* The operations of an entry keep it true.
LEMMA SetStateTrue ==
  ASSUME NEW e \in Entry, NEW s \in State, NEW c, Truthful(e, c)
  PROVE  Truthful(SetState(e, s), c)
<1> DEFINE Same(f) == /\ f.type = e.type /\ f.clnr = e.clnr /\ f.cln = e.cln
                      /\ f.cdnr = e.cdnr /\ f.cdn = e.cdn
           f == CASE e.type = "OUTGOING" -> OutgoingEffect(e, s)
                  [] e.type = "INCOMING" -> IncomingEffect(e, s)
                  [] OTHER               -> e
<1>1. OutgoingEffect(e, s) \in Entry /\ Same(OutgoingEffect(e, s))
  BY DEF OutgoingEffect, SetResult, SetBeginNow, SetEndNow, SetField, Entry, Result, State
<1>2. IncomingEffect(e, s) \in Entry /\ Same(IncomingEffect(e, s))
  BY DEF IncomingEffect, SetResult, SetBeginNow, SetEndNow, SetField, Entry, Result, State
<1>3. f \in Entry /\ Same(f)
  BY <1>1, <1>2 DEF Entry, Type
<1> HIDE DEF f
<1>4. Same(SetField(f, "state", s))
  BY <1>3 DEF SetField, Entry
<1>5. SetState(e, s) = SetField(f, "state", s)
  BY DEF SetState, f
<1> QED  BY <1>4, <1>5 DEF Truthful

LEMMA FieldTrue ==
  ASSUME NEW e \in Entry, NEW c, Truthful(e, c), NEW v
  PROVE  /\ v \in TrueNames(c, "caller") => Truthful(SetField(e, "cln", v), c)
         /\ v \in TrueNames(c, "called") => Truthful(SetField(e, "cdn", v), c)
         /\ v \in {NoNumber, TrueNumber(c, "caller")} => Truthful(SetField(e, "clnr", v), c)
         /\ v \in {NoNumber, TrueNumber(c, "called")} => Truthful(SetField(e, "cdnr", v), c)
<1> DEFINE a == SetField(e, "cln", v)
           b == SetField(e, "cdn", v)
           f == SetField(e, "clnr", v)
           g == SetField(e, "cdnr", v)
<1>1. /\ a.type = e.type /\ a.clnr = e.clnr /\ a.cln = v /\ a.cdnr = e.cdnr /\ a.cdn = e.cdn
      /\ b.type = e.type /\ b.clnr = e.clnr /\ b.cln = e.cln /\ b.cdnr = e.cdnr /\ b.cdn = v
  BY DEF SetField, Entry
<1>2. /\ f.type = e.type /\ f.clnr = v /\ f.cln = e.cln /\ f.cdnr = e.cdnr /\ f.cdn = e.cdn
      /\ g.type = e.type /\ g.clnr = e.clnr /\ g.cln = e.cln /\ g.cdnr = v /\ g.cdn = e.cdn
  BY DEF SetField, Entry
<1> QED  BY <1>1, <1>2 DEF Truthful

LEMMA WithNamesTrue ==
  ASSUME NEW e \in Entry, NEW c, Truthful(e, c), NEW info \in Info, TrueInfo(info, c)
  PROVE  Truthful(WithNames(e, info), c)
<1> DEFINE f == IF e.cdn = NoName THEN SetField(e, "cdn", info.calledName) ELSE e
<1>1. f \in Entry
  BY DEF SetField, Entry, Info
<1>2. Truthful(f, c)
  BY FieldTrue DEF TrueInfo
<1>3. WithNames(e, info) = IF f.cln = NoName THEN SetField(f, "cln", info.callerName) ELSE f
  BY DEF WithNames
<1> HIDE DEF f
<1> QED  BY <1>1, <1>2, <1>3, FieldTrue DEF TrueInfo

\* The number goes into the entry; the request that may go out is for that
\* number and for the row of that entry.
LEMMA WithCallerTrue ==
  ASSUME NEW e \in Entry, NEW c, Truthful(e, c), NEW raw \in Raw \cup {NoRaw},
         raw # NoRaw => Format[raw] = TrueNumber(c, "caller")
  PROVE  /\ Truthful(WithCaller(e, raw).e, c)
         /\ WithCaller(e, raw).asked \in
              Seq({r \in Request : /\ r.dbKey = e.dbKey /\ r.side = "caller"
                                   /\ r.nr = TrueNumber(c, "caller")})
<1> DEFINE f == SetField(e, "clnr", Format[raw])
           g == [f EXCEPT !.resolvingCaller = TRUE]
           lookup == Lookup(f, "caller", f.clnr, Kind[raw])
           R == {r \in Request : /\ r.dbKey = e.dbKey /\ r.side = "caller"
                                 /\ r.nr = TrueNumber(c, "caller")}
<1>1. CASE raw = NoRaw \/ e.clnr # NoNumber \/ e.resolvingCaller
  BY <1>1, EmptySeq DEF WithCaller
<1>2. CASE ~(raw = NoRaw \/ e.clnr # NoNumber \/ e.resolvingCaller)
  <2>1. raw \in Raw /\ Format[raw] \in Address /\ Format[raw] = TrueNumber(c, "caller")
    BY <1>2, TrackingAssumption DEF TrackingAssumption
  <2>2. f \in Entry /\ f.dbKey = e.dbKey /\ f.clnr = TrueNumber(c, "caller")
    BY <2>1 DEF SetField, Entry
  <2>3. Truthful(f, c)
    BY <2>1, FieldTrue
  <2>4. /\ g.type = f.type /\ g.clnr = f.clnr /\ g.cln = f.cln /\ g.cdnr = f.cdnr /\ g.cdn = f.cdn
    BY <2>2 DEF Entry
  <2>5. Truthful(g, c)
    BY <2>3, <2>4 DEF Truthful
  <2>6. f.clnr # NoNumber => lookup \in R
    <3>1. f.clnr # NoNumber => f.clnr \in Number
      BY <2>2 DEF Entry, Address
    <3> HIDE DEF f
    <3> QED  BY <2>2, <3>1 DEF Lookup, Request, Side, Entry
  <2>7. WithCaller(e, raw) = IF f.cln = NoName /\ f.clnr # NoNumber
                               THEN [e |-> g, asked |-> <<lookup>>] ELSE [e |-> f, asked |-> <<>>]
    BY <1>2 DEF WithCaller
  <2> HIDE DEF f, g, lookup
  <2>8. \/ WithCaller(e, raw).e = g /\ WithCaller(e, raw).asked = <<lookup>> /\ lookup \in R
        \/ WithCaller(e, raw).e = f /\ WithCaller(e, raw).asked = <<>>
    BY <2>6, <2>7
  <2> HIDE DEF R
  <2>9. WithCaller(e, raw).asked \in Seq(R)
    <3>1. lookup \in R => <<lookup>> \in Seq(R)
      OBVIOUS
    <3>2. <<>> \in Seq(R)
      BY EmptySeq
    <3> QED  BY <2>8, <3>1, <3>2
  <2> QED  BY <2>3, <2>5, <2>8, <2>9 DEF R
<1> QED  BY <1>1, <1>2

LEMMA WithCalledTrue ==
  ASSUME NEW e \in Entry, NEW c, Truthful(e, c), NEW raw \in Raw \cup {NoRaw},
         raw # NoRaw => Format[raw] = TrueNumber(c, "called")
  PROVE  /\ Truthful(WithCalled(e, raw).e, c)
         /\ WithCalled(e, raw).asked \in
              Seq({r \in Request : /\ r.dbKey = e.dbKey /\ r.side = "called"
                                   /\ r.nr = TrueNumber(c, "called")})
<1> DEFINE f == SetField(e, "cdnr", Format[raw])
           g == [f EXCEPT !.resolvingCalled = TRUE]
           lookup == Lookup(f, "called", f.cdnr, Kind[raw])
           R == {r \in Request : /\ r.dbKey = e.dbKey /\ r.side = "called"
                                 /\ r.nr = TrueNumber(c, "called")}
<1>1. CASE raw = NoRaw \/ e.cdnr # NoNumber \/ e.resolvingCalled
  BY <1>1, EmptySeq DEF WithCalled
<1>2. CASE ~(raw = NoRaw \/ e.cdnr # NoNumber \/ e.resolvingCalled)
  <2>1. raw \in Raw /\ Format[raw] \in Address /\ Format[raw] = TrueNumber(c, "called")
    BY <1>2, TrackingAssumption DEF TrackingAssumption
  <2>2. f \in Entry /\ f.dbKey = e.dbKey /\ f.cdnr = TrueNumber(c, "called")
    BY <2>1 DEF SetField, Entry
  <2>3. Truthful(f, c)
    BY <2>1, FieldTrue
  <2>4. /\ g.type = f.type /\ g.clnr = f.clnr /\ g.cln = f.cln /\ g.cdnr = f.cdnr /\ g.cdn = f.cdn
    BY <2>2 DEF Entry
  <2>5. Truthful(g, c)
    BY <2>3, <2>4 DEF Truthful
  <2>6. f.cdnr # NoNumber => lookup \in R
    <3>1. f.cdnr # NoNumber => f.cdnr \in Number
      BY <2>2 DEF Entry, Address
    <3> HIDE DEF f
    <3> QED  BY <2>2, <3>1 DEF Lookup, Request, Side, Entry
  <2>7. WithCalled(e, raw) = IF f.cdn = NoName /\ f.cdnr # NoNumber
                               THEN [e |-> g, asked |-> <<lookup>>] ELSE [e |-> f, asked |-> <<>>]
    BY <1>2 DEF WithCalled
  <2> HIDE DEF f, g, lookup
  <2>8. \/ WithCalled(e, raw).e = g /\ WithCalled(e, raw).asked = <<lookup>> /\ lookup \in R
        \/ WithCalled(e, raw).e = f /\ WithCalled(e, raw).asked = <<>>
    BY <2>6, <2>7
  <2> HIDE DEF R
  <2>9. WithCalled(e, raw).asked \in Seq(R)
    <3>1. lookup \in R => <<lookup>> \in Seq(R)
      OBVIOUS
    <3>2. <<>> \in Seq(R)
      BY EmptySeq
    <3> QED  BY <2>8, <3>1, <3>2
  <2> QED  BY <2>3, <2>5, <2>8, <2>9 DEF R
<1> QED  BY <1>1, <1>2

\* A save: entry c is true of call c, and so is the row it leaves.
LEMMA SaveAsTrue ==
  ASSUME TruthInv, CleanInv', DbOk, {"begin", "insert"} \cap Faults = {},
         NEW c \in DOMAIN call, NEW e \in Entry, Truthful(e, c), SaveAs(c, e), UNCHANGED call,
         IF c \in DOMAIN entry THEN e.dbKey = entry[c].dbKey ELSE e.dbKey = 0 /\ e.dirty
  PROVE  /\ TrueEntries' /\ TrueRows'
         /\ TrueEvent \subseteq TrueEvent' /\ TrueRequest \subseteq TrueRequest'
         /\ c \in DOMAIN entry => entry'[c].dbKey = e.dbKey
<1>1. /\ DbType(table, nextcallid) /\ c \in Call
      /\ \A d \in DOMAIN entry : entry[d] \in Entry
  BY CallFacts DEF TruthInv, CleanInv, TrackInv, TypeOK, DbType
<1>2. PICK s \in Saved(e, c) : entry' = WithEntry(c, s.e) /\ table' = s.t /\ nextcallid' = s.next
  BY DEF SaveAs
<1>3. Untouched(s, e) \/ Rewritten(s, e) \/ NewRow(s, e, c)
  BY <1>1, <1>2, SavedCases
<1>4. /\ DOMAIN entry' = DOMAIN entry \cup {c}
      /\ entry'[c] = s.e /\ \A d \in DOMAIN entry : d # c => entry'[d] = entry[d]
  BY <1>2 DEF WithEntry
<1>5. /\ nextcallid \in Nat /\ nextcallid # 0
      /\ \A d \in DOMAIN entry : entry[d].dbKey < nextcallid /\ entry[d].dbKey # 0
      /\ \A id \in DOMAIN table : id < nextcallid /\ id # nextcallid
  BY <1>1 DEF DbType, Id, TruthInv, CleanInv, KeyOwnership, TrueEntries
<1>6. SameRow(e, s.e)
  BY <1>3 DEF Untouched, Rewritten, NewRow
<1>7. RowOf(s.e, c) = RowOf(e, c)
  BY <1>6 DEF SameRow
<1>8. Truthful(s.e, c)
  BY <1>7 DEF RowOf, Truthful
<1>9. /\ s.e.dbKey # 0 /\ nextcallid' \in Nat /\ nextcallid' >= nextcallid
      /\ c \in DOMAIN entry => s.e.dbKey = e.dbKey
      /\ s.e.dbKey < nextcallid => c \in DOMAIN entry
  <2>1. CASE Untouched(s, e)
    BY <1>2, <1>5, <2>1 DEF Untouched
  <2>2. CASE Rewritten(s, e)
    BY <1>2, <1>5, <2>2 DEF Rewritten
  <2>3. CASE NewRow(s, e, c)
    BY <1>2, <1>5, <2>3 DEF NewRow
  <2> QED  BY <1>3, <2>1, <2>2, <2>3
<1>10. TrueEntries'
  BY <1>4, <1>8, <1>9 DEF TrueEntries, TruthInv, Truthful, TrueNames, TrueNumber
<1>11. \A id \in DOMAIN table' :
         \/ table'[id] = RowOf(s.e, c) /\ (id < nextcallid => id \in DOMAIN table /\ table[id].call = c)
         \/ id \in DOMAIN table /\ table'[id] = table[id]
  <2>1. CASE Untouched(s, e)
    BY <1>2, <2>1 DEF Untouched
  <2>2. CASE Rewritten(s, e)
    <3>1. c \in DOMAIN entry /\ e.dbKey = entry[c].dbKey
      BY <2>2 DEF Rewritten
    <3>2. e.dbKey \in DOMAIN table => table[e.dbKey].call = c
      BY <3>1 DEF TruthInv, CleanInv, RowKeys
    <3> QED  BY <1>2, <2>2, <3>2 DEF Rewritten
  <2>3. CASE NewRow(s, e, c)
    BY <1>2, <1>5, <2>3 DEF NewRow
  <2> QED  BY <1>3, <2>1, <2>2, <2>3
<1>12. Truthful(RowOf(s.e, c), c) /\ RowOf(s.e, c).call = c
  BY <1>8 DEF RowOf, Truthful
<1>13. TrueRows'
  BY <1>11, <1>12 DEF TrueRows, TruthInv, Truthful, TrueNames, TrueNumber
<1>14. \A id : id < nextcallid => \A d \in DOMAIN call : Meant(id, d)' => Meant(id, d)
  <2> SUFFICES ASSUME NEW id, id < nextcallid, NEW d \in DOMAIN call, Meant(id, d)'
               PROVE  Meant(id, d)
    OBVIOUS
  <2>1. CASE d \in DOMAIN entry' /\ entry'[d].dbKey = id
    BY <1>4, <1>9, <2>1 DEF Meant
  <2>2. CASE id \in DOMAIN table' /\ table'[id].call = d
    BY <1>11, <1>12, <2>2 DEF Meant
  <2> QED  BY <2>1, <2>2 DEF Meant
<1>15. \A id \in Nat : id < nextcallid => id < nextcallid'
  BY <1>5, <1>9
<1>16. TrueEvent \subseteq TrueEvent'
  <2> SUFFICES ASSUME NEW ev \in TrueEvent PROVE ev \in TrueEvent'
    OBVIOUS
  <2>1. ev \in Event /\ (ev.kind = "resolved" => ev.dbKey \in Nat)
    BY EventFields DEF TrueEvent
  <2> QED  BY <1>14, <1>15, <2>1 DEF TrueEvent, TrueInfo, TrueNames, TrueNumber
<1>17. TrueRequest \subseteq TrueRequest'
  BY <1>14, <1>15 DEF TrueRequest, TrueNumber, Request
<1> QED  BY <1>4, <1>9, <1>10, <1>13, <1>16, <1>17

Sound == DbOk /\ {"begin", "insert"} \cap Faults = {} /\ ~MayLose

\* Steps that save nothing: entries may go, calls may be added or go on.
LEMMA StillTrue ==
  ASSUME TruthInv, UNCHANGED dbVars, DOMAIN entry' \subseteq DOMAIN entry,
         \A c \in DOMAIN entry' : entry'[c] = entry[c],
         DOMAIN call \subseteq DOMAIN call',
         \A c \in DOMAIN call : call'[c].type = call[c].type /\ call'[c].remote = call[c].remote
  PROVE  TrueEntries' /\ TrueRows' /\ TrueEvent \subseteq TrueEvent' /\ TrueRequest \subseteq TrueRequest'
<1>1. DOMAIN entry \subseteq DOMAIN call
  BY CallFacts DEF TruthInv, LineInv
<1>2. TrueRows /\ TrueEntries
  BY DEF TruthInv
<1>3. TrueEntries'
  BY <1>1, <1>2 DEF TrueEntries, Truthful, TrueNames, TrueNumber
<1>4. TrueRows'
  BY <1>2 DEF TrueRows, Truthful, TrueNames, TrueNumber, dbVars
<1>5. \A id : \A d \in DOMAIN call' : Meant(id, d)' => d \in DOMAIN call /\ Meant(id, d)
  BY <1>1, <1>2 DEF Meant, TrueRows, dbVars
<1>6. TrueEvent \subseteq TrueEvent'
  <2> SUFFICES ASSUME NEW ev \in TrueEvent PROVE ev \in TrueEvent'
    OBVIOUS
  <2>1. ev.kind = "info" => ev.c \in DOMAIN call' /\ TrueInfo(ev.info, ev.c)'
    BY DEF TrueEvent, TrueInfo, TrueNames, TrueNumber
  <2>2. ASSUME ev.kind = "resolved", NEW d \in DOMAIN call', Meant(ev.dbKey, d)'
        PROVE  ev.name \in TrueNames(d, ev.side)'
    <3>1. d \in DOMAIN call /\ Meant(ev.dbKey, d)
      BY <1>5, <2>2
    <3> QED  BY <2>2, <3>1 DEF TrueEvent, TrueNames, TrueNumber
  <2> QED  BY <2>1, <2>2 DEF TrueEvent, dbVars
<1>7. TrueRequest \subseteq TrueRequest'
  BY <1>5 DEF TrueRequest, TrueNumber, dbVars
<1> QED  BY <1>3, <1>4, <1>6, <1>7

LEMMA TakeTrue ==
  ASSUME TruthInv, NEW kind, Take(kind)
  PROVE  Head(evq) \in TrueEvent /\ Head(evq).kind = kind /\ evq' \in Seq(TrueEvent)
BY TailOf DEF Take, TruthInv

LEMMA OnNewCallTrue ==
  ASSUME Sound, TruthInv, CleanInv', LineInv', OnNewCall
  PROVE  TruthInv'
<1> DEFINE ev == Head(evq)
           e == SetState(NewEntry(ev.type), StateOf(ev.status))
<1>1. Take("new") /\ SaveAs(ev.c, e) /\ UNCHANGED <<call, reqs>>
  BY DEF OnNewCall
<1>2. /\ ev.c \in DOMAIN call /\ ev.c \notin DOMAIN entry /\ ev.type = call[ev.c].type
      /\ ev.type \in Type /\ StateOf(ev.status) \in State
  BY <1>1, HeadIsCurrent, TakeFields, EventFields, StateOfType, TrackingAssumption
     DEF TrackingAssumption, Type, TruthInv, LineInv
<1>3. e \in Entry /\ e.dbKey = 0 /\ NewEntry(ev.type) \in Entry
  BY <1>2, NewEntryType, SetStateType
<1>4. e.dirty
  BY <1>2, <1>3, SetStateHonest DEF Honest, NewEntry
<1>5. Truthful(NewEntry(ev.type), ev.c)
  BY <1>2 DEF Truthful, NewEntry, TrueNames
<1>6. Truthful(e, ev.c)
  BY <1>2, <1>3, <1>5, SetStateTrue
<1> HIDE DEF e
<1>7. /\ TrueEntries' /\ TrueRows'
      /\ TrueEvent \subseteq TrueEvent' /\ TrueRequest \subseteq TrueRequest'
  BY <1>1, <1>2, <1>3, <1>4, <1>6, SaveAsTrue DEF Sound
<1>8. evq' \in Seq(TrueEvent') /\ reqs' \in Seq(TrueRequest')
  BY <1>1, <1>7, TakeTrue, SeqMono DEF TruthInv
<1> QED  BY <1>7, <1>8 DEF TruthInv

LEMMA OnCallStateUpdateTrue ==
  ASSUME Sound, TruthInv, CleanInv', LineInv', OnCallStateUpdate
  PROVE  TruthInv'
<1> DEFINE ev == Head(evq)
           c == active[ev.key]
<1>1. Take("state") /\ UNCHANGED <<call, reqs>>
  BY DEF OnCallStateUpdate
<1>2. /\ c = ev.c /\ c \in DOMAIN call /\ c \in DOMAIN entry /\ c # 0 /\ entry[c] \in Entry
      /\ StateOf(ev.status) \in State
  BY <1>1, HeadIsCurrent, TakeFields, EventFields, StateOfType DEF TruthInv, LineInv
<1>3. CASE ev.status = "IDLE"
  <2>1. Forget(ev.key)
    BY <1>2, <1>3 DEF OnCallStateUpdate
  <2>2. /\ DOMAIN entry' \subseteq DOMAIN entry /\ \A d \in DOMAIN entry' : entry'[d] = entry[d]
        /\ UNCHANGED dbVars
    BY <2>1 DEF Forget
  <2>3. /\ TrueEntries' /\ TrueRows'
        /\ TrueEvent \subseteq TrueEvent' /\ TrueRequest \subseteq TrueRequest'
    BY <1>1, <2>2, StillTrue
  <2>4. evq' \in Seq(TrueEvent') /\ reqs' \in Seq(TrueRequest')
    BY <1>1, <2>3, TakeTrue, SeqMono DEF TruthInv
  <2> QED  BY <2>3, <2>4 DEF TruthInv
<1>4. CASE ev.status # "IDLE"
  <2> DEFINE e == SetState(entry[c], StateOf(ev.status))
  <2>1. SaveAs(c, e)
    BY <1>2, <1>4 DEF OnCallStateUpdate
  <2>2. Truthful(entry[c], c)
    BY <1>2 DEF TruthInv, TrueEntries
  <2>3. e \in Entry /\ e.dbKey = entry[c].dbKey /\ Truthful(e, c)
    BY <1>2, <2>2, SetStateType, SetStateTrue
  <2> HIDE DEF e
  <2>4. /\ TrueEntries' /\ TrueRows'
        /\ TrueEvent \subseteq TrueEvent' /\ TrueRequest \subseteq TrueRequest'
    BY <1>1, <1>2, <2>1, <2>3, SaveAsTrue DEF Sound
  <2>5. evq' \in Seq(TrueEvent') /\ reqs' \in Seq(TrueRequest')
    BY <1>1, <2>4, TakeTrue, SeqMono DEF TruthInv
  <2> QED  BY <2>4, <2>5 DEF TruthInv
<1> QED  BY <1>3, <1>4

LEMMA OnCallInfoUpdateTrue ==
  ASSUME Sound, TruthInv, CleanInv', LineInv', OnCallInfoUpdate
  PROVE  TruthInv'
<1> DEFINE ev == Head(evq)
           c == active[ev.key]
<1>1. Take("info") /\ UNCHANGED call
  BY DEF OnCallInfoUpdate
<1>2. /\ c = ev.c /\ c \in DOMAIN call /\ c \in DOMAIN entry /\ c # 0 /\ entry[c] \in Entry
      /\ ev.info \in Info
  BY <1>1, HeadIsCurrent, TakeFields, EventFields DEF TruthInv, LineInv
<1>3. Truthful(entry[c], c) /\ TrueInfo(ev.info, c)
  BY <1>1, <1>2, TakeTrue DEF TruthInv, TrueEntries, TrueEvent
<1>4. PICK x \in DOMAIN entry, id \in Nat : x = c /\ id = entry[c].dbKey
  BY <1>2 DEF Entry
<1> DEFINE named == WithNames(entry[c], ev.info)
           called == WithCalled(named, ev.info.called)
           caller == WithCaller(called.e, ev.info.caller)
           R(side) == {r \in Request : /\ r.dbKey = id /\ r.side = side
                                       /\ r.nr = TrueNumber(c, side)}
<1>5. SaveAs(c, caller.e) /\ reqs' = reqs \o called.asked \o caller.asked
  BY <1>2 DEF OnCallInfoUpdate
<1>6. /\ ev.info.called \in Raw \cup {NoRaw} /\ ev.info.caller \in Raw \cup {NoRaw}
      /\ ev.info.called # NoRaw => Format[ev.info.called] = TrueNumber(c, "called")
      /\ ev.info.caller # NoRaw => Format[ev.info.caller] = TrueNumber(c, "caller")
  BY <1>2, <1>3 DEF Info, TrueInfo
<1>7. named \in Entry /\ Truthful(named, c) /\ named.dbKey = id
  BY <1>2, <1>3, <1>4, WithNamesType, WithNamesTrue
<1> HIDE DEF named
<1>8. called.e \in Entry /\ Truthful(called.e, c) /\ called.e.dbKey = id
      /\ called.asked \in Seq(R("called"))
  BY <1>6, <1>7, WithCalledType, WithCalledTrue
<1> HIDE DEF called
<1>9. caller.e \in Entry /\ Truthful(caller.e, c) /\ caller.e.dbKey = id
      /\ caller.asked \in Seq(R("caller"))
  BY <1>6, <1>8, WithCallerType, WithCallerTrue
<1> HIDE DEF caller
<1>10. /\ TrueEntries' /\ TrueRows'
       /\ TrueEvent \subseteq TrueEvent' /\ TrueRequest \subseteq TrueRequest'
       /\ entry'[x].dbKey = id
  BY <1>1, <1>2, <1>4, <1>5, <1>9, SaveAsTrue DEF Sound
<1>11. x \in DOMAIN entry' /\ x \in DOMAIN call'
  BY <1>1, <1>2, <1>4, <1>5 DEF SaveAs, WithEntry
<1>12. \A d \in DOMAIN call' : Meant(id, d)' => d = x
  <2>1. KeyOwnership' /\ RowKeys' /\ id # 0
    BY <1>10, <1>11 DEF CleanInv, TrueEntries
  <2> QED  BY <1>10, <1>11, <2>1 DEF Meant, KeyOwnership, RowKeys
<1>13. \A side \in Side : R(side) \subseteq TrueRequest'
  <2> SUFFICES ASSUME NEW side \in Side, NEW r \in R(side) PROVE r \in TrueRequest'
    OBVIOUS
  <2>1. r \in Request /\ r.dbKey = id /\ r.side = side /\ r.nr = TrueNumber(x, side)
    BY <1>4
  <2>2. id < nextcallid'
    BY <1>10, <1>11 DEF CleanInv, KeyOwnership
  <2>3. TrueNumber(x, side)' = TrueNumber(x, side)
    BY <1>1 DEF TrueNumber
  <2>4. \A d \in DOMAIN call' : Meant(id, d)' => r.nr = TrueNumber(d, side)'
    BY <1>12, <2>1, <2>3
  <2> QED  BY <2>1, <2>2, <2>4 DEF TrueRequest
<1> HIDE DEF R
<1>14. called.asked \in Seq(TrueRequest') /\ caller.asked \in Seq(TrueRequest')
       /\ reqs \in Seq(TrueRequest')
  BY <1>8, <1>9, <1>10, <1>13, SeqMono DEF TruthInv, Side
<1>15. reqs' \in Seq(TrueRequest')
  BY <1>5, <1>14, ConcatProperties
<1>16. evq' \in Seq(TrueEvent')
  BY <1>1, <1>10, TakeTrue, SeqMono
<1> QED  BY <1>10, <1>15, <1>16 DEF TruthInv

LEMMA OnResolverResponseTrue ==
  ASSUME Sound, TruthInv, CleanInv', LineInv', OnResolverResponse
  PROVE  TruthInv'
<1> DEFINE ev == Head(evq)
<1>1. Take("resolved") /\ UNCHANGED <<call, active, windows, reqs>>
  BY DEF OnResolverResponse
<1>2. /\ ev.dbKey \in Nat /\ ev.side \in Side /\ ev.name \in Label
      /\ active \in [Key -> DOMAIN entry \cup {0}]
      /\ \A d \in DOMAIN entry : entry[d] \in Entry
  BY <1>1, TakeFields, EventFields DEF Label, TruthInv, LineInv
<1>3. \A c \in DOMAIN call : Meant(ev.dbKey, c) => ev.name \in TrueNames(c, ev.side)
  BY <1>1, TakeTrue DEF TrueEvent
<1>4. DOMAIN entry \subseteq DOMAIN call
  BY CallFacts DEF TruthInv, LineInv
<1>5. CASE Holders(ev.dbKey) # {}
  <2> DEFINE c == active[FirstHolder(ev.dbKey)]
             e == Named(entry[c], ev.side, ev.name)
  <2>1. SaveAs(c, e)
    BY <1>5 DEF OnResolverResponse
  <2>2. c \in DOMAIN entry /\ c \in DOMAIN call /\ entry[c].dbKey = ev.dbKey
        /\ entry[c] \in Entry
    BY <1>2, <1>4, <1>5, FirstHolderHolds DEF Holders
  <2> HIDE DEF c
  <2>3. Truthful(entry[c], c) /\ ev.name \in TrueNames(c, ev.side)
    BY <1>3, <2>2 DEF TruthInv, TrueEntries, Meant
  <2>4. e \in Entry /\ e.dbKey = entry[c].dbKey /\ Truthful(e, c)
    BY <1>2, <2>2, <2>3, NamedType, FieldTrue DEF Named, Side
  <2> HIDE DEF e
  <2>5. /\ TrueEntries' /\ TrueRows'
        /\ TrueEvent \subseteq TrueEvent' /\ TrueRequest \subseteq TrueRequest'
    BY <1>1, <2>1, <2>2, <2>4, SaveAsTrue DEF Sound
  <2>6. evq' \in Seq(TrueEvent') /\ reqs' \in Seq(TrueRequest')
    BY <1>1, <2>5, TakeTrue, SeqMono DEF TruthInv
  <2> QED  BY <2>5, <2>6 DEF TruthInv
<1>6. CASE Holders(ev.dbKey) = {}
  <2>1. UNCHANGED entry
    BY <1>6 DEF OnResolverResponse
  <2>2. CASE ~(ev.dbKey \in DOMAIN table)
    <3>1. UNCHANGED dbVars
      BY <1>6, <2>2 DEF OnResolverResponse
    <3>2. /\ TrueEntries' /\ TrueRows'
          /\ TrueEvent \subseteq TrueEvent' /\ TrueRequest \subseteq TrueRequest'
      BY <1>1, <2>1, <3>1, StillTrue
    <3>3. evq' \in Seq(TrueEvent') /\ reqs' \in Seq(TrueRequest')
      BY <1>1, <3>2, TakeTrue, SeqMono DEF TruthInv
    <3> QED  BY <3>2, <3>3 DEF TruthInv
  <2>3. CASE ev.dbKey \in DOMAIN table
    <3> DEFINE row == table[ev.dbKey]
               e == Named(EntryOf(row, ev.dbKey), ev.side, ev.name)
    <3>1. /\ DbType(table, nextcallid) /\ row \in Row /\ row.call \in Call /\ ev.dbKey \in Id
          /\ row.call \in DOMAIN call /\ Truthful(row, row.call)
      BY <2>3 DEF TruthInv, CleanInv, TrackInv, TypeOK, DbType, Row, TrueRows
    <3>2. EntryOf(row, ev.dbKey) \in Entry /\ Truthful(EntryOf(row, ev.dbKey), row.call)
      BY <3>1, EntryOfType DEF Truthful, EntryOf
    <3>3. ev.name \in TrueNames(row.call, ev.side)
      BY <1>3, <2>3, <3>1 DEF Meant
    <3>4. e \in Entry /\ e.dbKey = ev.dbKey /\ e.dbKey # 0 /\ Truthful(e, row.call)
      BY <1>2, <3>1, <3>2, <3>3, EntryOfType, NamedType, FieldTrue DEF Id, Named, Side
    <3>5. PICK s \in Saved(e, row.call) : table' = s.t /\ nextcallid' = s.next
      BY <1>6, <2>3 DEF OnResolverResponse, Sound
    <3> HIDE DEF e
    <3>6. Untouched(s, e) \/ Rewritten(s, e)
      BY <3>1, <3>4, <3>5, SavedCases DEF NewRow, Sound
    <3> HIDE DEF row
    <3>7. SameRow(e, s.e)
      BY <3>6 DEF Untouched, Rewritten
    <3>8. RowOf(s.e, row.call) = RowOf(e, row.call)
      BY <3>7 DEF SameRow
    <3>9. Truthful(RowOf(s.e, row.call), row.call) /\ RowOf(s.e, row.call).call = row.call
      BY <3>4, <3>8 DEF RowOf, Truthful
    <3>10. /\ DOMAIN table' = DOMAIN table /\ nextcallid' = nextcallid
           /\ \A i \in DOMAIN table :
                \/ table'[i] = table[i]
                \/ i = ev.dbKey /\ table'[i] = RowOf(s.e, row.call)
      BY <3>4, <3>5, <3>6 DEF Untouched, Rewritten, row
    <3>11. table[ev.dbKey].call = row.call
      BY DEF row
    <3>12. \A i \in DOMAIN table : table'[i].call = table[i].call
                                   /\ Truthful(table'[i], table[i].call) /\ table[i].call \in DOMAIN call
      BY <3>9, <3>10, <3>11 DEF TruthInv, TrueRows
    <3>13. TrueRows'
      <4> SUFFICES ASSUME NEW i \in DOMAIN table
                   PROVE  table'[i].call \in DOMAIN call /\ Truthful(table[i], table[i].call)'
        BY <1>1, <3>10 DEF TrueRows
      <4>1. table'[i].call = table[i].call /\ table[i].call \in DOMAIN call
            /\ Truthful(table'[i], table[i].call)
        BY <3>12
      <4> QED  BY <1>1, <4>1 DEF Truthful, TrueNames, TrueNumber
    <3>14. TrueEntries'
      BY <1>1, <2>1 DEF TruthInv, TrueEntries, Truthful, TrueNames, TrueNumber
    <3>15. \A id, d : Meant(id, d)' <=> Meant(id, d)
      BY <2>1, <3>10, <3>12 DEF Meant
    <3>16. TrueEvent \subseteq TrueEvent' /\ TrueRequest \subseteq TrueRequest'
      <4>1. \A c, side : TrueNames(c, side)' = TrueNames(c, side)
                         /\ TrueNumber(c, side)' = TrueNumber(c, side)
        BY <1>1 DEF TrueNames, TrueNumber
      <4>2. \A info, c : TrueInfo(info, c)' <=> TrueInfo(info, c)
        BY <4>1 DEF TrueInfo
      <4> QED  BY <1>1, <3>10, <3>15, <4>1, <4>2 DEF TrueEvent, TrueRequest
    <3>17. evq' \in Seq(TrueEvent') /\ reqs' \in Seq(TrueRequest')
      BY <1>1, <3>16, TakeTrue, SeqMono DEF TruthInv
    <3> QED  BY <3>13, <3>14, <3>17 DEF TruthInv
  <2> QED  BY <2>2, <2>3
<1> QED  BY <1>5, <1>6

\* What the providers say of the parties is true.
LEMMA InfoOfTrue ==
  ASSUME TrackInv, NEW c \in DOMAIN call, NEW sides, NEW named
  PROVE  TrueInfo(InfoOf(call[c], sides, named), c)
<1>1. call[c] \in TrueCall
  BY CallFacts
<1> QED  BY <1>1, TrackingAssumption
         DEF TrackingAssumption, TrueInfo, InfoOf, TrueNumber, TrueNames, TrueCall

LEMMA ProviderTrue ==
  ASSUME Sound, TruthInv, CleanInv', LineInv', Provider
  PROVE  TruthInv'
<1>1. TrackInv /\ call \in Seq(TrueCall)
  BY CallFacts DEF TruthInv, LineInv
<1>2. ASSUME NEW c \in DOMAIN call, NEW t \in TrueCall, NEW ev \in Event, Reported(c, t, ev)
      PROVE  TruthInv'
  <2>1. /\ t.type = call[c].type /\ t.remote = call[c].remote /\ ev.c = c /\ Told(c, t, ev)
        /\ evq' = Append(evq, ev) /\ call' = [call EXCEPT ![c] = t]
        /\ UNCHANGED <<entryVars, dbVars, reqs>>
    BY <1>2 DEF Reported
  <2>2. DOMAIN call' = DOMAIN call
        /\ \A d \in DOMAIN call : call'[d].type = call[d].type /\ call'[d].remote = call[d].remote
    BY <1>1, <2>1
  <2>3. /\ TrueEntries' /\ TrueRows'
        /\ TrueEvent \subseteq TrueEvent' /\ TrueRequest \subseteq TrueRequest'
    BY <2>1, <2>2, StillTrue DEF entryVars
  <2>4. ev \in TrueEvent
    BY <1>1, <2>1, InfoOfTrue DEF Told, TrueEvent
  <2>5. evq' \in Seq(TrueEvent') /\ reqs' \in Seq(TrueRequest')
    <3>1. Append(evq, ev) \in Seq(TrueEvent)
      BY <2>4, AppendOf DEF TruthInv
    <3> QED  BY <2>1, <2>3, <3>1, SeqMono DEF TruthInv
  <2> QED  BY <2>3, <2>5 DEF TruthInv
<1>3. ASSUME NEW k \in Key, NEW t \in TrueCall, NEW ev \in Event, Announced(k, t, ev)
      PROVE  TruthInv'
  <2>1. /\ ev.kind = "new" /\ evq' = Append(evq, ev) /\ call' = Append(call, t)
        /\ UNCHANGED <<entryVars, dbVars, reqs>>
    BY <1>3 DEF Announced
  <2>2. DOMAIN call \subseteq DOMAIN call' /\ \A d \in DOMAIN call : call'[d] = call[d]
    BY <1>1, <2>1, AppendOf
  <2>3. /\ TrueEntries' /\ TrueRows'
        /\ TrueEvent \subseteq TrueEvent' /\ TrueRequest \subseteq TrueRequest'
    BY <2>1, <2>2, StillTrue DEF entryVars
  <2>4. Append(evq, ev) \in Seq(TrueEvent)
    BY <2>1, AppendOf DEF TruthInv, TrueEvent
  <2>5. evq' \in Seq(TrueEvent') /\ reqs' \in Seq(TrueRequest')
    BY <2>1, <2>3, <2>4, SeqMono DEF TruthInv
  <2> QED  BY <2>3, <2>5 DEF TruthInv
<1> QED  BY <1>1, <1>2, <1>3, ProviderCases DEF Sound

\* The resolver's answer is a name of the number it was asked for.
LEMMA ServeTrue ==
  ASSUME Sound, TruthInv, CleanInv', LineInv', ResolverServe
  PROVE  TruthInv'
<1> DEFINE r == Head(reqs)
<1>1. reqs # <<>> /\ reqs' = Tail(reqs) /\ UNCHANGED <<call, entryVars, dbVars>>
  BY DEF ResolverServe
<1>2. r \in TrueRequest /\ reqs' \in Seq(TrueRequest) /\ r \in Request
  BY <1>1, TailOf DEF TruthInv, TrueRequest
<1>3. /\ TrueEntries' /\ TrueRows'
      /\ TrueEvent \subseteq TrueEvent' /\ TrueRequest \subseteq TrueRequest'
  BY <1>1, StillTrue DEF entryVars
<1>4. reqs' \in Seq(TrueRequest')
  BY <1>2, <1>3, SeqMono
<1>5. evq' \in Seq(TrueEvent)
  <2>1. CASE UNCHANGED evq
    BY <2>1 DEF TruthInv
  <2>2. ASSUME NEW name \in Answers(r),
               evq' = Append(evq, [kind |-> "resolved", dbKey |-> r.dbKey, side |-> r.side,
                                   name |-> name])
        PROVE  evq' \in Seq(TrueEvent)
    <3> DEFINE ev == [kind |-> "resolved", dbKey |-> r.dbKey, side |-> r.side, name |-> name]
    <3>1. name \in Name /\ name \in {LocalName[r.nr], WebName[r.nr]} /\ r.nr # NoNumber
      BY <1>2, <2>2, TrackingAssumption, EmptyAssumption
         DEF Answers, TrackingAssumption, Label, Request, EmptyAssumption
    <3>2. ev \in Event /\ ev.kind = "resolved" /\ ev.dbKey = r.dbKey /\ ev.side = r.side
          /\ ev.name = name
      BY <1>2, <3>1 DEF Event, Request
    <3> HIDE DEF ev
    <3>3. \A c \in DOMAIN call : Meant(r.dbKey, c) => name \in TrueNames(c, r.side)
      BY <1>2, <3>1 DEF TrueRequest, TrueNames
    <3>4. ev \in TrueEvent
      BY <1>2, <3>2, <3>3 DEF TrueEvent, TrueRequest
    <3>5. evq' = Append(evq, ev)
      BY <2>2 DEF ev
    <3> QED  BY <3>4, <3>5, AppendOf DEF TruthInv
  <2> QED  BY <2>1, <2>2 DEF ResolverServe
<1> QED  BY <1>3, <1>4, <1>5, SeqMono DEF TruthInv

LEMMA NextTruth ==
  ASSUME Sound, TruthInv, [Next]_vars
  PROVE  TruthInv'
<1>1. LineInv' /\ CleanInv'
  BY NextLine, NextClean DEF Sound, TruthInv
<1>2. CASE UNCHANGED vars
  <2>1. UNCHANGED <<call, evq, entry, active, table, nextcallid, reqs>>
    BY <1>2 DEF vars, lineVars, entryVars, dbVars
  <2>2. /\ TrueEntries' /\ TrueRows'
        /\ TrueEvent \subseteq TrueEvent' /\ TrueRequest \subseteq TrueRequest'
    BY <2>1, StillTrue DEF dbVars
  <2> QED  BY <1>1, <2>1, <2>2, SeqMono DEF TruthInv
<1> QED  BY <1>1, <1>2, OnNewCallTrue, OnCallStateUpdateTrue, OnCallInfoUpdateTrue,
            OnResolverResponseTrue, ProviderTrue, ServeTrue DEF Next, Gui

LEMMA InitTruth == Init => TruthInv
<1> SUFFICES ASSUME Init PROVE TruthInv
  OBVIOUS
<1>1. evq = <<>> /\ reqs = <<>> /\ DOMAIN entry = {} /\ DOMAIN table = {}
  BY DEF Init
<1> QED  BY <1>1, InitLine, InitClean, EmptySeq DEF TruthInv, TrueEntries, TrueRows

\* Without a database there are no rows at all.
LEMMA NoDatabase ==
  ASSUME ~DbOk
  PROVE  Spec => [](TrackInv /\ DOMAIN table = {})
<1>1. Init => TrackInv /\ DOMAIN table = {}
  BY InitTracks DEF Init
<1>2. TrackInv /\ DOMAIN table = {} /\ [Next]_vars => (TrackInv /\ DOMAIN table = {})'
  <2> SUFFICES ASSUME TrackInv, DOMAIN table = {}, [Next]_vars
               PROVE  TrackInv' /\ DOMAIN table' = {}
    OBVIOUS
  <2>1. TrackInv'
    BY NextTracks
  <2>2. \A c, e : SaveAs(c, e) => table' = table
    BY DEF SaveAs, Saved, Outcome
  <2>3. CASE Provider \/ ResolverServe \/ UNCHANGED vars
    <3>1. UNCHANGED dbVars
      BY <2>3 DEF Provider, ProviderNew, ProviderInfo, ProviderStatus, ProviderIdle,
                  ProviderLost, ResolverServe, vars
    <3> QED  BY <2>1, <3>1 DEF dbVars
  <2>4. Gui => table' = table
    BY <2>2 DEF Gui, OnNewCall, OnCallStateUpdate, OnCallInfoUpdate, OnResolverResponse, Forget,
                dbVars
  <2> QED  BY <2>1, <2>3, <2>4 DEF Next
<1> QED  BY <1>1, <1>2, PTL DEF Spec

(* A row tells about the call it was made for and about no other, if the   *)
(* providers report the end of every call and no insert fails: however     *)
(* late the names arrive and however soon a call id is used again, with    *)
(* failing updates and purges.                                             *)
THEOREM RowAttributionHolds ==
  ASSUME ~MayLose, {"begin", "insert"} \cap Faults = {}
  PROVE  Spec => []RowAttribution
<1>1. CASE DbOk
  <2>1. TruthInv => RowAttribution
    BY DEF TruthInv, TrueRows, RowAttribution
  <2>2. TruthInv /\ [Next]_vars => TruthInv'
    BY <1>1, NextTruth DEF Sound
  <2> QED  BY <2>1, <2>2, InitTruth, PTL DEF Spec
<1>2. CASE ~DbOk
  <2>1. Spec => [](TrackInv /\ DOMAIN table = {})
    BY <1>2, NoDatabase
  <2>2. TrackInv /\ DOMAIN table = {} => RowAttribution
    BY DEF RowAttribution
  <2> QED  BY <2>1, <2>2, PTL
<1> QED  BY <1>1, <1>2

----------------------------------------------------------------------------
(* How a call went.  What the line knows of call c beyond its entry is in  *)
(* the events that still wait: the outcome is OK exactly if the entry has  *)
(* begun or will be told CONNECTED, BUSY if it is or will be told BUSY,    *)
(* and RINGBACK, which makes an entry a missed call again, never comes     *)
(* after either.                                                           *)

Word(i, s) == evq[i].kind = "state" /\ evq[i].status = s
Says(c, s) == \E i \in Pending(c) : Word(i, s)

(* What the status events that wait say fits how the call went.            *)
Course(c) ==
  /\ call[c].phase = "ringing" => call[c].outcome = "NOTREACHED"
  /\ call[c].phase = "busy" => call[c].outcome = "BUSY"
  /\ call[c].phase \in {"up", "held"} => call[c].outcome = "OK"
  /\ call[c].phase \notin {"over", "gone"} => ~call[c].hungup /\ ~Says(c, "DISCONNECTED")
  /\ call[c].hungup => call[c].outcome = "OK"
  /\ Says(c, "CONNECTED") => call[c].outcome = "OK"
  /\ Says(c, "BUSY") => call[c].outcome = "BUSY" /\ call[c].type = "OUTGOING"
  /\ Says(c, "DISCONNECTED") /\ call[c].outcome = "OK" => call[c].hungup

(* ... and they come in order.                                             *)
InOrder(c) ==
  \A i, j \in Pending(c) :
    /\ Word(i, "RINGBACK") /\ (Word(j, "CONNECTED") \/ Word(j, "BUSY")) => i < j
    /\ Word(i, "CONNECTED") /\ Word(j, "DISCONNECTED") => i < j

(* Entry e and the events that wait add up to how call c went.             *)
OnCourse(c, e) ==
  /\ e.result \in {"NOTREACHED", "OK", "BUSY"} /\ (e.begun <=> e.result = "OK")
  /\ e.state = "CONNECTED" => e.begun
  /\ call[c].outcome = "OK" <=> e.begun \/ Says(c, "CONNECTED")
  /\ call[c].outcome = "BUSY" <=> e.result = "BUSY" \/ Says(c, "BUSY")
  /\ Says(c, "RINGBACK") => e.result = "NOTREACHED"
  /\ e.timed => call[c].hungup
  /\ call[c].hungup => e.timed \/ Says(c, "DISCONNECTED")

Fresh == [result |-> "NOTREACHED", begun |-> FALSE, timed |-> FALSE, state |-> "PENDING"]
EntryFor(c) == IF c \in DOMAIN entry THEN entry[c] ELSE Fresh

CallsOnCourse ==
  \A c \in DOMAIN call :
    /\ Course(c) /\ InOrder(c)
    /\ c \in DOMAIN entry \/ Pending(c) # {} => OnCourse(c, EntryFor(c))

KnownEvent ==
  {ev \in Event : /\ ev.kind = "new" => StateOf(ev.status) = "PENDING"
                  /\ ev.kind = "state" => ev.status \in DOMAIN PhaseAfter \cup {"IDLE"}}

RowsFinal ==
  /\ \A c \in DOMAIN entry : ~entry[c].dirty
  /\ \A id \in DOMAIN table :
       LET c == table[id].call IN
       IF c \in DOMAIN entry THEN entry[c].dbKey = id
       ELSE Pending(c) = {} /\ table[id].result = call[c].outcome
            /\ table[id].timed = call[c].hungup

JourneyInv == TruthInv /\ CallsOnCourse /\ evq \in Seq(KnownEvent) /\ RowsFinal

\* What the queue says after an event was taken, and after one was posted.
LEMMA SaysTake ==
  ASSUME TrackInv, NEW kind, Take(kind)
  PROVE  /\ \A c, s : Says(c, s)' => Says(c, s)
         /\ \A c, s : Says(c, s) => Says(c, s)' \/ (Head(evq).c = c /\ kind = "state"
                                                    /\ Head(evq).status = s)
<1>1. Head(evq) = evq[1] /\ evq[1].kind = kind
  BY TakeQueue
<1>2. ASSUME NEW c, NEW s, Says(c, s)'
      PROVE  Says(c, s)
  <2>1. PICK i \in Pending(c)' : Word(i, s)'
    BY <1>2 DEF Says
  <2>2. i + 1 \in Pending(c) /\ evq'[i] = evq[i + 1]
    BY <2>1, PendingTake
  <2> QED  BY <2>1, <2>2 DEF Says, Word
<1>3. ASSUME NEW c, NEW s, Says(c, s)
      PROVE  Says(c, s)' \/ (Head(evq).c = c /\ kind = "state" /\ Head(evq).status = s)
  <2>1. PICK i \in Pending(c) : Word(i, s)
    BY <1>3 DEF Says
  <2>2. CASE i = 1
    BY <1>1, <2>1, <2>2 DEF Word, Pending
  <2>3. CASE i # 1
    <3>1. i - 1 \in Pending(c)' /\ evq'[i - 1] = evq[i]
      BY <2>1, <2>3, PendingTake
    <3> QED  BY <2>1, <3>1 DEF Says, Word
  <2> QED  BY <2>2, <2>3
<1> QED  BY <1>2, <1>3

LEMMA SaysPost ==
  ASSUME TrackInv, NEW ev \in Event, evq' = Append(evq, ev)
  PROVE  \A c, s : Says(c, s)' <=> \/ Says(c, s)
                                   \/ ev.kind = "state" /\ ev.c = c /\ ev.status = s
<1> DEFINE n == Len(evq) + 1
<1>1. evq'[n] = ev
  BY AppendOf DEF TrackInv, TypeOK
<1>2. \A c : /\ Pending(c)' = Pending(c) \cup
                  (IF ev.kind # "resolved" /\ ev.c = c THEN {n} ELSE {})
             /\ \A i \in Pending(c) : evq'[i] = evq[i]
  BY PendingPost
<1> HIDE DEF n
<1> QED  BY <1>1, <1>2 DEF Says, Word

\* What stays in order when the head is taken.
LEMMA OrderTake ==
  ASSUME TrackInv, NEW kind, Take(kind), NEW c, InOrder(c)
  PROVE  /\ InOrder(c)'
         /\ kind = "state" /\ Head(evq).c = c =>
              /\ Head(evq).status \in {"CONNECTED", "BUSY"} => ~Says(c, "RINGBACK")
              /\ Head(evq).status = "DISCONNECTED" => ~Says(c, "CONNECTED")'
<1>1. /\ Head(evq) = evq[1] /\ evq[1].kind = kind /\ 1 \in DOMAIN evq
      /\ \A i \in DOMAIN evq : i \in Nat /\ i >= 1
      /\ \A i \in DOMAIN evq' : i \in Nat /\ i >= 1
  BY TakeQueue
<1>2. /\ \A i \in Pending(c)' : i + 1 \in Pending(c) /\ evq'[i] = evq[i + 1]
      /\ \A i \in Pending(c) : i # 1 => i - 1 \in Pending(c)' /\ evq'[i - 1] = evq[i]
      /\ 1 \in Pending(c) <=> kind # "resolved" /\ Head(evq).c = c
  BY PendingTake
<1>3. \A i \in Pending(c) : i \in Nat /\ i >= 1
  BY <1>1 DEF Pending
<1>4. \A i \in Pending(c)' : i \in Nat /\ i >= 1
  BY <1>1 DEF Pending
<1>5. InOrder(c)'
  <2> SUFFICES ASSUME NEW i \in Pending(c)', NEW j \in Pending(c)'
               PROVE  /\ Word(i, "RINGBACK")' /\ (Word(j, "CONNECTED")' \/ Word(j, "BUSY")') => i < j
                      /\ Word(i, "CONNECTED")' /\ Word(j, "DISCONNECTED")' => i < j
    BY DEF InOrder
  <2>1. \A s : (Word(i, s)' <=> Word(i + 1, s)) /\ (Word(j, s)' <=> Word(j + 1, s))
    BY <1>2 DEF Word
  <2>2. /\ Word(i, "RINGBACK")' /\ (Word(j, "CONNECTED")' \/ Word(j, "BUSY")') => i + 1 < j + 1
        /\ Word(i, "CONNECTED")' /\ Word(j, "DISCONNECTED")' => i + 1 < j + 1
    BY <1>2, <2>1 DEF InOrder
  <2> QED  BY <1>4, <2>2
<1>6. ASSUME kind = "state", Head(evq).c = c, Head(evq).status \in {"CONNECTED", "BUSY"},
             Says(c, "RINGBACK")
      PROVE  FALSE
  <2>1. PICK i \in Pending(c) : Word(i, "RINGBACK")
    BY <1>6 DEF Says
  <2>2. 1 \in Pending(c) /\ (Word(1, "CONNECTED") \/ Word(1, "BUSY"))
    BY <1>1, <1>2, <1>6 DEF Word
  <2>3. i < 1
    BY <2>1, <2>2 DEF InOrder
  <2> QED  BY <1>3, <2>1, <2>3
<1>7. ASSUME kind = "state", Head(evq).c = c, Head(evq).status = "DISCONNECTED",
             Says(c, "CONNECTED")'
      PROVE  FALSE
  <2>1. PICK i \in Pending(c)' : Word(i, "CONNECTED")'
    BY <1>7 DEF Says
  <2>2. 1 \in Pending(c) /\ Word(1, "DISCONNECTED") /\ i + 1 \in Pending(c) /\ Word(i + 1, "CONNECTED")
    BY <1>1, <1>2, <1>7, <2>1 DEF Word
  <2>3. i + 1 < 1
    BY <2>2 DEF InOrder
  <2> QED  BY <1>4, <2>1, <2>3
<1> QED  BY <1>5, <1>6, <1>7

\* What setState does to the fields the journal shows.
LEMMA SetStateEffect ==
  ASSUME NEW e \in Entry, e.type \in {"INCOMING", "OUTGOING"}, NEW st \in State
  PROVE  LET f == SetState(e, st) IN
         /\ f.state = st
         /\ f.begun = (e.begun \/ (st = "CONNECTED" /\ (e.type = "OUTGOING" \/ e.state # "CONNECTED")))
         /\ f.timed = (e.timed \/ (st = "DISCONNECTED" /\ e.begun))
         /\ f.result = (IF st = "CONNECTED" /\ (e.type = "OUTGOING" \/ e.state # "CONNECTED")
                          THEN "OK"
                        ELSE IF st = "PENDING" /\ e.type = "OUTGOING" THEN "NOTREACHED"
                        ELSE IF st = "BUSY" /\ e.type = "OUTGOING" THEN "BUSY"
                        ELSE e.result)
<1> DEFINE g == CASE e.type = "OUTGOING" -> OutgoingEffect(e, st)
                  [] e.type = "INCOMING" -> IncomingEffect(e, st)
                  [] OTHER               -> e
           Effect(h) ==
             /\ h.begun = (e.begun \/ (st = "CONNECTED" /\ (e.type = "OUTGOING" \/ e.state # "CONNECTED")))
             /\ h.timed = (e.timed \/ (st = "DISCONNECTED" /\ e.begun))
             /\ h.result = (IF st = "CONNECTED" /\ (e.type = "OUTGOING" \/ e.state # "CONNECTED")
                              THEN "OK"
                            ELSE IF st = "PENDING" /\ e.type = "OUTGOING" THEN "NOTREACHED"
                            ELSE IF st = "BUSY" /\ e.type = "OUTGOING" THEN "BUSY"
                            ELSE e.result)
<1>1. g \in Entry /\ Effect(g)
  <2>1. CASE e.type = "OUTGOING"
    <3>1. g = OutgoingEffect(e, st)
      BY <2>1
    <3>2. OutgoingEffect(e, st) \in Entry
      BY DEF OutgoingEffect, SetResult, SetBeginNow, SetEndNow, SetField, Entry, Result
    <3>3. Effect(OutgoingEffect(e, st))
      BY <2>1 DEF OutgoingEffect, SetResult, SetBeginNow, SetEndNow, SetField, Entry, State
    <3> QED  BY <3>1, <3>2, <3>3
  <2>2. CASE e.type = "INCOMING"
    <3>1. g = IncomingEffect(e, st)
      BY <2>2
    <3>2. IncomingEffect(e, st) \in Entry
      BY DEF IncomingEffect, SetResult, SetBeginNow, SetEndNow, SetField, Entry, Result
    <3>3. Effect(IncomingEffect(e, st))
      BY <2>2 DEF IncomingEffect, SetResult, SetBeginNow, SetEndNow, SetField, Entry, State
    <3> QED  BY <3>1, <3>2, <3>3
  <2> QED  BY <2>1, <2>2
<1> HIDE DEF g
<1>2. SetField(g, "state", st).state = st /\ SetField(g, "state", st).begun = g.begun
      /\ SetField(g, "state", st).timed = g.timed /\ SetField(g, "state", st).result = g.result
  BY <1>1 DEF SetField, Entry
<1>3. SetState(e, st) = SetField(g, "state", st)
  BY DEF SetState, g
<1> QED  BY <1>1, <1>2, <1>3

\* The events of a call that waits for nothing else are in its entry.
LEMMA StatusOnCourse ==
  ASSUME JourneyInv, Take("state"), Head(evq).status # "IDLE", UNCHANGED call,
         NEW c \in DOMAIN entry, Head(evq).c = c, NEW f,
         f = SetState(entry[c], StateOf(Head(evq).status))
  PROVE  OnCourse(c, f)'
<1> DEFINE s == Head(evq).status
           e == entry[c]
<1>1. TrackInv /\ c \in DOMAIN call
  BY CallFacts DEF JourneyInv, TruthInv, LineInv
<1>2. e \in Entry /\ e.type = call[c].type /\ call[c].type \in {"INCOMING", "OUTGOING"}
      /\ s \in {"RINGBACK", "BUSY", "CONNECTED", "ONHOLD", "DISCONNECTED"}
  <2>1. e \in Entry /\ Truthful(e, c) /\ call[c] \in TrueCall
    BY <1>1, CallFacts DEF TrackInv, TypeOK, JourneyInv, TruthInv, TrueEntries
  <2>2. Head(evq) \in KnownEvent /\ Head(evq).kind = "state"
    BY TailOf DEF Take, JourneyInv
  <2> QED  BY <2>1, <2>2, TrackingAssumption
           DEF Truthful, TrueCall, TrackingAssumption, KnownEvent, PhaseAfter
<1>3. Course(c) /\ InOrder(c) /\ OnCourse(c, e)
  BY <1>1 DEF JourneyInv, CallsOnCourse, EntryFor
<1>4. /\ \A w : Says(c, w)' => Says(c, w)
      /\ \A w : Says(c, w) => Says(c, w)' \/ w = s
  BY <1>1, SaysTake
<1>5. Says(c, s)
  <2>1. 1 \in Pending(c) /\ Head(evq) = evq[1] /\ evq[1].kind = "state"
    BY <1>1, PendingTake, TakeQueue
  <2> QED  BY <2>1 DEF Says, Word
<1>6. /\ s \in {"CONNECTED", "BUSY"} => ~Says(c, "RINGBACK")
      /\ s = "DISCONNECTED" => ~Says(c, "CONNECTED")'
  BY <1>1, <1>3, OrderTake
<1> DEFINE st == StateOf(s)
<1>7. /\ st \in State
      /\ s = "RINGBACK" => st = "PENDING"
      /\ s = "BUSY" => st = "BUSY"
      /\ s = "CONNECTED" => st = "CONNECTED"
      /\ s = "ONHOLD" => st = "ONHOLD"
      /\ s = "DISCONNECTED" => st = "DISCONNECTED"
  BY <1>2 DEF StateOf, State
<1>8. /\ f.state = st
      /\ f.begun = (e.begun \/ (st = "CONNECTED" /\ (e.type = "OUTGOING" \/ e.state # "CONNECTED")))
      /\ f.timed = (e.timed \/ (st = "DISCONNECTED" /\ e.begun))
      /\ f.result = (IF st = "CONNECTED" /\ (e.type = "OUTGOING" \/ e.state # "CONNECTED")
                       THEN "OK"
                     ELSE IF st = "PENDING" /\ e.type = "OUTGOING" THEN "NOTREACHED"
                     ELSE IF st = "BUSY" /\ e.type = "OUTGOING" THEN "BUSY"
                     ELSE e.result)
  BY <1>2, <1>7, SetStateEffect
<1>9. e.begun \in BOOLEAN /\ e.timed \in BOOLEAN
  BY <1>2 DEF Entry
<1> HIDE DEF e, s, st
<1>10. CASE s = "RINGBACK"
  BY <1>2, <1>3, <1>4, <1>5, <1>7, <1>8, <1>9, <1>10 DEF OnCourse, Course
<1>11. CASE s = "BUSY"
  BY <1>2, <1>3, <1>4, <1>5, <1>6, <1>7, <1>8, <1>9, <1>11 DEF OnCourse, Course
<1>12. CASE s = "CONNECTED"
  BY <1>2, <1>3, <1>4, <1>5, <1>6, <1>7, <1>8, <1>9, <1>12 DEF OnCourse, Course
<1>13. CASE s = "ONHOLD"
  BY <1>2, <1>3, <1>4, <1>5, <1>7, <1>8, <1>9, <1>13 DEF OnCourse, Course
<1>14. CASE s = "DISCONNECTED"
  BY <1>2, <1>3, <1>4, <1>5, <1>6, <1>7, <1>8, <1>9, <1>14 DEF OnCourse, Course
<1> QED  BY <1>2, <1>10, <1>11, <1>12, <1>13, <1>14

\* The names and numbers of an entry say nothing about how the call went.
SameCourse(e, f) == f.result = e.result /\ f.begun = e.begun /\ f.timed = e.timed /\ f.state = e.state

LEMMA NamingKeepsCourse ==
  ASSUME NEW e \in Entry
  PROVE  /\ \A side, name : SameCourse(e, Named(e, side, name))
         /\ \A info \in Info : SameCourse(e, WithNames(e, info))
         /\ \A raw \in Raw \cup {NoRaw} :
              SameCourse(e, WithCaller(e, raw).e) /\ SameCourse(e, WithCalled(e, raw).e)
<1>1. \A g \in Entry, field \in {"clnr", "cln", "cdnr", "cdn"} :
        \A v : SameCourse(g, SetField(g, field, v))
  BY DEF SameCourse, SetField, Entry
<1>2. \A side, name : SameCourse(e, Named(e, side, name))
  BY <1>1 DEF Named
<1>3. ASSUME NEW info \in Info
      PROVE  SameCourse(e, WithNames(e, info))
  <2> DEFINE f == IF e.cdn = NoName THEN SetField(e, "cdn", info.calledName) ELSE e
  <2>1. f \in Entry
    BY DEF SetField, Entry, Info
  <2>2. SameCourse(e, f)
    BY <1>1 DEF SameCourse
  <2>3. WithNames(e, info) = IF f.cln = NoName THEN SetField(f, "cln", info.callerName) ELSE f
    BY DEF WithNames
  <2> HIDE DEF f
  <2>4. SameCourse(f, SetField(f, "cln", info.callerName))
    BY <1>1, <2>1
  <2> QED  BY <2>2, <2>3, <2>4 DEF SameCourse
<1>4. ASSUME NEW raw \in Raw \cup {NoRaw}
      PROVE  SameCourse(e, WithCaller(e, raw).e)
  <2> DEFINE f == SetField(e, "clnr", Format[raw])
             g == [f EXCEPT !.resolvingCaller = TRUE]
  <2>1. WithCaller(e, raw).e \in {e, f, g}
    BY DEF WithCaller
  <2>2. SameCourse(e, f)
    BY <1>1
  <2>3. SameCourse(e, g)
    BY DEF SameCourse, SetField, Entry
  <2> HIDE DEF f, g
  <2> QED  BY <2>1, <2>2, <2>3 DEF SameCourse
<1>5. ASSUME NEW raw \in Raw \cup {NoRaw}
      PROVE  SameCourse(e, WithCalled(e, raw).e)
  <2> DEFINE f == SetField(e, "cdnr", Format[raw])
             g == [f EXCEPT !.resolvingCalled = TRUE]
  <2>1. WithCalled(e, raw).e \in {e, f, g}
    BY DEF WithCalled
  <2>2. SameCourse(e, f)
    BY <1>1
  <2>3. SameCourse(e, g)
    BY DEF SameCourse, SetField, Entry
  <2> HIDE DEF f, g
  <2> QED  BY <2>1, <2>2, <2>3 DEF SameCourse
<1> QED  BY <1>2, <1>3, <1>4, <1>5

\* An event that says nothing of call c leaves its course alone.
LEMMA PassCourse ==
  ASSUME TrackInv, NEW kind, Take(kind), UNCHANGED call, NEW c, Course(c), InOrder(c)
  PROVE  /\ Course(c)' /\ InOrder(c)'
         /\ kind # "state" \/ Head(evq).c # c => \A e : OnCourse(c, e) => OnCourse(c, e)'
<1>1. InOrder(c)'
  BY OrderTake
<1>2. /\ \A s : Says(c, s)' => Says(c, s)
      /\ kind # "state" \/ Head(evq).c # c => \A s : Says(c, s) => Says(c, s)'
  BY SaysTake
<1>3. Course(c)'
  BY <1>2 DEF Course
<1>4. ASSUME kind # "state" \/ Head(evq).c # c, NEW e, OnCourse(c, e)
      PROVE  OnCourse(c, e)'
  BY <1>2, <1>4 DEF OnCourse
<1> QED  BY <1>1, <1>3, <1>4

Careful == Sound /\ "update" \notin Faults

\* The handlers that save: the entry of the call the event is about stays on
\* course, and the table gains at most its row.
LEMMA SaveOnCourse ==
  ASSUME Careful, JourneyInv, NEW kind, Take(kind), UNCHANGED call,
         NEW c \in DOMAIN call, NEW e \in Entry, SaveAs(c, e), OnCourse(c, e)',
         kind = "state" => Head(evq).c = c,
         IF c \in DOMAIN entry THEN e.dbKey = entry[c].dbKey
         ELSE e.dbKey = 0 /\ Pending(c) # {}
  PROVE  CallsOnCourse' /\ RowsFinal'
<1>1. TrackInv /\ DbType(table, nextcallid) /\ c \in Call /\ DOMAIN entry \subseteq DOMAIN call
  BY CallFacts DEF JourneyInv, TruthInv, CleanInv, TrackInv, TypeOK, DbType
<1>2. PICK s \in Saved(e, c) : entry' = WithEntry(c, s.e) /\ table' = s.t /\ nextcallid' = s.next
  BY DEF SaveAs
<1>3. Untouched(s, e) \/ Rewritten(s, e) \/ NewRow(s, e, c)
  BY <1>1, <1>2, SavedCases DEF Careful, Sound
<1>4. /\ DOMAIN entry' = DOMAIN entry \cup {c}
      /\ entry'[c] = s.e /\ \A d \in DOMAIN entry : d # c => entry'[d] = entry[d]
  BY <1>2 DEF WithEntry
<1>5. ~s.e.dirty /\ s.e.state = e.state /\ SameRow(e, s.e)
  <2>1. {"begin", "update"} \cap Faults = {}
    BY DEF Careful, Sound
  <2> QED  BY <1>3, <2>1 DEF Untouched, Rewritten, NewRow
<1>6. s.e.result = e.result /\ s.e.begun = e.begun /\ s.e.timed = e.timed
  <2>1. RowOf(s.e, c) = RowOf(e, c)
    BY <1>5 DEF SameRow
  <2> QED  BY <2>1 DEF RowOf
<1>7. OnCourse(c, s.e)'
  BY <1>5, <1>6 DEF OnCourse
<1>8. \A d : Pending(d) = {} => Pending(d)' = {}
  BY <1>1, PendingTake
<1>9. CallsOnCourse'
  <2> SUFFICES ASSUME NEW d \in DOMAIN call
               PROVE  /\ Course(d)' /\ InOrder(d)'
                      /\ d \in DOMAIN entry' \/ Pending(d)' # {} => OnCourse(d, EntryFor(d))'
    BY DEF CallsOnCourse
  <2>1. Course(d) /\ InOrder(d) /\ (d \in DOMAIN entry \/ Pending(d) # {} => OnCourse(d, EntryFor(d)))
    BY DEF JourneyInv, CallsOnCourse
  <2>2. /\ Course(d)' /\ InOrder(d)'
        /\ kind # "state" \/ Head(evq).c # d => \A f : OnCourse(d, f) => OnCourse(d, f)'
    BY <1>1, <2>1, PassCourse
  <2>3. CASE d = c
    <3>1. EntryFor(d)' = s.e
      BY <1>4, <2>3 DEF EntryFor
    <3>2. OnCourse(d, EntryFor(d))'
      BY <1>7, <2>3, <3>1
    <3> QED  BY <2>2, <3>2
  <2>4. CASE d # c
    <3>1. EntryFor(d)' = EntryFor(d) /\ (d \in DOMAIN entry' <=> d \in DOMAIN entry)
      BY <1>4, <2>4 DEF EntryFor
    <3>2. ASSUME d \in DOMAIN entry' \/ Pending(d)' # {}
          PROVE  OnCourse(d, EntryFor(d))'
      <4> DEFINE f == EntryFor(d)
      <4>1. OnCourse(d, f)
        BY <1>8, <2>1, <3>1, <3>2
      <4>2. PICK g : g = f
        OBVIOUS
      <4>3. OnCourse(d, g)'
        BY <2>2, <2>4, <4>1, <4>2
      <4>4. EntryFor(d)' = g
        BY <3>1, <4>2
      <4> QED  BY <4>3, <4>4
    <3> QED  BY <2>2, <3>2
  <2> QED  BY <2>3, <2>4
<1>10. RowsFinal'
  <2>1. \A d \in DOMAIN entry' : ~entry'[d].dirty
    BY <1>4, <1>5 DEF JourneyInv, RowsFinal
  <2>2. \A id \in DOMAIN table' :
          \/ id \in DOMAIN table /\ table'[id] = table[id]
          \/ table'[id].call = c /\ id = s.e.dbKey
    <3>1. CASE Untouched(s, e)
      BY <1>2, <3>1 DEF Untouched
    <3>2. CASE Rewritten(s, e)
      <4>1. e.dbKey \in DOMAIN table => table[e.dbKey].call = c
        BY <3>2 DEF Rewritten, JourneyInv, TruthInv, CleanInv, RowKeys
      <4> QED  BY <1>2, <3>2, <4>1 DEF Rewritten, RowOf
    <3>3. CASE NewRow(s, e, c)
      <4>1. nextcallid \notin DOMAIN table
        BY <1>1 DEF JourneyInv, TruthInv, CleanInv, KeyOwnership, DbType, Id
      <4> QED  BY <1>2, <3>3, <4>1 DEF NewRow, RowOf
    <3> QED  BY <1>3, <3>1, <3>2, <3>3
  <2>3. c \in DOMAIN entry => s.e.dbKey = entry[c].dbKey
    BY <1>3 DEF Untouched, Rewritten, NewRow, JourneyInv, TruthInv, TrueEntries
  <2>4. ASSUME NEW id \in DOMAIN table', NEW d, d = table'[id].call
        PROVE  IF d \in DOMAIN entry' THEN entry'[d].dbKey = id
               ELSE Pending(d)' = {} /\ table'[id].result = call[d].outcome
                    /\ table'[id].timed = call[d].hungup
    <3>1. CASE d = c /\ id = s.e.dbKey
      BY <1>4, <3>1
    <3>2. CASE id \in DOMAIN table /\ table'[id] = table[id]
      <4>1. IF d \in DOMAIN entry THEN entry[d].dbKey = id
            ELSE Pending(d) = {} /\ table[id].result = call[d].outcome
                 /\ table[id].timed = call[d].hungup
        BY <2>4, <3>2 DEF JourneyInv, RowsFinal
      <4>2. CASE d = c
        BY <1>4, <2>3, <4>1, <4>2
      <4>3. CASE d # c
        BY <1>4, <1>8, <3>2, <4>1, <4>3
      <4> QED  BY <4>2, <4>3
    <3> QED  BY <2>2, <2>4, <3>1, <3>2
  <2> QED  BY <2>1, <2>4 DEF RowsFinal
<1> QED  BY <1>9, <1>10

LEMMA KnownTake ==
  ASSUME JourneyInv, NEW kind, Take(kind)
  PROVE  Head(evq) \in KnownEvent /\ Head(evq).kind = kind /\ evq' \in Seq(KnownEvent)
BY TailOf DEF Take, JourneyInv

LEMMA OnNewCallCourse ==
  ASSUME Careful, JourneyInv, OnNewCall
  PROVE  CallsOnCourse' /\ RowsFinal'
<1>0. Take("new") /\ LineInv /\ TrackInv /\ UNCHANGED call
  BY DEF OnNewCall, JourneyInv, TruthInv, LineInv
<1>a. PICK c \in DOMAIN call : c = Head(evq).c
  BY <1>0, HeadIsCurrent
<1>1. PICK type : c = Head(evq).c /\ type = call[c].type
  BY <1>a
<1>2. Head(evq).type = type /\ c \notin DOMAIN entry /\ 1 \in Pending(c)
  BY <1>0, <1>1, HeadIsCurrent, PendingTake
<1>3. type \in {"INCOMING", "OUTGOING"} /\ type \in Type /\ StateOf(Head(evq).status) = "PENDING"
  <2>1. call[c] \in TrueCall
    BY <1>0, CallFacts
  <2> QED  BY <1>0, <1>1, <2>1, KnownTake, TrackingAssumption
           DEF TrackingAssumption, TrueCall, Type, KnownEvent
<1> DEFINE new == NewEntry(type)
<1>4. PICK e : e = SetState(new, "PENDING")
  OBVIOUS
<1>5. SaveAs(c, e)
  BY <1>1, <1>2, <1>3, <1>4 DEF OnNewCall
<1>6. new \in Entry /\ new.dbKey = 0 /\ e \in Entry /\ e.dbKey = 0
  BY <1>3, <1>4, NewEntryType, SetStateType DEF State
<1>7. /\ new.type = type /\ ~new.begun /\ ~new.timed
      /\ type = "INCOMING" => new.result = "NOTREACHED"
  BY DEF NewEntry
<1> HIDE DEF new
<1>8. e.result = "NOTREACHED" /\ ~e.begun /\ ~e.timed /\ e.state = "PENDING"
  <2>1. "PENDING" \in State
    BY DEF State
  <2>2. /\ e.state = "PENDING"
        /\ e.begun = new.begun /\ e.timed = new.timed
        /\ e.result = IF type = "OUTGOING" THEN "NOTREACHED" ELSE new.result
    BY <1>3, <1>4, <1>6, <1>7, <2>1, SetStateEffect DEF Entry
  <2> QED  BY <1>3, <1>7, <2>2
<1>9. Course(c) /\ InOrder(c) /\ OnCourse(c, Fresh)
  BY <1>2 DEF JourneyInv, CallsOnCourse, EntryFor
<1>10. OnCourse(c, e)
  BY <1>8, <1>9 DEF OnCourse, Fresh
<1>11. OnCourse(c, e)'
  BY <1>0, <1>9, <1>10, PassCourse
<1> QED  BY <1>0, <1>2, <1>5, <1>6, <1>11, SaveOnCourse

\* IDLE: the last event of its call is taken, and its row has been saved.
LEMMA IdleFinal ==
  ASSUME Careful, JourneyInv, Take("state"), Head(evq).status = "IDLE",
         Forget(Head(evq).key), UNCHANGED call
  PROVE  CallsOnCourse' /\ RowsFinal'
<1>0. LineInv /\ TrackInv
  BY DEF JourneyInv, TruthInv, LineInv
<1>1. PICK x \in DOMAIN entry : x = Head(evq).c
  BY <1>0, HeadIsCurrent
<1>2. /\ x \in DOMAIN call /\ active[Head(evq).key] = x /\ DOMAIN entry \subseteq DOMAIN call
  BY <1>0, <1>1, HeadIsCurrent, CallFacts
<1>3. /\ DOMAIN entry' = DOMAIN entry \ {x} /\ \A d \in DOMAIN entry' : entry'[d] = entry[d]
      /\ table' = table
  BY <1>2 DEF Forget, dbVars
<1>4. Head(evq) = evq[1] /\ IsIdle(evq[1]) /\ 1 \in DOMAIN evq
      /\ \A i \in DOMAIN evq : i \in Nat /\ i >= 1
  BY <1>0, TakeQueue DEF IsIdle
<1>5. \A i \in Pending(x) : i = 1
  <2>1. \A i \in Pending(x) : i <= 1 /\ i \in Nat /\ i >= 1
    BY <1>0, <1>1, <1>4 DEF LineInv, EventOrder, Pending, IsIdle
  <2> QED  BY <2>1
<1>6. Pending(x)' = {}
  <2>1. /\ \A i \in Pending(x)' : i + 1 \in Pending(x)
        /\ \A i \in DOMAIN evq' : i \in Nat /\ i >= 1
    BY <1>0, PendingTake, TakeQueue
  <2>2. \A i \in Pending(x)' : i \in Nat /\ i >= 1
    BY <2>1 DEF Pending
  <2> QED  BY <1>5, <2>1, <2>2
<1>7. \A s : s # "IDLE" => ~Says(x, s)
  BY <1>4, <1>5 DEF Says, Word, IsIdle
<1>8. \A d : Pending(d) = {} => Pending(d)' = {}
  BY <1>0, PendingTake
<1>9. CallsOnCourse'
  <2> SUFFICES ASSUME NEW d \in DOMAIN call
               PROVE  /\ Course(d)' /\ InOrder(d)'
                      /\ d \in DOMAIN entry' \/ Pending(d)' # {} => OnCourse(d, EntryFor(d))'
    BY DEF CallsOnCourse
  <2>1. Course(d) /\ InOrder(d) /\ (d \in DOMAIN entry \/ Pending(d) # {} => OnCourse(d, EntryFor(d)))
    BY DEF JourneyInv, CallsOnCourse
  <2>2. /\ Course(d)' /\ InOrder(d)'
        /\ Head(evq).c # d => \A f : OnCourse(d, f) => OnCourse(d, f)'
    BY <1>0, <2>1, PassCourse
  <2>3. CASE d = x
    BY <1>3, <1>6, <2>2, <2>3
  <2>4. CASE d # x
    <3>1. PICK g : g = EntryFor(d)
      OBVIOUS
    <3>2. EntryFor(d)' = g /\ (d \in DOMAIN entry' <=> d \in DOMAIN entry)
      BY <1>3, <2>4, <3>1 DEF EntryFor
    <3>3. ASSUME d \in DOMAIN entry' \/ Pending(d)' # {}
          PROVE  OnCourse(d, EntryFor(d))'
      <4>1. OnCourse(d, g)
        BY <1>8, <2>1, <3>1, <3>2, <3>3
      <4>2. OnCourse(d, g)'
        BY <1>1, <2>2, <2>4, <4>1
      <4> QED  BY <3>2, <4>2
    <3> QED  BY <2>2, <3>3
  <2> QED  BY <2>3, <2>4
<1>10. entry[x].result = call[x].outcome /\ entry[x].timed = call[x].hungup
  <2>1. OnCourse(x, entry[x])
    BY <1>2 DEF JourneyInv, CallsOnCourse, EntryFor
  <2>2. call[x] \in TrueCall /\ entry[x] \in Entry
    BY <1>0, <1>2, CallFacts DEF TrackInv, TypeOK
  <2>3. /\ call[x].outcome \in {"NOTREACHED", "OK", "BUSY"} /\ call[x].hungup \in BOOLEAN
        /\ entry[x].timed \in BOOLEAN
    BY <2>2 DEF TrueCall, Entry
  <2> QED  BY <1>7, <2>1, <2>3 DEF OnCourse
<1>11. RowsFinal'
  <2>1. \A d \in DOMAIN entry' : ~entry'[d].dirty
    BY <1>3 DEF JourneyInv, RowsFinal
  <2>2. ASSUME NEW id \in DOMAIN table', NEW d, d = table'[id].call
        PROVE  IF d \in DOMAIN entry' THEN entry'[d].dbKey = id
               ELSE Pending(d)' = {} /\ table'[id].result = call[d].outcome
                    /\ table'[id].timed = call[d].hungup
    <3>1. IF d \in DOMAIN entry THEN entry[d].dbKey = id
          ELSE Pending(d) = {} /\ table[id].result = call[d].outcome
               /\ table[id].timed = call[d].hungup
      BY <1>3, <2>2 DEF JourneyInv, RowsFinal
    <3>2. CASE d = x
      <4>1. x \in Reachable /\ ~entry[x].dirty /\ entry[x].dbKey = id /\ id \in DOMAIN table
        BY <1>0, <1>3, <2>2, <3>1, <3>2, AllReachable DEF LineInv, JourneyInv, RowsFinal
      <4>2. table[id] = RowOf(entry[x], x)
        BY <4>1 DEF JourneyInv, TruthInv, CleanInv, CleanMeansSaved, Careful, Sound
      <4> QED  BY <1>3, <1>6, <1>10, <3>2, <4>2 DEF RowOf
    <3>3. CASE d # x
      BY <1>3, <1>8, <3>1, <3>3
    <3> QED  BY <3>2, <3>3
  <2> QED  BY <2>1, <2>2 DEF RowsFinal
<1> QED  BY <1>9, <1>11

LEMMA OnCallStateUpdateCourse ==
  ASSUME Careful, JourneyInv, OnCallStateUpdate
  PROVE  CallsOnCourse' /\ RowsFinal'
<1>0. Take("state") /\ LineInv /\ TrackInv /\ UNCHANGED call
  BY DEF OnCallStateUpdate, JourneyInv, TruthInv, LineInv
<1>1. PICK c \in DOMAIN entry : c = Head(evq).c
  BY <1>0, HeadIsCurrent
<1>2. /\ c \in DOMAIN call /\ active[Head(evq).key] = c /\ c # 0 /\ entry[c] \in Entry
      /\ StateOf(Head(evq).status) \in State
  BY <1>0, <1>1, HeadIsCurrent, TakeFields, EventFields, StateOfType
<1>3. CASE Head(evq).status = "IDLE"
  BY <1>0, <1>2, <1>3, IdleFinal DEF OnCallStateUpdate
<1>4. CASE Head(evq).status # "IDLE"
  <2>1. PICK e : e = SetState(entry[c], StateOf(Head(evq).status))
    OBVIOUS
  <2>2. SaveAs(c, e)
    BY <1>2, <1>4, <2>1 DEF OnCallStateUpdate
  <2>3. e \in Entry /\ e.dbKey = entry[c].dbKey
    BY <1>2, <2>1, SetStateType
  <2>4. OnCourse(c, e)'
    BY <1>0, <1>1, <1>4, <2>1, StatusOnCourse
  <2> QED  BY <1>0, <1>1, <1>2, <2>2, <2>3, <2>4, SaveOnCourse
<1> QED  BY <1>3, <1>4

\* Names and numbers change nothing about the course.
LEMMA NamingOnCourse ==
  ASSUME Careful, JourneyInv, NEW kind, Take(kind), kind # "state", UNCHANGED call,
         NEW c \in DOMAIN entry, NEW e \in Entry, SaveAs(c, e), SameCourse(entry[c], e),
         e.dbKey = entry[c].dbKey
  PROVE  CallsOnCourse' /\ RowsFinal'
<1>1. TrackInv /\ c \in DOMAIN call
  BY CallFacts DEF JourneyInv, TruthInv, LineInv
<1>2. Course(c) /\ InOrder(c) /\ OnCourse(c, entry[c])
  BY <1>1 DEF JourneyInv, CallsOnCourse, EntryFor
<1>3. OnCourse(c, e)
  BY <1>2 DEF OnCourse, SameCourse
<1>4. OnCourse(c, e)'
  BY <1>1, <1>2, <1>3, PassCourse
<1> QED  BY <1>1, <1>4, SaveOnCourse

LEMMA OnCallInfoUpdateCourse ==
  ASSUME Careful, JourneyInv, OnCallInfoUpdate
  PROVE  CallsOnCourse' /\ RowsFinal'
<1>0. Take("info") /\ LineInv /\ TrackInv /\ UNCHANGED call
  BY DEF OnCallInfoUpdate, JourneyInv, TruthInv, LineInv
<1>1. PICK c \in DOMAIN entry : c = active[Head(evq).key]
  BY <1>0, HeadIsCurrent
<1>2. PICK info \in Info : info = Head(evq).info
  BY <1>0, TakeFields, EventFields
<1>3. c # 0 /\ entry[c] \in Entry /\ info.called \in Raw \cup {NoRaw} /\ info.caller \in Raw \cup {NoRaw}
  BY <1>0, TakeFields DEF Info
<1>4. PICK e : e = WithCaller(WithCalled(WithNames(entry[c], info), info.called).e, info.caller).e
  OBVIOUS
<1>5. SaveAs(c, e)
  BY <1>1, <1>2, <1>3, <1>4 DEF OnCallInfoUpdate
<1> DEFINE named == WithNames(entry[c], info)
           called == WithCalled(named, info.called)
<1>6. named \in Entry /\ named.dbKey = entry[c].dbKey /\ SameCourse(entry[c], named)
  BY <1>3, WithNamesType, NamingKeepsCourse
<1> HIDE DEF named
<1>7. called.e \in Entry /\ called.e.dbKey = named.dbKey /\ SameCourse(named, called.e)
  BY <1>3, <1>6, WithCalledType, NamingKeepsCourse
<1>8. e = WithCaller(called.e, info.caller).e
  BY <1>4 DEF named
<1> HIDE DEF called
<1>9. e \in Entry /\ e.dbKey = called.e.dbKey /\ SameCourse(called.e, e)
  BY <1>3, <1>7, <1>8, WithCallerType, NamingKeepsCourse
<1>10. e.dbKey = entry[c].dbKey /\ SameCourse(entry[c], e)
  BY <1>6, <1>7, <1>9 DEF SameCourse
<1> QED  BY <1>0, <1>5, <1>9, <1>10, NamingOnCourse

LEMMA OnResolverResponseCourse ==
  ASSUME Careful, JourneyInv, OnResolverResponse
  PROVE  CallsOnCourse' /\ RowsFinal'
<1>0. Take("resolved") /\ TrackInv /\ UNCHANGED call
  BY DEF OnResolverResponse, JourneyInv, TruthInv, LineInv
<1>1. PICK key \in Nat, side \in Side, name \in Label :
        key = Head(evq).dbKey /\ side = Head(evq).side /\ name = Head(evq).name
  BY <1>0, TakeFields, EventFields DEF Label
<1>2. active \in [Key -> DOMAIN entry \cup {0}] /\ \A d \in DOMAIN entry : entry[d] \in Entry
  BY <1>0, TakeFields
<1>3. CASE Holders(key) # {}
  <2>1. PICK c \in DOMAIN entry : c = active[FirstHolder(key)]
    BY <1>2, <1>3, FirstHolderHolds DEF Holders
  <2>2. SaveAs(c, Named(entry[c], side, name))
    BY <1>1, <1>3, <2>1 DEF OnResolverResponse
  <2>3. entry[c] \in Entry
    BY <1>2
  <2>4. /\ Named(entry[c], side, name) \in Entry
        /\ Named(entry[c], side, name).dbKey = entry[c].dbKey
        /\ SameCourse(entry[c], Named(entry[c], side, name))
    BY <2>3, NamedType, NamingKeepsCourse
  <2> QED  BY <1>0, <2>2, <2>4, NamingOnCourse
<1>4. CASE Holders(key) = {}
  <2>1. UNCHANGED entry
    BY <1>1, <1>4 DEF OnResolverResponse
  <2>2. DOMAIN table' = DOMAIN table
        /\ \A i \in DOMAIN table : /\ table'[i].call = table[i].call
                                   /\ table'[i].result = table[i].result
                                   /\ table'[i].timed = table[i].timed
    <3>1. CASE key \in DOMAIN table
      <4> DEFINE row == table[key]
                 e == Named(EntryOf(row, key), side, name)
      <4>1. DbType(table, nextcallid) /\ row \in Row /\ row.call \in Call /\ key \in Id
        BY <1>0, <3>1 DEF TrackInv, TypeOK, DbType, Row
      <4>2. EntryOf(row, key) \in Entry
        BY <4>1, EntryOfType
      <4>3. e \in Entry /\ e.dbKey = key /\ e.dbKey # 0 /\ SameCourse(EntryOf(row, key), e)
        BY <4>1, <4>2, EntryOfType, NamedType, NamingKeepsCourse DEF Id
      <4>4. e.result = row.result /\ e.timed = row.timed
        BY <4>3 DEF SameCourse, EntryOf
      <4>5. PICK s \in Saved(e, row.call) : table' = s.t /\ nextcallid' = s.next
        BY <1>1, <1>4, <3>1 DEF OnResolverResponse, Careful, Sound
      <4> HIDE DEF e
      <4>6. Untouched(s, e) \/ Rewritten(s, e)
        BY <4>1, <4>3, <4>5, SavedCases DEF NewRow, Careful, Sound
      <4>7. SameRow(e, s.e)
        BY <4>6 DEF Untouched, Rewritten
      <4>8. RowOf(s.e, row.call) = RowOf(e, row.call)
        BY <4>7 DEF SameRow
      <4>9. s.e.result = row.result /\ s.e.timed = row.timed
        BY <4>4, <4>8 DEF RowOf
      <4> QED  BY <4>3, <4>5, <4>6, <4>9 DEF Untouched, Rewritten, RowOf
    <3>2. CASE key \notin DOMAIN table
      BY <1>1, <1>4, <3>2 DEF OnResolverResponse, dbVars
    <3> QED  BY <3>1, <3>2
  <2>3. ASSUME NEW d \in DOMAIN call
        PROVE  /\ Course(d)' /\ InOrder(d)'
               /\ d \in DOMAIN entry' \/ Pending(d)' # {} => OnCourse(d, EntryFor(d))'
    <3>1. Course(d) /\ InOrder(d)
          /\ (d \in DOMAIN entry \/ Pending(d) # {} => OnCourse(d, EntryFor(d)))
      BY DEF JourneyInv, CallsOnCourse
    <3>2. PICK g : g = EntryFor(d)
      OBVIOUS
    <3>3. EntryFor(d)' = g
      BY <2>1, <3>2 DEF EntryFor
    <3>4. OnCourse(d, g) => OnCourse(d, g)'
      BY <1>0, <3>1, PassCourse
    <3>5. Course(d)' /\ InOrder(d)'
      BY <1>0, <3>1, PassCourse
    <3>6. Pending(d) = {} => Pending(d)' = {}
      BY <1>0, PendingTake
    <3> QED  BY <2>1, <3>1, <3>2, <3>3, <3>4, <3>5, <3>6
  <2>4. RowsFinal'
    <3>1. \A d : Pending(d) = {} => Pending(d)' = {}
      BY <1>0, PendingTake
    <3>2. ASSUME NEW id \in DOMAIN table', NEW d, d = table'[id].call
          PROVE  IF d \in DOMAIN entry' THEN entry'[d].dbKey = id
                 ELSE Pending(d)' = {} /\ table'[id].result = call'[d].outcome
                      /\ table'[id].timed = call'[d].hungup
      <4>1. IF d \in DOMAIN entry THEN entry[d].dbKey = id
            ELSE Pending(d) = {} /\ table[id].result = call[d].outcome
                 /\ table[id].timed = call[d].hungup
        BY <2>2, <3>2 DEF JourneyInv, RowsFinal
      <4> QED  BY <1>0, <2>1, <2>2, <3>1, <3>2, <4>1
    <3> QED  BY <2>1, <3>2 DEF RowsFinal, JourneyInv
  <2> QED  BY <1>0, <2>3, <2>4 DEF CallsOnCourse
<1> QED  BY <1>3, <1>4

\* A provider's report brings one event and the call it is about in step.
LEMMA ReportOnCourse ==
  ASSUME TrackInv, NEW c \in DOMAIN call, NEW t \in TrueCall, NEW ev \in Event,
         Reported(c, t, ev), NEW e, Course(c), InOrder(c), OnCourse(c, e)
  PROVE  Course(c)' /\ InOrder(c)' /\ OnCourse(c, e)'
<1>1. /\ call[c] \in TrueCall /\ call \in Seq(TrueCall)
      /\ evq' = Append(evq, ev) /\ call' = [call EXCEPT ![c] = t]
      /\ t.type = call[c].type /\ call[c].phase \notin Ended /\ ev.c = c /\ Told(c, t, ev)
  BY CallFacts DEF Reported
<1>2. call'[c] = t
  BY <1>1
<1>3. PICK t0 \in TrueCall : t0 = call[c]
  BY <1>1
<1>4. /\ t0.phase \in Phase /\ t0.outcome \in {"NOTREACHED", "OK", "BUSY"} /\ t0.hungup \in BOOLEAN
      /\ t.phase \in Phase /\ t.outcome \in {"NOTREACHED", "OK", "BUSY"} /\ t.hungup \in BOOLEAN
  BY <1>3 DEF TrueCall
<1>5. \A s : Says(c, s)' <=> Says(c, s) \/ (ev.kind = "state" /\ ev.status = s)
  BY <1>1, SaysPost
<1>0. PICK n : n = Len(evq) + 1
  OBVIOUS
<1>6. /\ Pending(c)' = Pending(c) \cup (IF ev.kind # "resolved" THEN {n} ELSE {})
      /\ \A i \in Pending(c) : evq'[i] = evq[i] /\ i < n
      /\ evq'[n] = ev
  <2>1. evq \in Seq(Event) /\ Len(evq) \in Nat /\ DOMAIN evq = 1..Len(evq)
    BY LenProperties DEF TrackInv, TypeOK
  <2>2. \A i \in Pending(c) : i < n
    BY <1>0, <2>1 DEF Pending
  <2>3. evq'[n] = ev
    BY <1>0, <1>1, <2>1, AppendOf
  <2> QED  BY <1>0, <1>1, <2>2, <2>3, PendingPost
<1>7. ASSUME /\ ev.kind = "state" /\ ev.status = "RINGBACK" => ~Says(c, "CONNECTED") /\ ~Says(c, "BUSY")
             /\ ev.kind = "state" /\ ev.status = "CONNECTED" => ~Says(c, "DISCONNECTED")
      PROVE  InOrder(c)'
  <2> SUFFICES ASSUME NEW i \in Pending(c)', NEW j \in Pending(c)'
               PROVE  /\ Word(i, "RINGBACK")' /\ (Word(j, "CONNECTED")' \/ Word(j, "BUSY")') => i < j
                      /\ Word(i, "CONNECTED")' /\ Word(j, "DISCONNECTED")' => i < j
    BY DEF InOrder
  <2>1. /\ \A k \in Pending(c) : \A s : Word(k, s)' <=> Word(k, s)
        /\ \A s : Word(n, s)' <=> ev.kind = "state" /\ ev.status = s
    BY <1>6 DEF Word
  <2>2. /\ i \in Pending(c) \/ i = n
        /\ j \in Pending(c) \/ j = n
    BY <1>6
  <2>3. CASE i \in Pending(c) /\ j \in Pending(c)
    BY <2>1, <2>3 DEF InOrder
  <2>4. CASE i \in Pending(c) /\ j = n
    BY <1>6, <2>4
  <2>5. CASE i = n /\ j \in Pending(c)
    <3>1. \A s : Word(j, s) => Says(c, s)
      BY <2>5 DEF Says
    <3> QED  BY <1>7, <2>1, <2>5, <3>1
  <2>6. CASE i = n /\ j = n
    BY <2>1, <2>6
  <2> QED  BY <2>2, <2>3, <2>4, <2>5, <2>6
<1>8. CASE ev.kind = "info"
  <2>1. t = t0
    BY <1>1, <1>3, <1>8 DEF Told
  <2>2. \A s : Says(c, s)' <=> Says(c, s)
    BY <1>5, <1>8
  <2> QED  BY <1>2, <1>3, <1>7, <1>8, <2>1, <2>2 DEF Course, OnCourse
<1>9. CASE ev.kind = "state" /\ ev.status = "IDLE"
  <2>1. t.phase = "gone" /\ t.outcome = t0.outcome /\ t.hungup = t0.hungup
    BY <1>1, <1>3, <1>9 DEF Told, PhaseAfter
  <2>2. \A s : s # "IDLE" => (Says(c, s)' <=> Says(c, s))
    BY <1>5, <1>9
  <2> QED  BY <1>1, <1>2, <1>3, <1>7, <1>9, <2>1, <2>2 DEF Course, OnCourse
<1>10. ASSUME ev.kind = "state", ev.status \in DOMAIN PhaseAfter
       PROVE  Course(c)' /\ InOrder(c)' /\ OnCourse(c, e)'
  <2> DEFINE s == ev.status
  <2>1. /\ s \in {"RINGBACK", "BUSY", "CONNECTED", "ONHOLD", "DISCONNECTED"} /\ MayReport(t0, s)
        /\ t.phase = PhaseAfter[s]
        /\ t.outcome = (IF s = "CONNECTED" THEN "OK" ELSE IF s = "BUSY" THEN "BUSY" ELSE t0.outcome)
        /\ t.hungup = (s = "DISCONNECTED" /\ t0.outcome = "OK")
    BY <1>1, <1>3, <1>10 DEF Told, PhaseAfter
  <2>2. \A w : Says(c, w)' <=> Says(c, w) \/ w = s
    BY <1>5, <1>10
  <2> HIDE DEF s
  <2>3. /\ Course(c) /\ OnCourse(c, e) /\ call[c] = t0 /\ call'[c] = t
        /\ t.type = t0.type
    BY <1>1, <1>2, <1>3
  <2>4. CASE s = "RINGBACK"
    <3>1. t0.phase = "ringing" /\ t.phase = "ringing" /\ t.outcome = t0.outcome /\ ~t.hungup
      BY <2>1, <2>4 DEF MayReport, PhaseAfter
    <3>2. Course(c)' /\ OnCourse(c, e)' /\ ~Says(c, "CONNECTED") /\ ~Says(c, "BUSY")
      BY <1>4, <2>2, <2>3, <2>4, <3>1 DEF Course, OnCourse
    <3> QED  BY <1>7, <2>4, <3>2 DEF s
  <2>5. CASE s = "BUSY"
    <3>1. t0.phase = "ringing" /\ t0.type = "OUTGOING" /\ t.phase = "busy" /\ t.outcome = "BUSY" /\ ~t.hungup
      BY <2>1, <2>5 DEF MayReport, PhaseAfter
    <3>2. Course(c)' /\ OnCourse(c, e)'
      BY <1>4, <2>2, <2>3, <2>5, <3>1 DEF Course, OnCourse
    <3> QED  BY <1>7, <2>5, <3>2 DEF s
  <2>6. CASE s = "CONNECTED"
    <3>1. t0.phase \in {"ringing", "held"} /\ t.phase = "up" /\ t.outcome = "OK" /\ ~t.hungup
      BY <2>1, <2>6 DEF MayReport, PhaseAfter
    <3>2. Course(c)' /\ OnCourse(c, e)' /\ ~Says(c, "DISCONNECTED")
      BY <1>4, <2>2, <2>3, <2>6, <3>1 DEF Course, OnCourse
    <3> QED  BY <1>7, <2>6, <3>2 DEF s
  <2>7. CASE s = "ONHOLD"
    <3>1. t0.phase = "up" /\ t.phase = "held" /\ t.outcome = t0.outcome /\ ~t.hungup
      BY <2>1, <2>7 DEF MayReport, PhaseAfter
    <3>2. Course(c)' /\ OnCourse(c, e)'
      BY <1>4, <2>2, <2>3, <2>7, <3>1 DEF Course, OnCourse
    <3> QED  BY <1>7, <2>7, <3>2 DEF s
  <2>8. CASE s = "DISCONNECTED"
    <3>1. t0.phase \in {"ringing", "busy", "up", "held"} /\ t.phase = "over"
          /\ t.outcome = t0.outcome /\ t.hungup = (t0.outcome = "OK")
      BY <2>1, <2>8 DEF MayReport, PhaseAfter
    <3>2. Course(c)' /\ OnCourse(c, e)'
      BY <1>4, <2>2, <2>3, <2>8, <3>1 DEF Course, OnCourse
    <3> QED  BY <1>7, <2>8, <3>2 DEF s
  <2> QED  BY <2>1, <2>4, <2>5, <2>6, <2>7, <2>8
<1> QED  BY <1>1, <1>8, <1>9, <1>10 DEF Told

LEMMA ReportedCourse ==
  ASSUME JourneyInv, NEW c \in DOMAIN call, NEW t \in TrueCall, NEW ev \in Event,
         Reported(c, t, ev)
  PROVE  CallsOnCourse' /\ RowsFinal' /\ ev \in KnownEvent
<1>1. /\ TrackInv /\ call[c] \in TrueCall /\ call \in Seq(TrueCall)
      /\ evq' = Append(evq, ev) /\ call' = [call EXCEPT ![c] = t] /\ ev.c = c
      /\ UNCHANGED <<entry, table>> /\ call[c].phase # "gone" /\ Told(c, t, ev)
  BY CallFacts DEF Reported, JourneyInv, TruthInv, LineInv, entryVars, dbVars, Ended
<1>2. DOMAIN call' = DOMAIN call /\ \A d \in DOMAIN call : d # c => call'[d] = call[d]
  BY <1>1
<1>3. c \in DOMAIN entry \/ Pending(c) # {}
  BY <1>1 DEF JourneyInv, TruthInv, LineInv, NewComes
<1>4. \A d : EntryFor(d)' = EntryFor(d)
  BY <1>1 DEF EntryFor
<1>5. \A d : /\ d # c => Pending(d)' = Pending(d)
             /\ \A i \in Pending(d) : evq'[i] = evq[i]
  BY <1>1, PendingPost
<1>6. \A d, s : d # c => (Says(d, s)' <=> Says(d, s))
  BY <1>1, SaysPost
<1>7. CallsOnCourse'
  <2> SUFFICES ASSUME NEW d \in DOMAIN call
               PROVE  /\ Course(d)' /\ InOrder(d)'
                      /\ d \in DOMAIN entry' \/ Pending(d)' # {} => OnCourse(d, EntryFor(d))'
    BY <1>2 DEF CallsOnCourse
  <2>1. Course(d) /\ InOrder(d) /\ (d \in DOMAIN entry \/ Pending(d) # {} => OnCourse(d, EntryFor(d)))
    BY DEF JourneyInv, CallsOnCourse
  <2>2. PICK e : e = EntryFor(d) /\ e = EntryFor(d)'
    BY <1>4
  <2>3. CASE d = c
    <3>1. OnCourse(c, e)
      BY <1>3, <2>1, <2>2, <2>3
    <3>2. Course(c)' /\ InOrder(c)' /\ OnCourse(c, e)'
      BY <1>1, <2>1, <2>3, <3>1, ReportOnCourse
    <3> QED  BY <2>2, <2>3, <3>2
  <2>4. CASE d # c
    <3>1. call'[d] = call[d] /\ Pending(d)' = Pending(d) /\ \A s : Says(d, s)' <=> Says(d, s)
      BY <1>2, <1>5, <1>6, <2>4
    <3>2. Course(d)' /\ (OnCourse(d, e) => OnCourse(d, e)')
      BY <2>1, <3>1 DEF Course, OnCourse
    <3>3. \A i \in Pending(d) : \A s : Word(i, s)' <=> Word(i, s)
      BY <1>5 DEF Word
    <3>4. InOrder(d)'
      BY <2>1, <3>1, <3>3 DEF InOrder
    <3> QED  BY <1>1, <2>1, <2>2, <3>1, <3>2, <3>4
  <2> QED  BY <2>3, <2>4
<1>8. RowsFinal'
  <2>1. ASSUME NEW id \in DOMAIN table', NEW d, d = table'[id].call
        PROVE  IF d \in DOMAIN entry' THEN entry'[d].dbKey = id
               ELSE Pending(d)' = {} /\ table'[id].result = call'[d].outcome
                    /\ table'[id].timed = call'[d].hungup
    <3>1. IF d \in DOMAIN entry THEN entry[d].dbKey = id
          ELSE Pending(d) = {} /\ table[id].result = call[d].outcome
               /\ table[id].timed = call[d].hungup
      BY <1>1, <2>1 DEF JourneyInv, RowsFinal
    <3>2. d \in DOMAIN call
      BY <1>1, <2>1 DEF JourneyInv, TruthInv, TrueRows
    <3> QED  BY <1>1, <1>2, <1>3, <1>5, <3>1, <3>2
  <2>2. \A d \in DOMAIN entry' : ~entry'[d].dirty
    BY <1>1 DEF RowsFinal, JourneyInv
  <2> QED  BY <2>1, <2>2 DEF RowsFinal
<1>9. ev \in KnownEvent
  BY <1>1 DEF Told, KnownEvent
<1> QED  BY <1>7, <1>8, <1>9

\* A new call: nothing has been said of it yet.
LEMMA AnnouncedCourse ==
  ASSUME JourneyInv, NEW k \in Key, NEW t \in TrueCall, NEW ev \in Event,
         Announced(k, t, ev)
  PROVE  CallsOnCourse' /\ RowsFinal' /\ ev \in KnownEvent
<1>0. PICK m : m = Len(call) + 1
  OBVIOUS
<1>1. /\ TrackInv /\ call \in Seq(TrueCall) /\ DOMAIN entry \subseteq DOMAIN call
      /\ evq' = Append(evq, ev) /\ call' = Append(call, t) /\ ev.c = m /\ ev.kind = "new"
      /\ UNCHANGED <<entry, table>>
      /\ t.phase = "ringing" /\ t.outcome = "NOTREACHED" /\ ~t.hungup
      /\ ev.status = FirstStatus(t.type)
  BY <1>0, CallFacts DEF Announced, JourneyInv, TruthInv, LineInv, entryVars, dbVars
<1>2. /\ DOMAIN call' = DOMAIN call \cup {m} /\ m \notin DOMAIN call /\ call'[m] = t
      /\ \A d \in DOMAIN call : call'[d] = call[d]
  BY <1>0, <1>1, AppendOf
<1>3. m \notin DOMAIN entry /\ Pending(m) = {}
  BY <1>1, <1>2 DEF JourneyInv, TruthInv, LineInv, EventsFit, Pending
<1>4. \A d : EntryFor(d)' = EntryFor(d)
  BY <1>1 DEF EntryFor
<1>5. \A d : /\ d # m => Pending(d)' = Pending(d)
             /\ \A i \in Pending(d) : evq'[i] = evq[i]
  BY <1>1, PendingPost
<1>6. \A d, s : Says(d, s)' <=> Says(d, s)
  BY <1>1, SaysPost
<1>7. \A s : ~Says(m, s)'
  <2>1. \A s : ~Says(m, s)
    BY <1>3 DEF Says
  <2> QED  BY <1>6, <2>1
<1>8. ASSUME NEW d \in DOMAIN call
      PROVE  /\ Course(d)' /\ InOrder(d)'
             /\ d \in DOMAIN entry' \/ Pending(d)' # {} => OnCourse(d, EntryFor(d))'
  <2>1. Course(d) /\ InOrder(d)
        /\ (d \in DOMAIN entry \/ Pending(d) # {} => OnCourse(d, EntryFor(d)))
    BY DEF JourneyInv, CallsOnCourse
  <2>2. PICK e : e = EntryFor(d) /\ e = EntryFor(d)'
    BY <1>4
  <2>3. call'[d] = call[d] /\ Pending(d)' = Pending(d) /\ \A s : Says(d, s)' <=> Says(d, s)
    BY <1>2, <1>5, <1>6
  <2>4. Course(d)' /\ (OnCourse(d, e) => OnCourse(d, e)')
    BY <2>1, <2>3 DEF Course, OnCourse
  <2>5. \A i \in Pending(d) : \A s : Word(i, s)' <=> Word(i, s)
    BY <1>5 DEF Word
  <2>6. InOrder(d)'
    BY <2>1, <2>3, <2>5 DEF InOrder
  <2> QED  BY <1>1, <2>1, <2>2, <2>3, <2>4, <2>6
<1>9. Course(m)' /\ InOrder(m)' /\ OnCourse(m, EntryFor(m))'
  <2>1. Course(m)'
    BY <1>1, <1>2, <1>7 DEF Course
  <2>2. InOrder(m)'
    BY <1>7 DEF InOrder, Says
  <2>3. OnCourse(m, Fresh)'
    BY <1>1, <1>2, <1>7 DEF OnCourse, Fresh
  <2>4. EntryFor(m)' = Fresh
    BY <1>3, <1>4 DEF EntryFor
  <2>5. OnCourse(m, EntryFor(m))'
    <3>1. PICK f : f = Fresh
      OBVIOUS
    <3>2. OnCourse(m, f)'
      BY <2>3, <3>1 DEF Fresh
    <3> QED  BY <2>4, <3>1, <3>2
  <2> QED  BY <2>1, <2>2, <2>5
<1>10. CallsOnCourse'
  BY <1>2, <1>8, <1>9 DEF CallsOnCourse
<1>11. RowsFinal'
  <2>1. ASSUME NEW id \in DOMAIN table', NEW d, d = table'[id].call
        PROVE  IF d \in DOMAIN entry' THEN entry'[d].dbKey = id
               ELSE Pending(d)' = {} /\ table'[id].result = call'[d].outcome
                    /\ table'[id].timed = call'[d].hungup
    <3>1. IF d \in DOMAIN entry THEN entry[d].dbKey = id
          ELSE Pending(d) = {} /\ table[id].result = call[d].outcome
               /\ table[id].timed = call[d].hungup
      BY <1>1, <2>1 DEF JourneyInv, RowsFinal
    <3>2. d \in DOMAIN call
      BY <1>1, <2>1 DEF JourneyInv, TruthInv, TrueRows
    <3> QED  BY <1>1, <1>2, <1>5, <3>1, <3>2
  <2>2. \A d \in DOMAIN entry' : ~entry'[d].dirty
    BY <1>1 DEF RowsFinal, JourneyInv
  <2> QED  BY <2>1, <2>2 DEF RowsFinal
<1>12. ev \in KnownEvent
  BY <1>1 DEF KnownEvent, FirstStatus, StateOf
<1> QED  BY <1>10, <1>11, <1>12

\* What the line says is not changed by a step that leaves calls, entries,
\* rows and what the queue says of calls alone.
LEMMA ElsewhereCourse ==
  ASSUME JourneyInv, UNCHANGED <<call, entry, table>>,
         UNCHANGED evq \/ \E ev \in Event : ev.kind = "resolved" /\ evq' = Append(evq, ev)
  PROVE  CallsOnCourse' /\ RowsFinal' /\ evq' \in Seq(KnownEvent)
<1>1. TrackInv /\ evq \in Seq(KnownEvent)
  BY DEF JourneyInv, TruthInv, LineInv
<1>2. evq' \in Seq(KnownEvent)
  BY <1>1, AppendOf DEF KnownEvent
<1>3. \A d : Pending(d)' = Pending(d) /\ \A i \in Pending(d) : evq'[i] = evq[i]
  <2>1. CASE UNCHANGED evq
    BY <2>1 DEF Pending
  <2>2. CASE \E ev \in Event : ev.kind = "resolved" /\ evq' = Append(evq, ev)
    BY <1>1, <2>2, PendingPost
  <2> QED  BY <2>1, <2>2
<1>4. \A d, i, s : i \in Pending(d) => (Word(i, s)' <=> Word(i, s))
  BY <1>3 DEF Word
<1>5. \A d, s : Says(d, s)' <=> Says(d, s)
  BY <1>3, <1>4 DEF Says
<1>6. CallsOnCourse'
  <2> SUFFICES ASSUME NEW d \in DOMAIN call
               PROVE  /\ Course(d)' /\ InOrder(d)'
                      /\ d \in DOMAIN entry' \/ Pending(d)' # {} => OnCourse(d, EntryFor(d))'
    BY DEF CallsOnCourse
  <2>1. Course(d) /\ InOrder(d) /\ (d \in DOMAIN entry \/ Pending(d) # {} => OnCourse(d, EntryFor(d)))
    BY DEF JourneyInv, CallsOnCourse
  <2>2. PICK e : e = EntryFor(d) /\ e = EntryFor(d)'
    BY DEF EntryFor
  <2>3. Course(d)' /\ (OnCourse(d, e) => OnCourse(d, e)')
    BY <1>5, <2>1 DEF Course, OnCourse
  <2>4. InOrder(d)'
    BY <1>3, <1>4, <2>1 DEF InOrder
  <2> QED  BY <1>3, <2>1, <2>2, <2>3, <2>4
<1>7. RowsFinal'
  BY <1>3 DEF RowsFinal, JourneyInv
<1> QED  BY <1>2, <1>6, <1>7

LEMMA NextJourney ==
  ASSUME Careful, JourneyInv, [Next]_vars
  PROVE  JourneyInv'
<1>1. TruthInv'
  BY NextTruth DEF Careful, JourneyInv
<1>2. CASE Provider
  <2>1. ASSUME NEW ev \in KnownEvent, evq' = Append(evq, ev)
        PROVE  evq' \in Seq(KnownEvent)
    BY <2>1, AppendOf DEF JourneyInv
  <2>2. ASSUME NEW c \in DOMAIN call, NEW t \in TrueCall, NEW ev \in Event, Reported(c, t, ev)
        PROVE  JourneyInv'
    BY <1>1, <2>1, <2>2, ReportedCourse DEF Reported, JourneyInv
  <2>3. ASSUME NEW k \in Key, NEW t \in TrueCall, NEW ev \in Event, Announced(k, t, ev)
        PROVE  JourneyInv'
    BY <1>1, <2>1, <2>3, AnnouncedCourse DEF Announced, JourneyInv
  <2>4. TrackInv /\ ~MayLose
    BY DEF JourneyInv, TruthInv, LineInv, Careful, Sound
  <2> QED  BY <1>2, <2>2, <2>3, <2>4, ProviderCases
<1>3. CASE ResolverServe
  <2> DEFINE r == Head(reqs)
             answer(name) == [kind |-> "resolved", dbKey |-> r.dbKey, side |-> r.side,
                              name |-> name]
  <2>1. r \in Request
    BY <1>3, TailOf DEF ResolverServe, JourneyInv, TruthInv, TrueRequest
  <2>2. ASSUME NEW name \in Answers(r)
        PROVE  answer(name) \in Event /\ answer(name).kind = "resolved"
    <3>1. name \in Name
      BY <2>1, <2>2, TrackingAssumption, EmptyAssumption
         DEF Answers, TrackingAssumption, Label, Request, EmptyAssumption
    <3> QED  BY <2>1, <3>1 DEF Event, Request
  <2>3. UNCHANGED <<call, entry, table>>
        /\ (UNCHANGED evq \/ \E name \in Answers(r) : evq' = Append(evq, answer(name)))
    BY <1>3 DEF ResolverServe, entryVars, dbVars
  <2> HIDE DEF answer, r
  <2> QED  BY <1>1, <2>2, <2>3, ElsewhereCourse DEF JourneyInv
<1>4. CASE Gui
  <2>1. CallsOnCourse' /\ RowsFinal'
    BY <1>4, OnNewCallCourse, OnCallStateUpdateCourse, OnCallInfoUpdateCourse,
       OnResolverResponseCourse DEF Gui
  <2>2. \E kind : Take(kind)
    BY <1>4 DEF Gui, OnNewCall, OnCallStateUpdate, OnCallInfoUpdate, OnResolverResponse
  <2>3. evq' \in Seq(KnownEvent)
    BY <2>2, KnownTake
  <2> QED  BY <1>1, <2>1, <2>3 DEF JourneyInv
<1>5. CASE UNCHANGED vars
  <2>1. UNCHANGED <<call, entry, table>> /\ UNCHANGED evq
    BY <1>5 DEF vars, lineVars, entryVars, dbVars
  <2> QED  BY <1>1, <2>1, ElsewhereCourse DEF JourneyInv
<1> QED  BY <1>2, <1>3, <1>4, <1>5 DEF Next

LEMMA InitJourney == Init => JourneyInv
<1> SUFFICES ASSUME Init PROVE JourneyInv
  OBVIOUS
<1>1. evq = <<>> /\ DOMAIN call = {} /\ DOMAIN entry = {} /\ DOMAIN table = {}
  BY DEF Init
<1> QED  BY <1>1, InitTruth, EmptySeq DEF JourneyInv, CallsOnCourse, RowsFinal

(* Once all events of a call are handled, its row tells how the call went: *)
(* missed, answered or busy, and with a duration if its end was reported.  *)
(* The providers must report the end of every call, and of the database    *)
(* only purging may fail: the last save of a call is not repeated.         *)
THEOREM JournalTellsTruthHolds ==
  ASSUME ~MayLose, {"begin", "insert", "update"} \cap Faults = {}
  PROVE  Spec => []JournalTellsTruth
<1>1. CASE DbOk
  <2>1. JourneyInv => JournalTellsTruth
    <3> SUFFICES ASSUME JourneyInv, NEW id \in DOMAIN table, NEW c, c = table[id].call,
                        Pending(c) = {}
                 PROVE  table[id].result = call[c].outcome /\ table[id].timed = call[c].hungup
      BY DEF JournalTellsTruth
    <3>1. IF c \in DOMAIN entry THEN entry[c].dbKey = id
          ELSE table[id].result = call[c].outcome /\ table[id].timed = call[c].hungup
      BY DEF JourneyInv, RowsFinal
    <3>2. CASE c \in DOMAIN entry
      <4>1. TrackInv /\ InTheMap /\ c \in DOMAIN call
        BY <3>2, CallFacts DEF JourneyInv, TruthInv, LineInv
      <4>2. c \in Reachable /\ ~entry[c].dirty
        BY <3>2, <4>1, AllReachable DEF JourneyInv, RowsFinal
      <4>3. table[id] = RowOf(entry[c], c)
        BY <1>1, <3>1, <3>2, <4>2 DEF JourneyInv, TruthInv, CleanInv, CleanMeansSaved
      <4>4. OnCourse(c, entry[c])
        BY <3>2, <4>1 DEF JourneyInv, CallsOnCourse, EntryFor
      <4>5. call[c] \in TrueCall /\ entry[c] \in Entry
        BY <3>2, <4>1, CallFacts DEF TrackInv, TypeOK
      <4>6. /\ call[c].outcome \in {"NOTREACHED", "OK", "BUSY"} /\ call[c].hungup \in BOOLEAN
            /\ entry[c].timed \in BOOLEAN
        BY <4>5 DEF TrueCall, Entry
      <4>7. \A s : ~Says(c, s)
        BY DEF Says
      <4>8. entry[c].result = call[c].outcome /\ entry[c].timed = call[c].hungup
        BY <4>4, <4>6, <4>7 DEF OnCourse
      <4> QED  BY <4>3, <4>8 DEF RowOf
    <3> QED  BY <3>1, <3>2
  <2>2. JourneyInv /\ [Next]_vars => JourneyInv'
    BY <1>1, NextJourney DEF Careful, Sound
  <2> QED  BY <2>1, <2>2, InitJourney, PTL DEF Spec
<1>2. CASE ~DbOk
  <2>1. Spec => [](TrackInv /\ DOMAIN table = {})
    BY <1>2, NoDatabase
  <2>2. TrackInv /\ DOMAIN table = {} => JournalTellsTruth
    BY DEF JournalTellsTruth
  <2> QED  BY <2>1, <2>2, PTL
<1> QED  BY <1>1, <1>2
==============================================================================

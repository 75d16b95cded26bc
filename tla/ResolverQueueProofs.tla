------------------------- MODULE ResolverQueueProofs -------------------------
(* Theorems about ResolverQueue, for any set of resolvers, numbers and     *)
(* requests.                                                               *)
EXTENDS ResolverQueue, SequenceTheorems, TLAPS

----------------------------------------------------------------------------
(* The edits of the list.                                                  *)

Distinct(s) == \A i, j \in 1..Len(s) : s[i] = s[j] => i = j

(* Exchanging two neighbours gives a list of the same resolvers.           *)
LEMMA SwapKeepsList ==
  ASSUME NEW S, NEW s \in Seq(S), Distinct(s), NEW i \in 1..(Len(s) - 1)
  PROVE  Swapped(s, i) \in Seq(S) /\ Distinct(Swapped(s, i))
<1> DEFINE t == Swapped(s, i)
<1>1. i \in 1..Len(s) /\ i + 1 \in 1..Len(s) /\ i \in Nat /\ Len(s) \in Nat
  OBVIOUS
<1>2. t \in Seq(S) /\ Len(t) = Len(s)
  BY <1>1, ExceptSeq, ElementOfSeq DEF Swapped
<1>3. \A k \in 1..Len(t) : t[k] = s[IF k = i THEN i + 1 ELSE IF k = i + 1 THEN i ELSE k]
  BY <1>1, <1>2 DEF Swapped
<1>4. Distinct(t)
  BY <1>1, <1>2, <1>3 DEF Distinct
<1>5. QED
  BY <1>2, <1>4

(* Taking one entry out of the list leaves the others in their order.      *)
LEMMA WithoutKeepsList ==
  ASSUME NEW S, NEW s \in Seq(S), Distinct(s), NEW i \in 1..Len(s)
  PROVE  Without(s, i) \in Seq(S) /\ Distinct(Without(s, i))
<1> DEFINE a == SubSeq(s, 1, i - 1)
           b == SubSeq(s, i + 1, Len(s))
<1>1. i \in Nat /\ i >= 1 /\ i <= Len(s) /\ Len(s) \in Nat
  OBVIOUS
<1>2. /\ a \in Seq(S) /\ Len(a) = i - 1
      /\ \A k \in 1..(i - 1) : a[k] = s[k]
  <2>1. \A k \in 1..(i - 1) : s[k] \in S
    BY <1>1, ElementOfSeq
  <2>2. QED
    BY <2>1, <1>1, SubSeqProperties
<1>3. /\ b \in Seq(S) /\ Len(b) = Len(s) - i
      /\ \A k \in 1..(Len(s) - i) : b[k] = s[k + i]
  <2>1. \A k \in (i + 1)..Len(s) : s[k] \in S
    BY <1>1, ElementOfSeq
  <2>2. QED
    BY <2>1, <1>1, SubSeqProperties
<1>4. /\ Without(s, i) \in Seq(S) /\ Len(Without(s, i)) = Len(s) - 1
      /\ \A k \in 1..(Len(s) - 1) : Without(s, i)[k] = s[IF k < i THEN k ELSE k + 1]
  <2> HIDE DEF a, b
  <2>1. a \o b \in Seq(S) /\ Len(a \o b) = Len(a) + Len(b)
        /\ \A k \in 1..(Len(a) + Len(b)) : (a \o b)[k] = IF k <= Len(a) THEN a[k] ELSE b[k - Len(a)]
    BY <1>2, <1>3, ConcatProperties
  <2>2. Without(s, i) = a \o b
    BY DEF Without, a, b
  <2>3. Len(a) + Len(b) = Len(s) - 1
    BY <1>1, <1>2, <1>3
  <2>4. ASSUME NEW k \in 1..(Len(s) - 1)
        PROVE  (a \o b)[k] = s[IF k < i THEN k ELSE k + 1]
    <3>1. CASE k < i
      <4>1. k \in 1..(i - 1) /\ k <= Len(a)
        BY <1>1, <1>2, <3>1
      <4>2. QED
        BY <1>2, <2>1, <2>3, <3>1, <4>1
    <3>2. CASE ~(k < i)
      <4>1. /\ k - Len(a) \in 1..(Len(s) - i)
            /\ ~(k <= Len(a))
            /\ (k - Len(a)) + i = k + 1
        BY <1>1, <1>2, <3>2
      <4>2. b[k - Len(a)] = s[k + 1]
        BY <1>3, <4>1
      <4>3. QED
        BY <2>1, <2>3, <3>2, <4>1, <4>2
    <3>3. QED
      BY <3>1, <3>2
  <2>5. QED
    BY <2>1, <2>2, <2>3, <2>4
<1>5. Distinct(Without(s, i))
  <2> DEFINE w == Without(s, i)
             at(k) == IF k < i THEN k ELSE k + 1
  <2>1. SUFFICES ASSUME NEW j \in 1..Len(w), NEW k \in 1..Len(w), w[j] = w[k]
                 PROVE  j = k
    BY DEF Distinct
  <2>2. at(j) \in 1..Len(s) /\ at(k) \in 1..Len(s) /\ s[at(j)] = s[at(k)]
    BY <1>1, <1>4, <2>1
  <2>3. at(j) = at(k)
    BY <2>2 DEF Distinct
  <2>4. QED
    BY <1>1, <1>4, <2>1, <2>3
<1>6. QED
  BY <1>4, <1>5

(* Appending a resolver that is not listed yet keeps the list distinct.    *)
LEMMA AppendKeepsList ==
  ASSUME NEW S, NEW s \in Seq(S), Distinct(s), NEW r \in S,
         \A i \in 1..Len(s) : s[i] # r
  PROVE  Append(s, r) \in Seq(S) /\ Distinct(Append(s, r))
BY AppendProperties DEF Distinct

----------------------------------------------------------------------------
(* Type correctness and the state of the list.                             *)

ListInv == Distinct(resolvers)

(* All variables keep their types, and no resolver is listed twice.        *)
THEOREM TypeCorrect == Spec => [](TypeOK /\ ListInv)
<1> USE ResolverAssumption DEF ResolverAssumption
<1>1. Init => TypeOK /\ ListInv
  <2> SUFFICES ASSUME Init PROVE TypeOK /\ ListInv
    OBVIOUS
  <2>1. ListInv
    BY DEF Init, ListInv, Distinct
  <2>2. <<>> \in Seq(Request) /\ <<>> \in Seq(Response)
    BY EmptySeq
  <2>3. TypeOK
    <3>1. resolvers \in Seq(Resolver) /\ enabled \subseteq Resolver
      BY DEF Init
    <3>2. issued \in 0..MaxRequests /\ it \in Nat /\ semaQ \in Nat
      BY DEF Init
    <3>3. QED
      BY <2>2, <3>1, <3>2 DEF Init, TypeOK
  <2>4. QED
    BY <2>1, <2>3
<1>2. TypeOK /\ ListInv /\ [Next]_vars => (TypeOK /\ ListInv)'
  <2> SUFFICES ASSUME TypeOK, ListInv, [Next]_vars
               PROVE (TypeOK /\ ListInv)'
    OBVIOUS
  <2>1. ASSUME NEW nr \in Number, NEW online \in BOOLEAN, Resolve(nr, online)
        PROVE (TypeOK /\ ListInv)'
    <3>1. [id |-> issued + 1, nr |-> nr, online |-> online] \in Request
      BY <2>1 DEF Resolve, TypeOK, Request
    <3>2. requestList' \in Seq(Request)
      BY <2>1, <3>1, AppendProperties DEF Resolve, TypeOK
    <3>3. QED
      BY <2>1, <3>2 DEF Resolve, TypeOK, ListInv, listVars, workVars
  <2>2. CASE PostRequest
    BY <2>2 DEF PostRequest, TypeOK, ListInv, listVars, workVars
  <2>3. CASE BeginLookup
    BY <2>3 DEF BeginLookup, TypeOK, ListInv, listVars, workVars, queueVars
  <2>4. CASE EndLookup
    BY <2>4 DEF EndLookup, TypeOK, ListInv, listVars, workVars, queueVars
  <2>5. CASE Edits
    <3>1. UNCHANGED <<queueVars, mtxResolvers, guiVars, workVars>>
      BY <2>5 DEF Edits, MoveUp, MoveDown, Toggle, DeleteEntry, AppendEntry, EditList
    <3>2. resolvers' \in Seq(Resolver) /\ Distinct(resolvers')
      <4>0. resolvers \in Seq(Resolver) /\ Distinct(resolvers)
        BY DEF TypeOK, ListInv
      <4>1. ASSUME NEW i \in 1..Len(resolvers), MoveUp(i) PROVE <3>2!:
        <5>1. i - 1 \in 1..(Len(resolvers) - 1)
          BY <4>0, <4>1 DEF MoveUp
        <5>2. QED
          BY <4>0, <4>1, <5>1, SwapKeepsList DEF MoveUp
      <4>2. ASSUME NEW i \in 1..Len(resolvers), MoveDown(i) PROVE <3>2!:
        BY <4>0, <4>2, SwapKeepsList DEF MoveDown
      <4>3. ASSUME NEW i \in 1..Len(resolvers), Toggle(i) PROVE <3>2!:
        BY <4>0, <4>3 DEF Toggle
      <4>4. ASSUME NEW i \in 1..Len(resolvers), DeleteEntry(i) PROVE <3>2!:
        BY <4>0, <4>4, WithoutKeepsList DEF DeleteEntry
      <4>5. ASSUME NEW r \in Resolver, AppendEntry(r) PROVE <3>2!:
        BY <4>0, <4>5, AppendKeepsList DEF AppendEntry
      <4>6. QED
        BY <2>5, <4>1, <4>2, <4>3, <4>4, <4>5 DEF Edits
    <3>3. enabled' \subseteq Resolver
      <4>1. \A i \in 1..Len(resolvers) : resolvers[i] \in Resolver
        BY ElementOfSeq DEF TypeOK
      <4>2. QED
        BY <2>5, <4>1 DEF Edits, MoveUp, MoveDown, Toggle, DeleteEntry, AppendEntry, TypeOK
    <3>4. QED
      BY <3>1, <3>2, <3>3 DEF TypeOK, ListInv, queueVars, guiVars, workVars
  <2>6. CASE SetTerminate
    BY <2>6 DEF SetTerminate, TypeOK, ListInv, listVars, workVars
  <2>7. CASE PostTerminate
    BY <2>7 DEF PostTerminate, TypeOK, ListInv, listVars, workVars
  <2>8. CASE Join
    BY <2>8 DEF Join, TypeOK, ListInv, listVars, workVars, queueVars
  <2>9. CASE Wait
    BY <2>9 DEF Wait, TypeOK, ListInv, listVars, guiVars
  <2>10. CASE CheckTerminate
    BY <2>10 DEF CheckTerminate, TypeOK, ListInv, listVars, guiVars, queueVars
  <2>11. CASE Pop
    <3>1. Head(requestList) \in Request /\ Tail(requestList) \in Seq(Request)
      BY <2>11, HeadTailProperties DEF Pop, TypeOK
    <3>2. QED
      BY <2>11, <3>1 DEF Pop, TypeOK, ListInv, listVars, guiVars
  <2>12. CASE Lock
    BY <2>12 DEF Lock, TypeOK, ListInv, listVars, guiVars, queueVars
  <2>13. CASE NextResolver
    BY <2>13 DEF NextResolver, TypeOK, ListInv, listVars, guiVars, queueVars
  <2>14. CASE Found
    <3> DEFINE a == [id |-> req.id, nr |-> req.nr, online |-> req.online, by |-> resolvers[it]]
    <3>1. req \in Request
      BY <2>14 DEF Found, TypeOK
    <3>2. resolvers[it] \in Resolver
      BY <2>14, ElementOfSeq DEF Found, Applicable, TypeOK
    <3>3. a \in Response
      BY <3>1, <3>2 DEF Request, Response
    <3>4. responses' \in Seq(Response)
      BY <2>14, <3>3, AppendProperties DEF Found, TypeOK
    <3>5. QED
      BY <2>14, <3>4 DEF Found, TypeOK, ListInv, listVars, guiVars, queueVars
  <2>15. CASE NotFound
    BY <2>15 DEF NotFound, TypeOK, ListInv, listVars, guiVars, queueVars
  <2>16. CASE UNCHANGED vars
    BY <2>16 DEF vars, queueVars, listVars, guiVars, workVars, TypeOK, ListInv
  <2>17. QED
    BY <2>1, <2>2, <2>3, <2>4, <2>5, <2>6, <2>7, <2>8, <2>9, <2>10, <2>11, <2>12,
       <2>13, <2>14, <2>15, <2>16 DEF Next, Gui, Worker
<1>3. QED
  BY <1>1, <1>2, PTL DEF Spec

(* The variables keep their types.                                         *)
THEOREM TypesKept == Spec => []TypeOK
BY TypeCorrect, PTL

----------------------------------------------------------------------------
(* The semaphore and the request list.                                     *)

Leaving == gpc \in {"terminate", "join", "joined"}

(* TokensPayForWork is not inductive for NoEmptyPop by itself: that the    *)
(* worker pops only while no shutdown was seen needs bTerminate to be set  *)
(* before its wake-up is posted.                                           *)
QueueInv ==
  /\ TokensPayForWork
  /\ NoEmptyPop
  /\ bTerminate <=> Leaving
  /\ gpc = "joined" => wpc = "done"

(* No wake-up of the worker is lost or invented, and the worker never pops *)
(* from an empty request list.                                             *)
THEOREM QueueCorrect == Spec => []QueueInv
<1> USE DEF Held, Unposted, Wakeup, TokensPayForWork, NoEmptyPop, Leaving
<1>1. Init => QueueInv
  BY DEF Init, QueueInv
<1>2. TypeOK /\ QueueInv /\ [Next]_vars => QueueInv'
  <2> SUFFICES ASSUME TypeOK, QueueInv, [Next]_vars
               PROVE QueueInv'
    OBVIOUS
  <2> USE DEF QueueInv
  <2>0. semaQ \in Nat /\ requestList \in Seq(Request) /\ Len(requestList) \in Nat
    BY DEF TypeOK
  <2>1. ASSUME NEW nr \in Number, NEW online \in BOOLEAN, Resolve(nr, online)
        PROVE QueueInv'
    <3>1. Len(requestList') = Len(requestList) + 1 /\ requestList' # <<>>
      BY <2>0, <2>1 DEF Resolve
    <3>2. QED
      BY <2>0, <2>1, <3>1 DEF Resolve, workVars
  <2>2. CASE PostRequest
    BY <2>0, <2>2 DEF PostRequest, workVars
  <2>3. CASE BeginLookup
    BY <2>0, <2>3 DEF BeginLookup, workVars, queueVars
  <2>4. CASE EndLookup
    BY <2>0, <2>4 DEF EndLookup, workVars, queueVars
  <2>5. CASE Edits
    <3>1. UNCHANGED <<queueVars, guiVars, workVars>>
      BY <2>5 DEF Edits, MoveUp, MoveDown, Toggle, DeleteEntry, AppendEntry, EditList
    <3>2. QED
      BY <3>1 DEF queueVars, guiVars, workVars
  <2>6. CASE SetTerminate
    BY <2>0, <2>6 DEF SetTerminate, workVars
  <2>7. CASE PostTerminate
    BY <2>0, <2>7 DEF PostTerminate, workVars
  <2>8. CASE Join
    BY <2>0, <2>8 DEF Join, workVars, queueVars
  <2>9. CASE Wait
    BY <2>0, <2>9 DEF Wait, guiVars
  <2>10. CASE CheckTerminate
    <3>1. CASE bTerminate
      BY <2>0, <2>10, <3>1 DEF CheckTerminate, guiVars, queueVars
    <3>2. CASE ~bTerminate
      <4>1. Len(requestList) > 0
        BY <2>0, <2>10, <3>2 DEF CheckTerminate
      <4>2. requestList # <<>>
        BY <4>1, EmptySeq
      <4>3. QED
        BY <2>0, <2>10, <3>2, <4>2 DEF CheckTerminate, guiVars, queueVars
    <3>3. QED
      BY <3>1, <3>2
  <2>11. CASE Pop
    <3>1. Len(requestList') = Len(requestList) - 1
      BY <2>0, <2>11, HeadTailProperties DEF Pop
    <3>2. QED
      BY <2>0, <2>11, <3>1 DEF Pop, guiVars
  <2>12. CASE Lock
    BY <2>0, <2>12 DEF Lock, guiVars, queueVars
  <2>13. CASE NextResolver
    BY <2>0, <2>13 DEF NextResolver, guiVars, queueVars
  <2>14. CASE Found
    BY <2>0, <2>14 DEF Found, guiVars, queueVars
  <2>15. CASE NotFound
    BY <2>0, <2>15 DEF NotFound, guiVars, queueVars
  <2>16. CASE UNCHANGED vars
    BY <2>16 DEF vars, queueVars, guiVars, workVars
  <2>17. QED
    BY <2>1, <2>2, <2>3, <2>4, <2>5, <2>6, <2>7, <2>8, <2>9, <2>10, <2>11, <2>12,
       <2>13, <2>14, <2>15, <2>16 DEF Next, Gui, Worker
<1>3. QED
  BY <1>1, <1>2, TypeCorrect, PTL DEF Spec

(* At any time the tokens pay for exactly the work there is: m_semaQ and   *)
(* m_RequestList never get out of step for longer than one resolve().      *)
THEOREM TokensBalance == Spec => []TokensPayForWork
<1>1. QueueInv => TokensPayForWork
  BY DEF QueueInv
<1> QED  BY <1>1, QueueCorrect, PTL

(* Entry never calls front() on an empty list.                             *)
THEOREM PopIsSafe == Spec => []NoEmptyPop
<1>1. QueueInv => NoEmptyPop
  BY DEF QueueInv
<1> QED  BY <1>1, QueueCorrect, PTL

----------------------------------------------------------------------------
(* The walk over the list.                                                 *)

Overrules(j) == resolvers[j] \in enabled \ Online /\ req.nr \in Knows[resolvers[j]]

(* While the worker walks it owns the mutex, and no enabled local resolver *)
(* it has passed knows the number.                                         *)
WalkInv ==
  /\ (wpc = "walk") <=> (mtxResolvers = "worker")
  /\ (gpc = "lookup") <=> (mtxResolvers = "gui")
  /\ wpc = "walk" => it \in Nat \ {0} /\ \A j \in 1..Len(resolvers) : j < it => ~Overrules(j)

LEMMA WalkStep ==
  TypeOK /\ WalkInv /\ [Next]_vars => WalkInv'
<1> SUFFICES ASSUME TypeOK, WalkInv, [Next]_vars
             PROVE WalkInv'
  OBVIOUS
<1> USE DEF WalkInv, Overrules
<1>1. ASSUME NEW nr \in Number, NEW online \in BOOLEAN, Resolve(nr, online)
      PROVE WalkInv'
  BY <1>1 DEF Resolve, listVars, workVars
<1>2. CASE PostRequest
  BY <1>2 DEF PostRequest, listVars, workVars
<1>3. CASE BeginLookup
  BY <1>3 DEF BeginLookup, listVars, workVars
<1>4. CASE EndLookup
  <2>1. wpc # "walk"
    BY <1>4 DEF EndLookup
  <2>2. QED
    BY <1>4, <2>1 DEF EndLookup, listVars, workVars
<1>5. CASE Edits
  <2>1. mtxResolvers = "none" /\ UNCHANGED <<mtxResolvers, guiVars, workVars>>
    BY <1>5 DEF Edits, MoveUp, MoveDown, Toggle, DeleteEntry, AppendEntry, EditList
  <2>2. QED
    BY <2>1 DEF guiVars, workVars
<1>6. CASE SetTerminate
  BY <1>6 DEF SetTerminate, listVars, workVars
<1>7. CASE PostTerminate
  BY <1>7 DEF PostTerminate, listVars, workVars
<1>8. CASE Join
  BY <1>8 DEF Join, listVars, workVars
<1>9. CASE Wait
  BY <1>9 DEF Wait, listVars, guiVars
<1>10. CASE CheckTerminate
  BY <1>10 DEF CheckTerminate, listVars, guiVars
<1>11. CASE Pop
  BY <1>11 DEF Pop, listVars, guiVars
<1>12. CASE Lock
  BY <1>12 DEF Lock, listVars, guiVars
<1>13. CASE NextResolver
  <2>1. it \in Nat /\ ~Overrules(it)
    BY <1>13 DEF NextResolver, Applicable, TypeOK
  <2>2. \A j \in 1..Len(resolvers) : j < it + 1 => ~Overrules(j)
    BY <1>13, <2>1 DEF NextResolver, TypeOK
  <2>3. QED
    BY <1>13, <2>2 DEF NextResolver, listVars, guiVars
<1>14. CASE Found
  BY <1>14 DEF Found, guiVars
<1>15. CASE NotFound
  BY <1>15 DEF NotFound, guiVars
<1>16. CASE UNCHANGED vars
  BY <1>16 DEF vars, listVars, guiVars, workVars
<1>17. QED
  BY <1>1, <1>2, <1>3, <1>4, <1>5, <1>6, <1>7, <1>8, <1>9, <1>10, <1>11, <1>12,
     <1>13, <1>14, <1>15, <1>16 DEF Next, Gui, Worker

(* An answer is always the first applicable entry of the list the user has *)
(* set up: edits cannot slip in between the walk and the answer.           *)
THEOREM FirstMatch == Spec => FirstMatchWins
<1>1. Init => WalkInv
  BY DEF Init, WalkInv
<1>2. TypeOK /\ ListInv /\ WalkInv /\ [Next]_vars =>
        [\A i \in 1..Len(resolvers), j \in 1..Len(resolvers) :
           Len(responses') > Len(responses) /\ j < i =>
             LET a == responses'[Len(responses')] IN
               a.by = resolvers[i] =>
                 ~(resolvers[j] \in enabled \ Online /\ a.nr \in Knows[resolvers[j]])]_vars
  <2> SUFFICES ASSUME TypeOK, ListInv, WalkInv, [Next]_vars,
                      NEW i \in 1..Len(resolvers), NEW j \in 1..Len(resolvers),
                      Len(responses') > Len(responses), j < i,
                      responses'[Len(responses')].by = resolvers[i]
               PROVE  ~(resolvers[j] \in enabled \ Online
                        /\ responses'[Len(responses')].nr \in Knows[resolvers[j]])
    OBVIOUS
  <2>0. Len(responses) \in Nat
    BY DEF TypeOK
  <2>1. responses' # responses
    BY <2>0
  <2>2. Found
    BY <2>1 DEF Next, Gui, Worker, vars, workVars, queueVars, guiVars, Resolve, PostRequest,
       BeginLookup, EndLookup, Edits, EditList, MoveUp, MoveDown, Toggle, DeleteEntry,
       AppendEntry, SetTerminate, PostTerminate, Join, Wait, CheckTerminate, Pop, Lock,
       NextResolver, NotFound
  <2> DEFINE a == [id |-> req.id, nr |-> req.nr, online |-> req.online, by |-> resolvers[it]]
  <2>3. responses'[Len(responses')] = a
    <3>1. responses' = Append(responses, a)
      BY <2>2 DEF Found
    <3>2. responses \in Seq(Response)
      BY DEF TypeOK
    <3> HIDE DEF a
    <3>3. QED
      BY <3>1, <3>2
  <2>4. it = i
    <3>1. it \in 1..Len(resolvers)
      BY <2>2 DEF Found, WalkInv, TypeOK
    <3>2. QED
      BY <2>3, <3>1 DEF ListInv, Distinct
  <2>5. QED
    BY <2>2, <2>3, <2>4 DEF WalkInv, Overrules, Found
<1>3. QED
  BY <1>1, <1>2, TypeCorrect, WalkStep, PTL DEF Spec, FirstMatchWins

(* A web resolver only ever answers requests that may go online.           *)
THEOREM OnlineAllowed == Spec => []OnlineOnlyIfAllowed
<1>1. Init => OnlineOnlyIfAllowed
  BY DEF Init, OnlineOnlyIfAllowed
<1>2. TypeOK /\ OnlineOnlyIfAllowed /\ [Next]_vars => OnlineOnlyIfAllowed'
  <2> SUFFICES ASSUME TypeOK, OnlineOnlyIfAllowed, [Next]_vars
               PROVE  OnlineOnlyIfAllowed'
    OBVIOUS
  <2>1. CASE Found
    <3> DEFINE a == [id |-> req.id, nr |-> req.nr, online |-> req.online, by |-> resolvers[it]]
    <3>1. a.by \in Online => a.online
      BY <2>1 DEF Found, Applicable
    <3>2. responses' = Append(responses, a) /\ responses \in Seq(Response)
      BY <2>1 DEF Found, TypeOK
    <3> HIDE DEF a
    <3>3. QED
      BY <3>1, <3>2 DEF OnlineOnlyIfAllowed
  <2>2. CASE ~Found
    <3>1. UNCHANGED responses
      BY <2>2 DEF Next, Gui, Worker, vars, workVars, Resolve, PostRequest,
         BeginLookup, EndLookup, Edits, EditList, MoveUp, MoveDown, Toggle, DeleteEntry,
         AppendEntry, SetTerminate, PostTerminate, Join, Wait, CheckTerminate, Pop, Lock,
         NextResolver, NotFound
    <3>2. QED
      BY <3>1 DEF OnlineOnlyIfAllowed
  <2>3. QED
    BY <2>1, <2>2
<1>3. QED
  BY <1>1, <1>2, TypeCorrect, PTL DEF Spec

----------------------------------------------------------------------------
(* The mechanism implements the service.                                   *)

(* A sequence with one element in front of another.                        *)
LEMMA Prepend ==
  ASSUME NEW S, NEW s \in Seq(S), NEW e \in S
  PROVE  /\ <<e>> \o s \in Seq(S)
         /\ Len(<<e>> \o s) = Len(s) + 1
         /\ (<<e>> \o s)[1] = e
         /\ \A i \in 1..Len(s) : (<<e>> \o s)[i + 1] = s[i]
<1> DEFINE u == <<e>>
<1>1. u \in Seq(S) /\ Len(u) = 1 /\ u[1] = e
  OBVIOUS
<1> HIDE DEF u
<1>2. /\ u \o s \in Seq(S)
      /\ Len(u \o s) = Len(u) + Len(s)
      /\ \A i \in 1..(Len(u) + Len(s)) : (u \o s)[i] = IF i <= Len(u) THEN u[i] ELSE s[i - Len(u)]
  BY <1>1, ConcatProperties
<1>3. Len(s) \in Nat
  OBVIOUS
<1>4. (u \o s)[1] = e
  BY <1>1, <1>2, <1>3
<1>5. ASSUME NEW i \in 1..Len(s) PROVE (u \o s)[i + 1] = s[i]
  <2>1. i + 1 \in 1..(Len(u) + Len(s)) /\ ~(i + 1 <= Len(u)) /\ (i + 1) - Len(u) = i
    BY <1>1, <1>3
  <2>2. QED
    BY <1>2, <2>1
<1>6. QED
  BY <1>1, <1>2, <1>3, <1>4, <1>5 DEF u

(* Putting one element in front commutes with appending at the end.        *)
LEMMA FrontOfQueue ==
  ASSUME NEW S, NEW s \in Seq(S), NEW e \in S
  PROVE  /\ <<e>> \o s \in Seq(S)
         /\ <<e>> \o s # <<>>
         /\ Head(<<e>> \o s) = e
         /\ Tail(<<e>> \o s) = s
         /\ \A x \in S : <<e>> \o Append(s, x) = Append(<<e>> \o s, x)
<1> DEFINE t == <<e>> \o s
<1>1. /\ t \in Seq(S) /\ Len(t) = Len(s) + 1 /\ t[1] = e
      /\ \A i \in 1..Len(s) : t[i + 1] = s[i]
  BY Prepend
<1>2. ASSUME NEW x \in S PROVE <<e>> \o Append(s, x) = Append(t, x)
  <2> DEFINE w == <<x>>
             u == <<e>>
  <2>1. w \in Seq(S) /\ u \in Seq(S)
    OBVIOUS
  <2>2. Append(s, x) = s \o w /\ Append(t, x) = t \o w /\ t = u \o s
    BY <1>1, AppendIsConcat
  <2>3. (u \o s) \o w = u \o (s \o w)
    <3> HIDE DEF u, w
    <3>1. QED
      BY <2>1, ConcatAssociative
  <2>4. QED
    BY <2>2, <2>3
<1> HIDE DEF t
<1>3. t # <<>>
  BY <1>1, EmptySeq
<1>4. Head(t) = e
  BY <1>1
<1>5. Tail(t) = s
  <2>1. /\ Tail(t) \in Seq(S)
        /\ Len(Tail(t)) = Len(s)
        /\ \A i \in 1..Len(Tail(t)) : Tail(t)[i] = t[i + 1]
    BY <1>1, <1>3, HeadTailProperties
  <2>2. \A i \in 1..Len(s) : Tail(t)[i] = s[i]
    BY <1>1, <2>1
  <2>3. QED
    BY <2>1, <2>2, SeqEqual
<1>6. QED
  BY <1>1, <1>2, <1>3, <1>4, <1>5 DEF t

(* The oldest request in front of the others is the list before the pop.   *)
LEMMA FrontOfPopped ==
  ASSUME NEW S, NEW s \in Seq(S), s # <<>>
  PROVE  <<Head(s)>> \o Tail(s) = s
<1> DEFINE t == <<Head(s)>> \o Tail(s)
<1>0. Head(s) \in S /\ Tail(s) \in Seq(S) /\ Len(Tail(s)) = Len(s) - 1
      /\ \A i \in 1..Len(Tail(s)) : Tail(s)[i] = s[i + 1]
  BY HeadTailProperties
<1>1. /\ t \in Seq(S) /\ Len(t) = Len(Tail(s)) + 1 /\ t[1] = Head(s)
      /\ \A i \in 1..Len(Tail(s)) : t[i + 1] = Tail(s)[i]
  BY <1>0, Prepend
<1> HIDE DEF t
<1>2. Len(s) \in Nat \ {0}
  BY EmptySeq
<1>3. ASSUME NEW i \in 1..Len(s) PROVE t[i] = s[i]
  <2>1. CASE i = 1
    BY <1>1, <1>2, <2>1
  <2>2. CASE i # 1
    <3>1. i - 1 \in 1..Len(Tail(s)) /\ (i - 1) + 1 = i
      BY <1>0, <1>2, <2>2
    <3>2. QED
      BY <1>0, <1>1, <3>1
  <2>3. QED
    BY <2>1, <2>2
<1>4. Len(t) = Len(s)
  BY <1>0, <1>1, <1>2
<1>5. t = s
  BY <1>1, <1>3, <1>4, SeqEqual
<1>6. QED
  BY <1>5 DEF t

(* The answers of the service after one more response.                     *)
LEMMA OneMoreAnswer ==
  ASSUME TypeOK, NEW a \in Response, responses' = Append(responses, a),
         NEW r \in Request, Plain(a) = r
  PROVE  answeredBar' = Append(answeredBar, r)
<1> DEFINE n == Len(responses)
<1>1. n \in Nat /\ responses \in Seq(Response)
  BY DEF TypeOK
<1>2. /\ Len(responses') = n + 1 /\ responses'[n + 1] = a
      /\ \A i \in 1..n : responses'[i] = responses[i]
  BY <1>1, AppendProperties
<1>3. answeredBar \in Seq(Request) /\ Len(answeredBar) = n
      /\ \A i \in 1..n : answeredBar[i] = Plain(responses[i])
  <2>1. \A i \in 1..n : Plain(responses[i]) \in Request
    <3>1. TAKE i \in 1..n
    <3>2. responses[i] \in Response
      BY <1>1, ElementOfSeq
    <3>3. QED
      BY <3>2 DEF Plain, Request, Response
  <2>2. answeredBar \in [1..n -> Request]
    BY <2>1 DEF answeredBar
  <2>3. answeredBar \in Seq(Request)
    BY <1>1, <2>2, SeqDef
  <2>4. Len(answeredBar) = n
    BY <1>1, <2>2, <2>3
  <2>5. QED
    BY <2>3, <2>4 DEF answeredBar
<1>4. answeredBar' = [i \in 1..(n + 1) |-> Plain(responses'[i])]
  BY <1>2 DEF answeredBar
<1> DEFINE b == Append(answeredBar, r)
<1>5. /\ b \in Seq(Request) /\ Len(b) = n + 1 /\ b[n + 1] = r
      /\ \A i \in 1..n : b[i] = answeredBar[i]
  BY <1>3, AppendProperties
<1> HIDE DEF b, n
<1>6. b \in [1..(n + 1) -> Request]
  BY <1>5, LenProperties
<1>7. ASSUME NEW i \in 1..(n + 1) PROVE Plain(responses'[i]) = b[i]
  <2>1. CASE i = n + 1
    BY <1>2, <1>5, <2>1
  <2>2. CASE i # n + 1
    <3>1. i \in 1..n
      BY <1>1, <2>2
    <3>2. QED
      BY <1>2, <1>3, <1>5, <3>1
  <2>3. QED
    BY <2>1, <2>2
<1>8. answeredBar' = b
  BY <1>4, <1>6, <1>7
<1>9. QED
  BY <1>8 DEF b

(* Everything CMainApp relies on is provided: requests are dealt with in   *)
(* the order they were made, each is answered at most once, and no response*)
(* is posted after shutdown() has returned.                                *)
THEOREM ImplementsService == Spec => Implements
<1>1. Init => Service!Init
  BY DEF Init, Service!Init, pendingBar, answeredBar, InWork
<1>2. TypeOK /\ QueueInv /\ [Next]_vars => [Service!Next]_(Service!vars)
  <2> SUFFICES ASSUME TypeOK, QueueInv, [Next]_vars
               PROVE  [Service!Next]_(Service!vars)
    OBVIOUS
  <2> USE DEF Service!Next, Service!vars
  <2>0. requestList \in Seq(Request)
    BY DEF TypeOK
  <2>1. ASSUME NEW nr \in Number, NEW online \in BOOLEAN, Resolve(nr, online)
        PROVE Service!Next
    <3> DEFINE r == [id |-> issued + 1, nr |-> nr, online |-> online]
    <3>1. r \in Request
      BY <2>1, ResolverAssumption DEF Resolve, Request, TypeOK, ResolverAssumption
    <3>2. /\ requestList' = Append(requestList, r)
          /\ gpc = "idle" /\ gpc' = "posting"
          /\ UNCHANGED <<wpc, req, responses>>
      BY <2>1 DEF Resolve, workVars
    <3> HIDE DEF r
    <3>3. pendingBar' = Append(pendingBar, r)
      <4>1. CASE InWork
        <5>1. req \in Request
          BY <4>1 DEF InWork, TypeOK
        <5>2. QED
          BY <2>0, <3>1, <3>2, <4>1, <5>1, FrontOfQueue DEF pendingBar, InWork
      <4>2. CASE ~InWork
        BY <3>2, <4>2 DEF pendingBar, InWork
      <4>3. QED
        BY <4>1, <4>2
    <3>4. Service!Ask(r)
      BY <3>2, <3>3 DEF Service!Ask, answeredBar
    <3>5. QED
      BY <3>1, <3>4
  <2>2. CASE Join
    BY <2>2 DEF Join, Service!Close, pendingBar, answeredBar, InWork, workVars, queueVars
  <2>3. CASE Pop
    <3>1. <<req'>> \o requestList' = requestList
      BY <2>0, <2>3, FrontOfPopped DEF Pop
    <3>2. QED
      BY <2>3, <3>1 DEF Pop, pendingBar, answeredBar, InWork, guiVars, QueueInv
  <2>4. CASE Found
    <3> DEFINE a == [id |-> req.id, nr |-> req.nr, online |-> req.online, by |-> resolvers[it]]
    <3>1. req \in Request
      BY <2>4 DEF Found, TypeOK
    <3>2. a \in Response /\ Plain(a) = req
      <4>1. resolvers[it] \in Resolver
        BY <2>4 DEF Found, Applicable, TypeOK
      <4>2. QED
        BY <3>1, <4>1 DEF Request, Response, Plain
    <3>3. answeredBar' = Append(answeredBar, req)
      <4>1. responses' = Append(responses, a)
        BY <2>4 DEF Found
      <4> HIDE DEF a
      <4>2. QED
        BY <3>1, <3>2, <4>1, OneMoreAnswer
    <3>4. /\ gpc # "joined" /\ UNCHANGED gpc
          /\ pendingBar = <<req>> \o requestList /\ pendingBar' = requestList
      BY <2>4 DEF Found, QueueInv, pendingBar, InWork, guiVars, queueVars
    <3>5. Service!Serve
      BY <2>0, <3>1, <3>3, <3>4, FrontOfQueue DEF Service!Serve
    <3>6. QED
      BY <3>5
  <2>5. CASE NotFound
    <3>1. req \in Request
      BY <2>5 DEF NotFound, TypeOK
    <3>2. /\ gpc # "joined" /\ UNCHANGED gpc /\ UNCHANGED answeredBar
          /\ pendingBar = <<req>> \o requestList /\ pendingBar' = requestList
      BY <2>5 DEF NotFound, QueueInv, pendingBar, InWork, guiVars, queueVars, answeredBar
    <3>3. Service!Serve
      BY <2>0, <3>1, <3>2, FrontOfQueue DEF Service!Serve
    <3>4. QED
      BY <3>3
  <2>6. CASE PostRequest \/ BeginLookup \/ EndLookup \/ SetTerminate \/ PostTerminate
    BY <2>6 DEF PostRequest, BeginLookup, EndLookup, SetTerminate, PostTerminate,
       pendingBar, answeredBar, InWork, workVars, queueVars
  <2>7. CASE Edits
    <3>1. UNCHANGED <<queueVars, guiVars, workVars>>
      BY <2>7 DEF Edits, MoveUp, MoveDown, Toggle, DeleteEntry, AppendEntry, EditList
    <3>2. QED
      BY <3>1 DEF pendingBar, answeredBar, InWork, workVars, queueVars, guiVars
  <2>8. CASE Wait \/ CheckTerminate \/ Lock \/ NextResolver
    BY <2>8 DEF Wait, CheckTerminate, Lock, NextResolver,
       pendingBar, answeredBar, InWork, queueVars, guiVars
  <2>9. CASE UNCHANGED vars
    BY <2>9 DEF vars, pendingBar, answeredBar, InWork, workVars, queueVars, guiVars
  <2>10. QED
    BY <2>1, <2>2, <2>3, <2>4, <2>5, <2>6, <2>7, <2>8, <2>9 DEF Next, Gui, Worker
<1>3. QED
  BY <1>1, <1>2, TypeCorrect, QueueCorrect, PTL DEF Spec, Implements, Service!Spec
==============================================================================

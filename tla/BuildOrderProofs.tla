-------------------------- MODULE BuildOrderProofs ---------------------------
(***************************************************************************)
(* What a build of BuildJobs acts on, and when, for any number of workers: *)
(* a node after everything it depends on, headers that are generated and   *)
(* scanned again among it, and never while another task writes the same    *)
(* file on the side; that no node the walk has begun with is forgotten;    *)
(* and what a walk that ends has reached: all that was asked for, or a     *)
(* cycle that it reports, and an exit status that says so.                 *)
(***************************************************************************)
EXTENDS BuildJobsProofs, WellFoundedInduction

----------------------------------------------------------------------------
(* What can be reached in a graph.                                         *)

Near(succ, R) == R \cup UNION {succ[n] : n \in R}

\* r is what can be reached in 0, 1, ... m steps.
Unfolds(r, succ, S, m) ==
    r = [k \in 0..m |-> IF k = 0 THEN S ELSE Near(succ, r[k - 1])]

\* A set of numbers that is not empty has a smallest member.
LEMMA LeastOf ==
  ASSUME NEW A, A \subseteq Nat, A # {}
  PROVE  \E m \in A : \A k \in A : m <= k
<1> DEFINE Less == OpToRel(<, Nat)
<1>1. IsWellFoundedOn(Less, Nat)
  BY NatLessThanWellFounded
<1>2. \A k, m \in Nat : k < m => <<k, m>> \in Less
  BY DEF OpToRel
<1> HIDE DEF Less
<1>3. PICK m \in A : \A k \in A : ~(<<k, m>> \in Less)
  BY <1>1, WFMin
<1>4. \A k \in A : ~(k < m)
  BY <1>2, <1>3
<1> QED  BY <1>3, <1>4

\* The recursive function in Closure exists.
LEMMA UnfoldingExists ==
  ASSUME NEW succ, NEW S, NEW N \in Nat
  PROVE  \E r : Unfolds(r, succ, S, N)
<1> DEFINE Bad == {m \in Nat : ~\E r : Unfolds(r, succ, S, m)}
<1> SUFFICES ASSUME N \in Bad PROVE FALSE
  OBVIOUS
<1>1. PICK m \in Bad : \A k \in Bad : m <= k
  <2> HIDE DEF Bad
  <2>1. Bad \subseteq Nat
    BY DEF Bad
  <2> QED  BY <2>1, LeastOf
<1>2. m # 0
  <2>1. Unfolds([k \in 0..0 |-> S], succ, S, 0)
    BY DEF Unfolds
  <2> QED  BY <2>1
<1>3. m - 1 \in Nat /\ m \in Nat
  BY <1>2
<1>4. PICK r : Unfolds(r, succ, S, m - 1)
  <2>1. m - 1 \notin Bad
    BY <1>1, <1>3
  <2> QED  BY <1>3, <2>1
<1> DEFINE g == [k \in 0..m |-> IF k = m THEN Near(succ, r[m - 1]) ELSE r[k]]
<1>5. \A k \in 0..(m - 1) : g[k] = r[k]
  BY <1>3
<1>6. \A k \in 0..m : g[k] = IF k = 0 THEN S ELSE Near(succ, g[k - 1])
  <2> SUFFICES ASSUME NEW k \in 0..m PROVE g[k] = IF k = 0 THEN S ELSE Near(succ, g[k - 1])
    OBVIOUS
  <2>1. CASE k = m
    BY <1>2, <1>3, <1>5, <2>1
  <2>2. CASE k # m
    <3>1. k \in 0..(m - 1)
      BY <1>3, <2>2
    <3>2. r[k] = IF k = 0 THEN S ELSE Near(succ, r[k - 1])
      BY <1>4, <3>1 DEF Unfolds
    <3>3. k # 0 => k - 1 \in 0..(m - 1)
      BY <1>3, <3>1
    <3> QED  BY <1>5, <3>1, <3>2, <3>3
  <2> QED  BY <2>1, <2>2
<1>7. Unfolds(g, succ, S, m)
  <2>1. g = [k \in 0..m |-> g[k]]
    OBVIOUS
  <2> HIDE DEF g
  <2> QED  BY <1>6, <2>1 DEF Unfolds
<1> QED  BY <1>7

LEMMA ClosureUnfolds ==
  ASSUME NEW succ, NEW S
  PROVE  \E r : /\ Unfolds(r, succ, S, Cardinality(Node))
                /\ Closure(succ, S) = r[Cardinality(Node)]
<1> DEFINE N == Cardinality(Node)
<1>1. N \in Nat
  BY NodesFinite, FS_CardinalityType
<1> DEFINE r == CHOOSE f : f = [k \in 0..N |-> IF k = 0 THEN S
                                  ELSE f[k - 1] \cup UNION {succ[n] : n \in f[k - 1]}]
<1>2. Closure(succ, S) = r[N]
  BY DEF Closure
<1>3. \E f : f = [k \in 0..N |-> IF k = 0 THEN S
                                  ELSE f[k - 1] \cup UNION {succ[n] : n \in f[k - 1]}]
  <2> HIDE DEF N
  <2>1. PICK f : Unfolds(f, succ, S, N)
    BY <1>1, UnfoldingExists
  <2>2. f = [k \in 0..N |-> IF k = 0 THEN S ELSE f[k - 1] \cup UNION {succ[n] : n \in f[k - 1]}]
    BY <2>1 DEF Unfolds, Near
  <2> QED  BY <2>2, Zenon
<1>4. Unfolds(r, succ, S, N)
  BY <1>3, Zenon DEF Unfolds, Near
<1> QED  BY <1>2, <1>4

\* What holds of S and is kept by each step holds after k steps, for all k.
LEMMA UnfoldedLeast ==
  ASSUME NEW succ, NEW S, NEW N \in Nat, NEW r, Unfolds(r, succ, S, N),
         NEW X, S \subseteq X, \A n \in X : succ[n] \subseteq X
  PROVE  r[N] \subseteq X
<1> DEFINE Bad == {k \in 0..N : ~(r[k] \subseteq X)}
<1> SUFFICES ASSUME Bad # {} PROVE FALSE
  OBVIOUS
<1>1. PICK k \in Bad : \A j \in Bad : k <= j
  <2> HIDE DEF Bad
  <2>1. Bad \subseteq Nat
    BY DEF Bad
  <2> QED  BY <2>1, LeastOf
<1>2. r[k] = IF k = 0 THEN S ELSE Near(succ, r[k - 1])
  BY DEF Unfolds
<1>3. k # 0
  BY <1>2
<1>4. r[k - 1] \subseteq X
  <2>1. k - 1 \in 0..N /\ k - 1 \notin Bad
    BY <1>1, <1>3
  <2> QED  BY <2>1
<1> QED  BY <1>2, <1>3, <1>4 DEF Near

LEMMA UnfoldedGrows ==
  ASSUME NEW succ, NEW S, NEW N \in Nat, NEW r, Unfolds(r, succ, S, N)
  PROVE  S \subseteq r[N]
<1> DEFINE Bad == {k \in 0..N : ~(S \subseteq r[k])}
<1> SUFFICES ASSUME Bad # {} PROVE FALSE
  OBVIOUS
<1>1. PICK k \in Bad : \A j \in Bad : k <= j
  <2> HIDE DEF Bad
  <2>1. Bad \subseteq Nat
    BY DEF Bad
  <2> QED  BY <2>1, LeastOf
<1>2. r[k] = IF k = 0 THEN S ELSE Near(succ, r[k - 1])
  BY DEF Unfolds
<1>3. k # 0
  BY <1>2
<1>4. S \subseteq r[k - 1]
  <2>1. k - 1 \in 0..N /\ k - 1 \notin Bad
    BY <1>1, <1>3
  <2> QED  BY <2>1
<1> QED  BY <1>2, <1>3, <1>4 DEF Near

\* As long as something new is found there is one node more in each step, so
\* after as many steps as there are nodes nothing new is found.
LEMMA UnfoldedCloses ==
  ASSUME NEW succ \in [Node -> SUBSET Node], NEW S \in SUBSET Node,
         NEW r, Unfolds(r, succ, S, Cardinality(Node))
  PROVE  \A n \in r[Cardinality(Node)] : succ[n] \subseteq r[Cardinality(Node)]
<1> DEFINE N == Cardinality(Node)
           Closed(k) == Near(succ, r[k]) = r[k]
<1>1. N \in Nat
  BY NodesFinite, FS_CardinalityType
<1> HIDE DEF N
<1>2. /\ r[0] = S
      /\ \A k \in 0..N : k # 0 => r[k] = Near(succ, r[k - 1])
  BY <1>1 DEF Unfolds, N
<1>3. \A k \in 0..N : r[k] \in SUBSET Node
  <2> SUFFICES ASSUME NEW k \in 0..N PROVE r[k] \subseteq Node
    OBVIOUS
  <2>1. Unfolds([j \in 0..k |-> r[j]], succ, S, k)
    <3>1. \A j \in 0..k : r[j] = IF j = 0 THEN S ELSE Near(succ, r[j - 1])
      BY <1>1, <1>2
    <3>2. \A j \in 0..k : j # 0 => j - 1 \in 0..k
      OBVIOUS
    <3> QED  BY <3>1, <3>2 DEF Unfolds
  <2>2. k \in Nat /\ k \in 0..k
    OBVIOUS
  <2> QED  BY <2>1, <2>2, UnfoldedLeast
<1>4. \A k \in 0..N : IsFiniteSet(r[k]) /\ Cardinality(r[k]) \in Nat
  BY <1>3, NodesFinite, FS_Subset, FS_CardinalityType
<1> DEFINE Bad == {k \in 0..N : ~(Closed(k) \/ Cardinality(r[k]) >= k)}
<1>5. Bad = {}
  <2> SUFFICES ASSUME Bad # {} PROVE FALSE
    OBVIOUS
  <2>1. PICK k \in Bad : \A j \in Bad : k <= j
    <3> HIDE DEF Bad
    <3>1. Bad \subseteq Nat
      BY DEF Bad
    <3> QED  BY <3>1, LeastOf
  <2>2. k # 0
    BY <1>1, <1>4
  <2>3. k - 1 \in 0..N /\ r[k] = Near(succ, r[k - 1]) /\ k - 1 \notin Bad
    BY <1>1, <1>2, <2>1, <2>2
  <2>4. r[k - 1] \subseteq r[k]
    BY <2>3 DEF Near
  <2>5. CASE Closed(k - 1)
    BY <2>3, <2>5
  <2>6. CASE ~Closed(k - 1)
    <3>1. Cardinality(r[k - 1]) >= k - 1
      BY <2>3, <2>6
    <3>2. r[k] # r[k - 1]
      BY <2>3, <2>6
    <3>3. Cardinality(r[k - 1]) < Cardinality(r[k])
      <4>1. IsFiniteSet(r[k]) /\ r[k - 1] \in SUBSET r[k]
        BY <1>4, <2>4
      <4>2. /\ Cardinality(r[k - 1]) <= Cardinality(r[k])
            /\ Cardinality(r[k]) = Cardinality(r[k - 1]) => r[k] = r[k - 1]
        BY <4>1, FS_Subset
      <4>3. Cardinality(r[k]) \in Nat /\ Cardinality(r[k - 1]) \in Nat
        BY <1>4, <2>3
      <4> QED  BY <3>2, <4>2, <4>3
    <3> QED  BY <1>4, <2>3, <3>1, <3>3
  <2> QED  BY <2>5, <2>6
<1>6. Closed(N)
  <2>1. N \in 0..N
    BY <1>1
  <2>2. CASE Cardinality(r[N]) >= N
    <3>1. r[N] \subseteq Node
      BY <1>3, <2>1
    <3>2. r[N] = Node
      <4>1. /\ Cardinality(r[N]) <= Cardinality(Node)
            /\ Cardinality(Node) = Cardinality(r[N]) => Node = r[N]
        BY <3>1, NodesFinite, FS_Subset
      <4>2. Cardinality(r[N]) \in Nat
        BY <1>4, <2>1
      <4> QED  BY <1>1, <2>2, <4>1, <4>2 DEF N
    <3> QED  BY <3>2 DEF Near
  <2> QED  BY <1>5, <2>1, <2>2
<1> QED  BY <1>6 DEF Near, N

\* Closure(succ, S) is the smallest set that contains S and, with a node, what
\* succ leads to from there.
LEMMA ClosureLeast ==
  ASSUME NEW succ, NEW S, NEW X, S \subseteq X, \A n \in X : succ[n] \subseteq X
  PROVE  Closure(succ, S) \subseteq X
<1>1. PICK r : /\ Unfolds(r, succ, S, Cardinality(Node))
               /\ Closure(succ, S) = r[Cardinality(Node)]
  BY ClosureUnfolds
<1> DEFINE N == Cardinality(Node)
<1>2. N \in Nat
  BY NodesFinite, FS_CardinalityType
<1> HIDE DEF N
<1>3. Unfolds(r, succ, S, N) /\ Closure(succ, S) = r[N]
  BY <1>1 DEF N
<1>4. r[N] \subseteq X
  BY <1>2, <1>3, UnfoldedLeast
<1> QED  BY <1>3, <1>4

LEMMA ClosureContains ==
  ASSUME NEW succ, NEW S
  PROVE  S \subseteq Closure(succ, S)
<1>1. PICK r : /\ Unfolds(r, succ, S, Cardinality(Node))
               /\ Closure(succ, S) = r[Cardinality(Node)]
  BY ClosureUnfolds
<1>2. Cardinality(Node) \in Nat
  BY NodesFinite, FS_CardinalityType
<1> QED  BY <1>1, <1>2, UnfoldedGrows

LEMMA ClosureClosed ==
  ASSUME NEW succ \in [Node -> SUBSET Node], NEW S \in SUBSET Node
  PROVE  /\ Closure(succ, S) \in SUBSET Node
         /\ \A n \in Closure(succ, S) : succ[n] \subseteq Closure(succ, S)
<1>1. Closure(succ, S) \subseteq Node
  BY ClosureLeast
<1> QED  BY <1>1, ClosureUnfolds, UnfoldedCloses


----------------------------------------------------------------------------
(* The operators of Taskmaster, field by field.                            *)

\* Members of a set of nodes: in work, never finished, waited for by n or by
\* anybody, not waited for by n.
Working(d, S)    == {c \in S : d.state[c] = "executing"}
Open(d, S)       == {c \in S : d.state[c] = "pending"}
Awaited(d, S, n) == {c \in S : n \in d.wp[c]}
NewFor(d, S, n)  == {c \in S : n \notin d.wp[c]}
Blocking(d, S)   == {c \in S : d.wp[c] # {}}

\* The implicit dependencies when those who wait for what is done scan again.
Rescans(d, done) ==
    [n \in Node |-> IF \E t \in done : n \in d.wp[t] THEN NotScanned ELSE d.implicit[n]]

\* Everybody's count when what is in S is no longer waited for.
CountedDown(d, S) == [n \in Node |-> d.ref[n] - Cardinality(Awaited(d, S, n))]

LEMMA WithoutCandidateFields ==
  ASSUME NEW d, IsWalk(d)
  PROVE  LET e == WithoutCandidate(d)
         IN  /\ e.state = d.state /\ e.ref = d.ref /\ e.wp = d.wp /\ e.wse = d.wse
             /\ e.implicit = d.implicit /\ e.pending = d.pending /\ e.stopped = d.stopped
BY DEF WithoutCandidate, IsWalk

LEMMA VisitedFields ==
  ASSUME NEW d, IsWalk(d), NEW n \in Node
  PROVE  LET e == Visited(d, n)
         IN  /\ e.state = [d.state EXCEPT ![n] = IF d.state[n] = "no_state" THEN "pending" ELSE d.state[n]]
             /\ e.ref = d.ref /\ e.wp = d.wp /\ e.wse = d.wse /\ e.cand = d.cand
             /\ e.implicit = d.implicit /\ e.pending = d.pending /\ e.stopped = d.stopped
<1> DEFINE st == [d.state EXCEPT ![n] = IF d.state[n] = "no_state" THEN "pending" ELSE d.state[n]]
           e  == Visited(d, n)
<1>1. e = [d EXCEPT !.state = st]
  BY DEF Visited
<1> HIDE DEF st, e
<1>2. /\ e.state = st /\ e.ref = d.ref /\ e.wp = d.wp /\ e.wse = d.wse /\ e.cand = d.cand
      /\ e.implicit = d.implicit /\ e.pending = d.pending /\ e.stopped = d.stopped
  BY <1>1 DEF IsWalk
<1> QED  BY <1>2 DEF st, e

LEMMA ScannedFields ==
  ASSUME NEW p, NEW d, IsWalk(d), NEW fresh, NEW n \in Node
  PROVE  LET e     == Scanned(p, d, fresh, n)
             T     == Targets(p, n) \cap p.builder
             found == IF n \in p.builder THEN Found(p, d, fresh, n) ELSE {}
             again == \E t \in T : d.implicit[t] = NotScanned
         IN  /\ e.implicit = [t \in Node |->
                  CASE t \in T /\ again ->
                          IF d.implicit[t] = NotScanned THEN found ELSE d.implicit[t] \cup found
                    [] t = n /\ T = {} -> {}
                    [] OTHER -> d.implicit[t]]
             /\ e.state = d.state /\ e.ref = d.ref /\ e.wp = d.wp /\ e.wse = d.wse /\ e.cand = d.cand
             /\ e.pending = d.pending /\ e.stopped = d.stopped
<1> DEFINE e     == Scanned(p, d, fresh, n)
           T     == Targets(p, n) \cap p.builder
           found == IF n \in p.builder THEN Found(p, d, fresh, n) ELSE {}
           again == \E t \in T : d.implicit[t] = NotScanned
           i     == [t \in Node |->
                  CASE t \in T /\ again ->
                          IF d.implicit[t] = NotScanned THEN found ELSE d.implicit[t] \cup found
                    [] t = n /\ T = {} -> {}
                    [] OTHER -> d.implicit[t]]
<1>1. e = [d EXCEPT !.implicit = i]
  BY DEF Scanned
<1> HIDE DEF e, i, T, found, again
<1>2. /\ e.implicit = i
      /\ e.state = d.state /\ e.ref = d.ref /\ e.wp = d.wp /\ e.wse = d.wse /\ e.cand = d.cand
      /\ e.pending = d.pending /\ e.stopped = d.stopped
  BY <1>1 DEF IsWalk
<1> QED  BY <1>2 DEF e, i, T, found, again

LEMMA PushFields ==
  ASSUME NEW d, IsWalk(d), NEW order
  PROVE  LET e == Push(d, order)
         IN  /\ e.state = d.state /\ e.ref = d.ref /\ e.wp = d.wp /\ e.wse = d.wse
             /\ e.cand = d.cand \o order
             /\ e.implicit = d.implicit /\ e.pending = d.pending /\ e.stopped = d.stopped
<1> DEFINE e == Push(d, order)
           c == d.cand \o order
<1>1. e = [d EXCEPT !.cand = c]
  BY DEF Push
<1> HIDE DEF e, c
<1>2. /\ e.state = d.state /\ e.ref = d.ref /\ e.wp = d.wp /\ e.wse = d.wse /\ e.cand = c
      /\ e.implicit = d.implicit /\ e.pending = d.pending /\ e.stopped = d.stopped
  BY <1>1 DEF IsWalk
<1> QED  BY <1>2 DEF e, c

LEMMA GiveUpFields ==
  ASSUME NEW p, NEW d, IsWalk(d), NEW n \in Node
  PROVE  LET e == GiveUp(p, d, n)
         IN  /\ (\A t \in Node : e.state[t] = IF t \in ActionTargets(p, n) THEN "failed" ELSE d.state[t])
             /\ e.ref = d.ref /\ e.wp = d.wp /\ e.wse = d.wse /\ e.cand = d.cand
             /\ e.implicit = d.implicit /\ e.pending = d.pending /\ e.stopped = d.stopped
<1> DEFINE e  == GiveUp(p, d, n)
           st == [t \in Node |-> IF t \in ActionTargets(p, n) THEN "failed" ELSE d.state[t]]
<1>1. e = [d EXCEPT !.state = st]
  BY DEF GiveUp
<1> HIDE DEF e, st
<1>2. /\ e.state = st /\ e.ref = d.ref /\ e.wp = d.wp /\ e.wse = d.wse /\ e.cand = d.cand
      /\ e.implicit = d.implicit /\ e.pending = d.pending /\ e.stopped = d.stopped
  BY <1>1 DEF IsWalk
<1> QED  BY <1>2 DEF e, st

\* What the step that makes n wait leaves.
Waiting(d, n, kids, cand) == [WaitFor(d, n, kids) EXCEPT !.cand = cand]

LEMMA WaitForFields ==
  ASSUME NEW d, IsWalk(d), NEW n \in Node, NEW kids, NEW cand
  PROVE  LET slow == NotReady(d, kids)
             e    == Waiting(d, n, kids, cand)
         IN  /\ \A c \in Node : e.wp[c] = IF c \in slow THEN d.wp[c] \cup {n} ELSE d.wp[c]
             /\ e.state = d.state /\ e.wse = d.wse /\ e.cand = cand
             /\ e.implicit = d.implicit /\ e.stopped = d.stopped
<1> DEFINE slow == NotReady(d, kids)
           e    == Waiting(d, n, kids, cand)
           w    == [c \in Node |-> IF c \in slow THEN d.wp[c] \cup {n} ELSE d.wp[c]]
<1>1. PICK r, q : e = [[d EXCEPT !.ref = r, !.wp = w, !.pending = q] EXCEPT !.cand = cand]
  BY DEF Waiting, WaitFor
<1> HIDE DEF e, w
<1>2. /\ e.wp = w
      /\ e.state = d.state /\ e.wse = d.wse /\ e.cand = cand
      /\ e.implicit = d.implicit /\ e.stopped = d.stopped
  BY <1>1 DEF IsWalk
<1> QED  BY <1>2 DEF e, w

LEMMA WaitForCounts ==
  ASSUME NEW d, IsWalk(d), NEW n \in Node, NEW kids, NEW cand
  PROVE  LET slow == NotReady(d, kids)
             e    == Waiting(d, n, kids, cand)
         IN  /\ e.ref = [d.ref EXCEPT ![n] = d.ref[n] + Cardinality(NewFor(d, slow, n))]
             /\ e.pending = d.pending \cup Open(d, kids)
             /\ e.implicit = d.implicit
<1> DEFINE slow == NotReady(d, kids)
           e    == Waiting(d, n, kids, cand)
           r    == [d.ref EXCEPT ![n] = d.ref[n] + Cardinality(NewFor(d, slow, n))]
           w    == [c \in Node |-> IF c \in slow THEN d.wp[c] \cup {n} ELSE d.wp[c]]
           q    == d.pending \cup Open(d, kids)
<1>1. e = [[d EXCEPT !.ref = r, !.wp = w, !.pending = q] EXCEPT !.cand = cand]
  BY DEF Waiting, WaitFor, NewFor, Open
<1> HIDE DEF e, r, w, q
<1>2. e.ref = r /\ e.pending = q /\ e.implicit = d.implicit
  BY <1>1 DEF IsWalk
<1> QED  BY <1>2 DEF e, r, q

LEMMA WaitForEffectsFields ==
  ASSUME NEW p, NEW d, IsWalk(d), NEW n \in Node
  PROVE  LET e == WaitForEffects(p, d, n)
         IN  /\ e.state = d.state /\ e.ref = d.ref /\ e.wp = d.wp /\ e.cand = d.cand
             /\ e.implicit = d.implicit /\ e.pending = d.pending /\ e.stopped = d.stopped
<1> DEFINE e == WaitForEffects(p, d, n)
<1>1. PICK w : e = [d EXCEPT !.wse = w]
  BY DEF WaitForEffects
<1> HIDE DEF e
<1>2. /\ e.state = d.state /\ e.ref = d.ref /\ e.wp = d.wp /\ e.cand = d.cand
      /\ e.implicit = d.implicit /\ e.pending = d.pending /\ e.stopped = d.stopped
  BY <1>1 DEF IsWalk
<1> QED  BY <1>2 DEF e

LEMMA UpToDateFields ==
  ASSUME NEW d, IsWalk(d), NEW T
  PROVE  LET e == UpToDate(d, T)
         IN  /\ \A n \in Node : e.state[n] = IF n \in T THEN "up_to_date" ELSE d.state[n]
             /\ e.ref = d.ref /\ e.wp = d.wp /\ e.wse = d.wse /\ e.cand = d.cand
             /\ e.implicit = d.implicit /\ e.pending = d.pending /\ e.stopped = d.stopped
<1> DEFINE e  == UpToDate(d, T)
           st == [n \in Node |-> IF n \in T THEN "up_to_date" ELSE d.state[n]]
<1>1. e = [d EXCEPT !.state = st]
  BY DEF UpToDate
<1> HIDE DEF e, st
<1>2. /\ e.state = st /\ e.ref = d.ref /\ e.wp = d.wp /\ e.wse = d.wse /\ e.cand = d.cand
      /\ e.implicit = d.implicit /\ e.pending = d.pending /\ e.stopped = d.stopped
  BY <1>1 DEF IsWalk
<1> QED  BY <1>2 DEF e, st

LEMMA MarkedFields ==
  ASSUME NEW p, NEW d, IsWalk(d), NEW T
  PROVE  LET e == Marked(p, d, T)
         IN  /\ \A n \in Node : e.state[n] = IF n \in T \cup Effects(p, T) THEN "executing" ELSE d.state[n]
             /\ e.ref = d.ref /\ e.wp = d.wp /\ e.wse = d.wse /\ e.cand = d.cand
             /\ e.implicit = d.implicit /\ e.pending = d.pending /\ e.stopped = d.stopped
<1> DEFINE e  == Marked(p, d, T)
           st == [n \in Node |-> IF n \in T \cup Effects(p, T) THEN "executing" ELSE d.state[n]]
<1>1. e = [d EXCEPT !.state = st]
  BY DEF Marked
<1> HIDE DEF e, st
<1>2. /\ e.state = st /\ e.ref = d.ref /\ e.wp = d.wp /\ e.wse = d.wse /\ e.cand = d.cand
      /\ e.implicit = d.implicit /\ e.pending = d.pending /\ e.stopped = d.stopped
  BY <1>1 DEF IsWalk
<1> QED  BY <1>2 DEF e, st

LEMMA ReleasedFields ==
  ASSUME NEW p, NEW d, IsWalk(d), NEW T
  PROVE  LET e    == Released(p, d, T)
             done == Working(d, T)
         IN  /\ \A n \in Node : e.state[n] =
                  CASE n \in done -> "executed"
                    [] n \in Effects(p, done) \ done -> "no_state"
                    [] OTHER -> d.state[n]
             /\ e.ref = d.ref /\ e.wp = d.wp /\ e.wse = d.wse /\ e.cand = d.cand
             /\ e.implicit = d.implicit /\ e.pending = d.pending /\ e.stopped = d.stopped
<1> DEFINE e    == Released(p, d, T)
           done == Working(d, T)
           st   == [n \in Node |-> CASE n \in done -> "executed"
                                     [] n \in Effects(p, done) \ done -> "no_state"
                                     [] OTHER -> d.state[n]]
<1>1. e = [d EXCEPT !.state = st]
  BY DEF Released, Working
<1> HIDE DEF e, st
<1>2. /\ e.state = st
      /\ e.ref = d.ref /\ e.wp = d.wp /\ e.wse = d.wse /\ e.cand = d.cand
      /\ e.implicit = d.implicit /\ e.pending = d.pending /\ e.stopped = d.stopped
  BY <1>1 DEF IsWalk
<1> QED  BY <1>2 DEF e, st

LEMMA ExecutedFields ==
  ASSUME NEW p, Sane(p), NEW d, IsWalk(d), NEW T \in SUBSET Node
  PROVE  LET e    == Executed(p, d, T)
             done == Working(d, T)
         IN  /\ e.state = Released(p, d, T).state
             /\ e.implicit = Rescans(d, done)
             /\ e.ref = d.ref /\ e.wp = d.wp /\ e.wse = d.wse /\ e.cand = d.cand
             /\ e.pending = d.pending /\ e.stopped = d.stopped
<1> DEFINE e    == Executed(p, d, T)
           r    == Released(p, d, T)
           done == Working(d, T)
           i    == [n \in Node |-> IF \E t \in done : n \in d.wp[t] THEN NotScanned ELSE r.implicit[n]]
<1>1. e = [r EXCEPT !.implicit = i]
  BY DEF Executed, Working
<1>2. Later(p, d, r)
  BY ReleasedWalk
<1> HIDE DEF e, i
<1>3. /\ r.ref = d.ref /\ r.wp = d.wp /\ r.wse = d.wse /\ r.cand = d.cand
      /\ r.implicit = d.implicit /\ r.pending = d.pending /\ r.stopped = d.stopped
  <2>1. PICK st : r = [d EXCEPT !.state = st]
    BY DEF Released
  <2> HIDE DEF r
  <2> QED  BY <2>1 DEF IsWalk
<1> HIDE DEF r
<1>4. /\ e.implicit = i /\ e.state = r.state
      /\ e.ref = r.ref /\ e.wp = r.wp /\ e.wse = r.wse /\ e.cand = r.cand
      /\ e.pending = r.pending /\ e.stopped = r.stopped
  BY <1>1, <1>2 DEF IsWalk, Later
<1> QED  BY <1>3, <1>4 DEF e, i, r, Rescans

LEMMA WillNotBuildFields ==
  ASSUME NEW d, IsWalk(d), NEW nodes, NEW failed \in BOOLEAN
  PROVE  LET e    == WillNotBuild(d, nodes, failed)
             gone == Closure(d.wp, nodes)
         IN  /\ \A n \in Node : e.state[n] = IF failed /\ n \in gone THEN "failed" ELSE d.state[n]
             /\ e.ref   = CountedDown(d, gone)
             /\ \A n \in Node : e.wp[n] = IF n \in gone THEN {} ELSE d.wp[n]
             /\ e.pending = d.pending \ gone
             /\ e.wse = d.wse /\ e.cand = d.cand /\ e.implicit = d.implicit /\ e.stopped = d.stopped
<1> DEFINE e    == WillNotBuild(d, nodes, failed)
           gone == Closure(d.wp, nodes)
           st   == [n \in Node |-> IF failed /\ n \in gone THEN "failed" ELSE d.state[n]]
           r    == CountedDown(d, gone)
           w    == [n \in Node |-> IF n \in gone THEN {} ELSE d.wp[n]]
           q    == d.pending \ gone
<1>1. e = [d EXCEPT !.state = st, !.ref = r, !.wp = w, !.pending = q]
  BY DEF WillNotBuild, Awaited, CountedDown
<1> HIDE DEF e, st, r, w, q
<1>2. /\ e.state = st /\ e.ref = r /\ e.wp = w /\ e.pending = q
      /\ e.wse = d.wse /\ e.cand = d.cand /\ e.implicit = d.implicit /\ e.stopped = d.stopped
  BY <1>1 DEF IsWalk
<1> QED  BY <1>2 DEF e, st, r, w, q

\* The same with the nodes marked.
GivenUp(d, nodes) == WillNotBuild(d, nodes, TRUE)

LEMMA GivenUpFields ==
  ASSUME NEW d, IsWalk(d), NEW nodes
  PROVE  LET e    == GivenUp(d, nodes)
             gone == Closure(d.wp, nodes)
         IN  /\ \A n \in Node : e.state[n] = IF n \in gone THEN "failed" ELSE d.state[n]
             /\ \A n \in Node : e.wp[n] = IF n \in gone THEN {} ELSE d.wp[n]
             /\ e.wse = d.wse /\ e.cand = d.cand /\ e.implicit = d.implicit /\ e.stopped = d.stopped
<1> DEFINE failed == TRUE
           gone   == Closure(d.wp, nodes)
           e      == WillNotBuild(d, nodes, failed)
<1>1. failed \in BOOLEAN
  OBVIOUS
<1> HIDE DEF failed
<1>2. /\ \A n \in Node : e.state[n] = IF failed /\ n \in gone THEN "failed" ELSE d.state[n]
      /\ \A n \in Node : e.wp[n] = IF n \in gone THEN {} ELSE d.wp[n]
      /\ e.wse = d.wse /\ e.cand = d.cand /\ e.implicit = d.implicit /\ e.stopped = d.stopped
  BY <1>1, WillNotBuildFields
<1> QED  BY <1>2 DEF failed, GivenUp

LEMMA DrainedFields ==
  ASSUME NEW p, Sane(p), NEW d, IsWalk(d)
  PROVE  LET e == Drained(d)
             w == WillNotBuild(d, ToSet(d.cand), FALSE)
         IN  /\ e.state = w.state /\ e.ref = w.ref /\ e.wp = w.wp /\ e.wse = w.wse /\ e.cand = <<>>
             /\ e.implicit = w.implicit /\ e.pending = w.pending /\ e.stopped = w.stopped
<1> DEFINE e == Drained(d)
           w == WillNotBuild(d, ToSet(d.cand), FALSE)
<1>1. e = [w EXCEPT !.cand = <<>>]
  BY DEF Drained
<1>2. Later(p, d, w)
  BY WillNotBuildWalk
<1> HIDE DEF e, w
<1>3. /\ e.state = w.state /\ e.ref = w.ref /\ e.wp = w.wp /\ e.wse = w.wse /\ e.cand = <<>>
      /\ e.implicit = w.implicit /\ e.pending = w.pending /\ e.stopped = w.stopped
  BY <1>1, <1>2 DEF IsWalk, Later
<1> QED  BY <1>3 DEF e, w

LEMMA StoppedFields ==
  ASSUME NEW d, IsWalk(d)
  PROVE  LET e == Stopped(d)
         IN  /\ e.state = d.state /\ e.ref = d.ref /\ e.wp = d.wp /\ e.wse = d.wse /\ e.cand = d.cand
             /\ e.implicit = d.implicit /\ e.pending = d.pending /\ e.stopped = TRUE
BY DEF Stopped, IsWalk

\* What postprocess counts down for: the targets and their side effects in use.
CountedFor(p, d, T) == T \cup Working(d, Effects(p, T))

\* e is the walk d after postprocess was called for T.
IsFreed(p, d, T, e) ==
    /\ \A n \in Node : n \notin Working(d, Effects(p, T)) => e.state[n] = d.state[n]
    /\ \A n \in Node : n \in Working(d, Effects(p, T)) => e.state[n] = "no_state"
    /\ e.ref = CountedDown(d, CountedFor(p, d, T))
    /\ \A n \in Node : e.wp[n] = IF n \in T THEN {} ELSE d.wp[n]
    /\ e.pending = d.pending \ Blocking(d, T)
    /\ e.wse = d.wse /\ e.implicit = d.implicit /\ e.stopped = d.stopped

LEMMA PostprocessedFields ==
  ASSUME NEW p, NEW d, IsWalk(d), NEW T, NEW e \in Postprocessed(p, d, T)
  PROVE  IsFreed(p, d, T, e)
<1> DEFINE held    == Working(d, Effects(p, T))
           counted == T \cup held
           ref     == CountedDown(d, counted)
           st      == [n \in Node |-> IF n \in held THEN "no_state" ELSE d.state[n]]
           w       == [n \in Node |-> IF n \in T THEN {} ELSE d.wp[n]]
           q       == d.pending \ Blocking(d, T)
<1>1. PICK order : e = [d EXCEPT !.state = st, !.ref = ref, !.wp = w, !.pending = q,
                                 !.cand = @ \o order]
  BY Zenon DEF Postprocessed, Awaited, CountedDown, Working, Blocking
<1> HIDE DEF st, ref, w, q
<1>2. /\ e.state = st /\ e.ref = ref /\ e.wp = w /\ e.pending = q
      /\ e.wse = d.wse /\ e.implicit = d.implicit /\ e.stopped = d.stopped
  BY <1>1 DEF IsWalk
<1> QED  BY <1>2 DEF st, ref, w, q, CountedFor, IsFreed


----------------------------------------------------------------------------
(* A look at a candidate, taken apart.                                     *)

\* The walk when candidate n was taken and when it was scanned.
Begin(n)       == Visited(WithoutCandidate(dag), n)
Seen(n, fresh) == Scanned(OnDisk, Begin(n), fresh, n)

Looks(n, d, kids, order) ==
    \/ /\ ChildFailed(d, kids)
       /\ dag' = GiveUp(project, Push(d, order), n) /\ pc' = "next" /\ UNCHANGED <<task, raised>>
    \/ /\ ~ChildFailed(d, kids) /\ NotReady(d, kids) # {}
       /\ dag' = Waiting(d, n, kids, Push(d, order).cand)
       /\ pc' = "next" /\ UNCHANGED <<task, raised>>
    \/ /\ ~ChildFailed(d, kids) /\ NotReady(d, kids) = {} /\ BusyEffects(project, d, n) # {}
       /\ dag' = WaitForEffects(project, d, n) /\ pc' = "next" /\ UNCHANGED <<task, raised>>
    \/ /\ ~ChildFailed(d, kids) /\ NotReady(d, kids) = {} /\ BusyEffects(project, d, n) = {}
       /\ dag' \in Ready(project, d, n) /\ pc' = "prepare" /\ task' = n /\ raised' = FALSE
    \/ /\ ~ChildFailed(d, kids) /\ NotReady(d, kids) = {} /\ BusyEffects(project, d, n) = {}
       /\ CannotTell /\ dag' = d /\ pc' = "prepare" /\ task' = n /\ raised' = TRUE

LEMMA BeginFields ==
  ASSUME Types, Entered, Candidates
  PROVE  LET n == Candidate(dag)
             e == Begin(n)
         IN  /\ n \in Node /\ IsWalk(e)
             /\ e.state = [dag.state EXCEPT ![n] = IF dag.state[n] = "no_state" THEN "pending" ELSE dag.state[n]]
             /\ e.ref = dag.ref /\ e.wp = dag.wp /\ e.wse = dag.wse
             /\ e.implicit = dag.implicit /\ e.pending = dag.pending /\ e.stopped = dag.stopped
<1> DEFINE n == Candidate(dag)
           w == WithoutCandidate(dag)
<1>1. IsWalk(dag) /\ HasCandidate(dag) /\ Sane(project)
  BY ProjectSane DEF Types, Candidates
<1>2. n \in Node /\ IsWalk(w)
  BY <1>1, WithoutCandidateWalk DEF Later
<1>3. /\ w.state = dag.state /\ w.ref = dag.ref /\ w.wp = dag.wp /\ w.wse = dag.wse
      /\ w.implicit = dag.implicit /\ w.pending = dag.pending /\ w.stopped = dag.stopped
  BY <1>1, WithoutCandidateFields
<1> HIDE DEF n, w
<1>4. IsWalk(Visited(w, n))
  BY <1>1, <1>2, VisitedWalk DEF Later
<1>5. LET e == Visited(w, n)
      IN  /\ e.state = [w.state EXCEPT ![n] = IF w.state[n] = "no_state" THEN "pending" ELSE w.state[n]]
          /\ e.ref = w.ref /\ e.wp = w.wp /\ e.wse = w.wse
          /\ e.implicit = w.implicit /\ e.pending = w.pending /\ e.stopped = w.stopped
  BY <1>2, VisitedFields
<1> QED  BY <1>2, <1>3, <1>4, <1>5 DEF Begin, n, w

LEMMA ExamineLooks ==
  ASSUME Types, Entered, Examine
  PROVE  LET n == Candidate(dag)
         IN  /\ n \in Node /\ dag.state[n] \notin Handled /\ pc = "look"
             /\ UNCHANGED <<project, options, pool, ended>>
             /\ \E fresh \in SUBSET BeingWritten(Begin(n)) :
                  LET d    == Seen(n, fresh)
                      kids == Children(project, d, n)
                  IN  \E order \in PushOrders(d, kids) : Looks(n, d, kids, order)
<1> DEFINE n == Candidate(dag)
<1>1. n \in Node /\ dag.state[n] \notin Handled /\ pc = "look"
  BY BeginFields DEF Examine, Candidates
<1>2. PICK fresh \in SUBSET BeingWritten(Begin(n)) :
        LET d    == Seen(n, fresh)
            kids == Children(project, d, n)
        IN  \E order \in PushOrders(d, kids) :
              LET d2 == Push(d, order)
              IN  \/ /\ ChildFailed(d, kids)
                     /\ dag' = GiveUp(project, d2, n)
                     /\ pc' = "next" /\ UNCHANGED <<project, options, task, raised, pool, ended>>
                  \/ /\ ~ChildFailed(d, kids) /\ NotReady(d, kids) # {}
                     /\ dag' = [WaitFor(d, n, kids) EXCEPT !.cand = d2.cand]
                     /\ pc' = "next" /\ UNCHANGED <<project, options, task, raised, pool, ended>>
                  \/ /\ ~ChildFailed(d, kids) /\ NotReady(d, kids) = {}
                     /\ BusyEffects(project, d, n) # {}
                     /\ dag' = WaitForEffects(project, d, n)
                     /\ pc' = "next" /\ UNCHANGED <<project, options, task, raised, pool, ended>>
                  \/ /\ ~ChildFailed(d, kids) /\ NotReady(d, kids) = {}
                     /\ BusyEffects(project, d, n) = {}
                     /\ \/ \E e \in Ready(project, d, n) : Hand(n, e, FALSE)
                        \/ CannotTell /\ n \in project.builder /\ Hand(n, d, TRUE)
  BY Zenon DEF Examine, Begin, Seen
<1> DEFINE d    == Seen(n, fresh)
           kids == Children(project, d, n)
<1>3. PICK order \in PushOrders(d, kids) :
        LET d2 == Push(d, order)
        IN  \/ /\ ChildFailed(d, kids)
               /\ dag' = GiveUp(project, d2, n)
               /\ pc' = "next" /\ UNCHANGED <<project, options, task, raised, pool, ended>>
            \/ /\ ~ChildFailed(d, kids) /\ NotReady(d, kids) # {}
               /\ dag' = [WaitFor(d, n, kids) EXCEPT !.cand = d2.cand]
               /\ pc' = "next" /\ UNCHANGED <<project, options, task, raised, pool, ended>>
            \/ /\ ~ChildFailed(d, kids) /\ NotReady(d, kids) = {}
               /\ BusyEffects(project, d, n) # {}
               /\ dag' = WaitForEffects(project, d, n)
               /\ pc' = "next" /\ UNCHANGED <<project, options, task, raised, pool, ended>>
            \/ /\ ~ChildFailed(d, kids) /\ NotReady(d, kids) = {}
               /\ BusyEffects(project, d, n) = {}
               /\ \/ \E e \in Ready(project, d, n) : Hand(n, e, FALSE)
                  \/ CannotTell /\ n \in project.builder /\ Hand(n, d, TRUE)
  BY <1>2, Zenon
<1> HIDE DEF n, d, kids
<1>4. Looks(n, d, kids, order) /\ UNCHANGED <<project, options, pool, ended>>
  BY <1>3 DEF Looks, Hand, Waiting
<1>5. \E f \in SUBSET BeingWritten(Begin(n)) :
        \E o \in PushOrders(Seen(n, f), Children(project, Seen(n, f), n)) :
            Looks(n, Seen(n, f), Children(project, Seen(n, f), n), o)
  BY <1>4, Zenon DEF d, kids
<1> QED  BY <1>1, <1>4, <1>5, Zenon DEF n

LEMMA ScanRaisesLooks ==
  ASSUME Types, Entered, ScanRaises
  PROVE  LET n == Candidate(dag)
         IN  /\ n \in Node /\ dag.state[n] \notin Handled /\ pc = "look" /\ n \in project.builder
             /\ "scan" \in options.faults
             /\ UNCHANGED <<project, options, pool, ended>> /\ pc' = "prepare" /\ task' = n /\ raised' = TRUE
             /\ dag' \in Ready(project, Begin(n), n) \/ (CannotTell /\ dag' = Begin(n))
<1> DEFINE n == Candidate(dag)
<1>1. n \in Node /\ dag.state[n] \notin Handled /\ pc = "look" /\ n \in project.builder /\ "scan" \in options.faults
  BY BeginFields DEF ScanRaises, Candidates
<1>2. PICK e \in Ready(project, Begin(n), n) \cup {f \in {Begin(n)} : CannotTell} : Hand(n, e, TRUE)
  BY DEF ScanRaises, Begin
<1> HIDE DEF n
<1>3. /\ UNCHANGED <<project, options, pool, ended>> /\ pc' = "prepare" /\ task' = n /\ raised' = TRUE
      /\ dag' \in Ready(project, Begin(n), n) \/ (CannotTell /\ dag' = Begin(n))
  BY <1>2 DEF Hand
<1> QED  BY <1>1, <1>3 DEF n


----------------------------------------------------------------------------
(* Types: what WalkTypes leaves out.                                       *)

Tracked(d) ==
    /\ d.ref \in [Node -> Int] /\ d.pending \in SUBSET Node
    /\ d.implicit \in [Node -> (SUBSET Node) \cup {NotScanned}]

LEMMA NodesCounted ==
  ASSUME NEW S \in SUBSET Node
  PROVE  IsFiniteSet(S) /\ Cardinality(S) \in Nat
BY NodesFinite, FS_Subset, FS_CardinalityType

\* What is on the disk is a project as well, with the same targets.
LEMMA OnDiskSane ==
  ASSUME Types
  PROVE  /\ Sane(OnDisk) /\ OnDisk.builder = project.builder /\ OnDisk.before = project.before
         /\ \A n : Targets(OnDisk, n) = Targets(project, n) /\ Sources(OnDisk, n) = Sources(project, n)
         /\ options.class # "clean" => OnDisk = project
<1>1. CASE options.class # "clean"
  BY <1>1, ProjectSane DEF OnDisk
<1>2. CASE options.class = "clean"
  <2> DEFINE i == [f \in Node |-> IF f \in project.builder THEN {} ELSE project.includes[f]]
  <2>1. OnDisk = [project EXCEPT !.includes = i]
    BY <1>2 DEF OnDisk
  <2>2. i \in [Node -> SUBSET Node]
    BY ProjectSane DEF Sane
  <2> HIDE DEF i
  <2>3. /\ OnDisk.targets = project.targets /\ OnDisk.sources = project.sources
        /\ OnDisk.prereqs = project.prereqs /\ OnDisk.top = project.top /\ OnDisk.includes = i
        /\ OnDisk.before = project.before /\ OnDisk.builder = project.builder
        /\ OnDisk.effects = project.effects
    <3>1. project \in [targets  : [Node -> Seq(Node)],    sources : [Node -> Seq(Node)],
                       prereqs  : [Node -> Seq(Node)],    top     : Seq(Node),
                       includes : [Node -> SUBSET Node],  before  : [Node -> SUBSET Node],
                       effects  : [Node -> SUBSET Node],  builder : SUBSET Node, missing : SUBSET Node]
      BY ProjectAssumption DEF Types
    <3> QED  BY <2>1, <3>1
  <2>4. \A n : Targets(OnDisk, n) = Targets(project, n) /\ Sources(OnDisk, n) = Sources(project, n)
    BY <2>3 DEF Targets, Sources
  <2>5. Sane(OnDisk)
    BY <2>2, <2>3, <2>4, ProjectSane DEF Sane
  <2> QED  BY <1>2, <2>3, <2>4, <2>5
<1> QED  BY <1>1, <1>2

LEMMA SourcesAreNodes ==
  ASSUME NEW p, Sane(p), NEW n \in Node
  PROVE  Sources(p, n) \subseteq Node
<1>1. \A t \in Targets(p, n) : ToSet(p.sources[t]) \subseteq Node
  BY TargetsAreNodes, ToSetRange DEF Sane
<1> QED  BY <1>1 DEF Sources

\* What a scan shows of each file.
Shown(p, d, fresh) == [f \in Node |-> Shows(p, d, fresh, f)]

LEMMA FoundNodes ==
  ASSUME NEW p, Sane(p), NEW d, NEW fresh, NEW n \in Node
  PROVE  /\ Shown(p, d, fresh) \in [Node -> SUBSET Node]
         /\ Found(p, d, fresh, n) \in SUBSET Node
         /\ \A m \in Found(p, d, fresh, n) : Shown(p, d, fresh)[m] \subseteq Found(p, d, fresh, n)
         /\ \A s \in Sources(p, n) : Shown(p, d, fresh)[s] \subseteq Found(p, d, fresh, n)
<1> DEFINE shown == Shown(p, d, fresh)
           first == UNION {shown[s] : s \in Sources(p, n)}
<1>1. shown \in [Node -> SUBSET Node]
  BY DEF Shown, Shows, Sane
<1>2. Found(p, d, fresh, n) = Closure(shown, first)
  BY DEF Found, Shown
<1> HIDE DEF shown
<1>3. first \in SUBSET Node
  BY <1>1, SourcesAreNodes
<1>4. \A s \in Sources(p, n) : shown[s] \subseteq first
  OBVIOUS
<1> HIDE DEF first
<1>5. first \subseteq Closure(shown, first)
  BY ClosureContains
<1>6. /\ Closure(shown, first) \in SUBSET Node
      /\ \A m \in Closure(shown, first) : shown[m] \subseteq Closure(shown, first)
  BY <1>1, <1>3, ClosureClosed
<1>7. \A s \in Sources(p, n) : shown[s] \subseteq Closure(shown, first)
  BY <1>4, <1>5
<1> QED  BY <1>1, <1>2, <1>6, <1>7 DEF shown

LEMMA TrackedSame ==
  ASSUME NEW d, Tracked(d), NEW e, e.ref = d.ref, e.pending = d.pending, e.implicit = d.implicit
  PROVE  Tracked(e)
BY DEF Tracked

LEMMA ScannedTracked ==
  ASSUME NEW p, Sane(p), NEW d, IsWalk(d), Tracked(d), NEW fresh, NEW n \in Node
  PROVE  Tracked(Scanned(p, d, fresh, n))
<1> DEFINE e     == Scanned(p, d, fresh, n)
           T     == Targets(p, n) \cap p.builder
           found == IF n \in p.builder THEN Found(p, d, fresh, n) ELSE {}
           again == \E t \in T : d.implicit[t] = NotScanned
<1>1. /\ e.implicit = [t \in Node |->
                  CASE t \in T /\ again ->
                          IF d.implicit[t] = NotScanned THEN found ELSE d.implicit[t] \cup found
                    [] t = n /\ T = {} -> {}
                    [] OTHER -> d.implicit[t]]
      /\ e.ref = d.ref /\ e.pending = d.pending
  BY ScannedFields
<1>2. found \in SUBSET Node
  BY FoundNodes
<1> HIDE DEF e, found, again
<1>3. e.implicit \in [Node -> (SUBSET Node) \cup {NotScanned}]
  BY <1>1, <1>2 DEF Tracked
<1> QED  BY <1>1, <1>3 DEF Tracked, e

LEMMA WaitForTracked ==
  ASSUME NEW d, IsWalk(d), Tracked(d), NEW n \in Node, NEW kids \in SUBSET Node, NEW cand
  PROVE  Tracked(Waiting(d, n, kids, cand))
<1> DEFINE e    == Waiting(d, n, kids, cand)
           slow == NotReady(d, kids)
           new  == NewFor(d, slow, n)
<1>1. /\ e.ref = [d.ref EXCEPT ![n] = d.ref[n] + Cardinality(new)]
      /\ e.pending = d.pending \cup Open(d, kids)
      /\ e.implicit = d.implicit
  BY WaitForCounts
<1>2. new \in SUBSET Node
  BY DEF NotReady, NewFor
<1> HIDE DEF e, new
<1>3. Cardinality(new) \in Nat
  BY <1>2, NodesCounted
<1>4. Open(d, kids) \in SUBSET Node
  BY DEF Open
<1>5. Tracked(e)
  BY <1>1, <1>3, <1>4 DEF Tracked
<1> QED  BY <1>5 DEF e

LEMMA CountedDownType ==
  ASSUME NEW d, Tracked(d), NEW S \in SUBSET Node
  PROVE  CountedDown(d, S) \in [Node -> Int]
<1>1. ASSUME NEW n \in Node
      PROVE  Cardinality(Awaited(d, S, n)) \in Nat
  BY NodesCounted DEF Awaited
<1> QED  BY <1>1 DEF Tracked, CountedDown

LEMMA WillNotBuildTracked ==
  ASSUME NEW d, IsWalk(d), Tracked(d), NEW nodes \in SUBSET Node, NEW failed \in BOOLEAN
  PROVE  Tracked(WillNotBuild(d, nodes, failed))
<1> DEFINE e    == WillNotBuild(d, nodes, failed)
           gone == Closure(d.wp, nodes)
<1>1. /\ e.ref   = CountedDown(d, gone)
      /\ e.pending = d.pending \ gone /\ e.implicit = d.implicit
  BY WillNotBuildFields
<1>2. gone \in SUBSET Node
  BY ClosureClosed DEF IsWalk
<1> HIDE DEF e, gone
<1>3. e.ref \in [Node -> Int]
  BY <1>1, <1>2, CountedDownType
<1> QED  BY <1>1, <1>3 DEF Tracked, e

LEMMA PostprocessedTracked ==
  ASSUME NEW p, Sane(p), NEW d, IsWalk(d), Tracked(d), NEW T \in SUBSET Node, NEW e \in Postprocessed(p, d, T)
  PROVE  Tracked(e)
<1> DEFINE counted == CountedFor(p, d, T)
<1>1. /\ e.ref = CountedDown(d, counted)
      /\ e.pending = d.pending \ Blocking(d, T)
      /\ e.implicit = d.implicit
  BY PostprocessedFields DEF IsFreed
<1>2. counted \in SUBSET Node
  BY DEF CountedFor, Working, Effects, Sane
<1> HIDE DEF counted
<1>3. e.ref \in [Node -> Int]
  BY <1>1, <1>2, CountedDownType
<1> QED  BY <1>1, <1>3 DEF Tracked


----------------------------------------------------------------------------
(* The end of a task, taken apart.                                         *)

\* after: the walk before postprocess; over: what postprocess is called for.
Ends(n, after, over) ==
    \/ /\ options.class = "build" /\ over = Targets(project, n)
       /\ after = Executed(project, dag, over)
    \/ /\ options.class = "clean" /\ over = Targets(project, n)
       /\ after = Released(project, dag, over)
    \/ /\ options.class = "question" /\ over = Targets(project, n) /\ after = dag
    \/ /\ Policy = "keep_going" /\ over = Targets(project, n)
       /\ after = WillNotBuild(dag, over, TRUE)
    \/ /\ Policy = "stop" /\ over = {dag.currentTop}
       /\ after = Stopped(WillNotBuild(dag, Targets(project, n), TRUE))

LEMMA TaskEnds ==
  ASSUME Types, NEW n \in Node, Complete(n) \/ Fail(n)
  PROVE  \E after, over : Ends(n, after, over) /\ dag' \in Postprocessed(project, after, over)
<1> DEFINE T      == Targets(project, n)
           marked == WillNotBuild(dag, T, TRUE)
<1>1. CASE Fail(n)
  <2> DEFINE after == CASE Policy = "ignore"     -> Executed(project, dag, T)
                        [] Policy = "keep_going" -> marked
                        [] Policy = "stop"       -> Stopped(marked)
             over  == IF Policy = "stop" THEN {dag.currentTop} ELSE T
  <2>1. dag' \in Postprocessed(project, after, over)
    BY <1>1 DEF Fail
  <2>2. Ends(n, after, over)
    <3>1. Policy = "ignore" => options.class = "build"
      BY DEF Policy
    <3> QED  BY <3>1, PolicyRange DEF Ends
  <2> QED  BY <2>1, <2>2
<1>2. CASE Complete(n) /\ ~Fail(n)
  <2> DEFINE after == CASE options.class = "build"    -> Executed(project, dag, T)
                        [] options.class = "clean"    -> Released(project, dag, T)
                        [] options.class = "question" -> dag
  <2>1. dag' \in Postprocessed(project, after, T)
    BY <1>2 DEF Complete
  <2>2. Ends(n, after, T)
    BY PolicyRange DEF Ends
  <2> QED  BY <2>1, <2>2
<1> QED  BY <1>1, <1>2

LEMMA EndsWalk ==
  ASSUME Types, dag.currentTop \in Node, NEW n \in Node, NEW after, NEW over, Ends(n, after, over)
  PROVE  IsWalk(after) /\ over \in SUBSET Node
<1> DEFINE T == Targets(project, n)
           m == WillNotBuild(dag, T, TRUE)
<1>1. T \in SUBSET Node /\ IsWalk(dag) /\ Sane(project)
  BY ProjectSane, TargetsAreNodes DEF Types
<1> HIDE DEF T
<1>2. IsWalk(Executed(project, dag, T)) /\ IsWalk(Released(project, dag, T)) /\ IsWalk(m)
  BY <1>1, ExecutedWalk, ReleasedWalk, WillNotBuildWalk DEF Later
<1>3. IsWalk(Stopped(m))
  <2> HIDE DEF m
  <2> QED  BY <1>1, <1>2, StoppedWalk DEF Later
<1> QED  BY <1>1, <1>2, <1>3 DEF Ends, T

LEMMA EndsTracked ==
  ASSUME Types, dag.currentTop \in Node, Tracked(dag), NEW n \in Node, Complete(n) \/ Fail(n)
  PROVE  Tracked(dag')
<1>1. PICK after, over : Ends(n, after, over) /\ dag' \in Postprocessed(project, after, over)
  BY TaskEnds
<1> DEFINE T == Targets(project, n)
           m == WillNotBuild(dag, T, TRUE)
<1>2. T \in SUBSET Node /\ IsWalk(dag) /\ Sane(project) /\ IsWalk(after) /\ over \in SUBSET Node
  BY <1>1, EndsWalk, ProjectSane, TargetsAreNodes DEF Types
<1> HIDE DEF T
<1>3. Tracked(Executed(project, dag, T))
  <2> DEFINE e == Executed(project, dag, T)
             done == Working(dag, T)
  <2>1. /\ e.implicit = Rescans(dag, done)
        /\ e.ref = dag.ref /\ e.pending = dag.pending
    BY <1>2, ExecutedFields
  <2> HIDE DEF e, done
  <2>2. Rescans(dag, done) \in [Node -> (SUBSET Node) \cup {NotScanned}]
    BY DEF Tracked, Rescans
  <2>3. Tracked(e)
    BY <2>1, <2>2 DEF Tracked
  <2> QED  BY <2>3 DEF e
<1>4. Tracked(Released(project, dag, T))
  BY <1>2, ReleasedFields, TrackedSame
<1>5. Tracked(m) /\ IsWalk(m)
  BY <1>2, WillNotBuildTracked, WillNotBuildWalk DEF Later
<1>6. Tracked(Stopped(m))
  <2> HIDE DEF m
  <2> QED  BY <1>5, StoppedFields, TrackedSame
<1>7. Tracked(after)
  BY <1>1, <1>3, <1>4, <1>5, <1>6 DEF Ends, T
<1> QED  BY <1>1, <1>2, <1>7, PostprocessedTracked

LEMMA ExamineTracked ==
  ASSUME Types, Entered, Tracked(dag), Examine
  PROVE  Tracked(dag')
<1> DEFINE n == Candidate(dag)
           b == Begin(n)
<1>1. n \in Node /\ IsWalk(b) /\ Tracked(b)
  BY BeginFields, TrackedSame DEF Examine
<1>2. PICK fresh \in SUBSET BeingWritten(b) :
             \E order \in PushOrders(Seen(n, fresh), Children(project, Seen(n, fresh), n)) :
                 Looks(n, Seen(n, fresh), Children(project, Seen(n, fresh), n), order)
  BY ExamineLooks
<1> DEFINE d    == Seen(n, fresh)
           kids == Children(project, d, n)
<1>3. PICK order \in PushOrders(d, kids) : Looks(n, d, kids, order)
  BY <1>2
<1>4. IsWalk(d) /\ Tracked(d)
  <2> HIDE DEF n, b
  <2>1. Tracked(Scanned(OnDisk, b, fresh, n))
    BY <1>1, OnDiskSane, ScannedTracked
  <2>2. IsWalk(Scanned(OnDisk, b, fresh, n))
    BY <1>1, ProjectSane, ScannedWalk DEF Later
  <2> QED  BY <2>1, <2>2 DEF Seen, b
<1>5. kids \in SUBSET Node
  BY DEF Children
<1> HIDE DEF n, b, d, kids
<1>6. IsWalk(Push(d, order)) /\ Tracked(Push(d, order))
  BY <1>4, <1>5, PushWalk, PushFields, ProjectSane, TrackedSame DEF Later
<1>7. Tracked(GiveUp(project, Push(d, order), n))
  <2> DEFINE q == Push(d, order)
  <2> HIDE DEF q
  <2>1. IsWalk(q) /\ Tracked(q)
    BY <1>6 DEF q
  <2>2. Tracked(GiveUp(project, q, n))
    BY <1>1, <2>1, GiveUpFields, TrackedSame
  <2> QED  BY <2>2 DEF q
<1>8. Tracked(Waiting(d, n, kids, Push(d, order).cand))
  BY <1>1, <1>4, <1>5, WaitForTracked
<1>9. Tracked(WaitForEffects(project, d, n))
  BY <1>1, <1>4, WaitForEffectsFields, TrackedSame
<1>10. ASSUME NEW e \in Ready(project, d, n)
       PROVE  Tracked(e)
  <2>1. e \in {UpToDate(d, Targets(project, n)), Marked(project, d, Targets(project, n))}
    BY DEF Ready
  <2>2. e.ref = d.ref /\ e.pending = d.pending /\ e.implicit = d.implicit
    BY <1>4, <2>1, UpToDateFields, MarkedFields
  <2> QED  BY <1>4, <2>2, TrackedSame
<1> QED  BY <1>3, <1>4, <1>7, <1>8, <1>9, <1>10 DEF Looks


\* The rest of TypeOK, and what keeps the count of tasks within its bound:
\* the main thread asks for another task only if one more may be under way.
Bounded ==
    /\ Tracked(dag)
    /\ jobs <= options.jobs
    /\ pc \in {"next", "look", "prepare", "executed", "failed"} => jobs < options.jobs
    /\ sentinels \in Nat /\ status \in 0..2 \cup options.exits /\ cycle \in BOOLEAN /\ broken \in SUBSET Node

LEMMA EndsBounded ==
  ASSUME Types, Entered, Bounded, NEW n \in Node, Complete(n) \/ Fail(n), dag.currentTop \in Node
  PROVE  Tracked(dag') /\ status' \in 0..2 \cup options.exits /\ broken' \in SUBSET Node
<1>1. Targets(project, n) \subseteq Node
  BY ProjectSane, TargetsAreNodes
<1>2. status' \in {status, 2} \cup options.exits /\ broken' \in {broken, broken \cup Targets(project, n)}
  <2>1. ASSUME Fail(n)
        PROVE  status' \in {status, 2} \cup options.exits /\ broken' \in {broken, broken \cup Targets(project, n)}
    BY <2>1 DEF Fail, ExitStatus
  <2>2. ASSUME Complete(n), ~Fail(n)
        PROVE  UNCHANGED <<status, broken>>
    BY <2>2 DEF Complete
  <2> QED  BY <2>1, <2>2
<1> QED  BY <1>1, <1>2, EndsTracked DEF Bounded

LEMMA PoolCounted ==
  Cardinality(Pool) \in Nat
BY WorkersFinite, FS_Subset, FS_CardinalityType DEF Pool

LEMMA MainBounded ==
  ASSUME Types, Entered, Bounded, JobsCounted, MainStep
  PROVE  Bounded'
<1>0. CASE TakeCandidate
  BY <1>0 DEF TakeCandidate, Bounded, pool, ended
<1>1. CASE SkipHandled
  <2>1. IsWalk(dag) /\ pc = "look"
    BY <1>1 DEF Types, SkipHandled, Candidates
  <2>2. Tracked(dag')
    BY <1>1, <2>1, WithoutCandidateFields, TrackedSame DEF SkipHandled, Bounded
  <2> QED  BY <1>1, <2>1, <2>2 DEF SkipHandled, Bounded, pool, ended
<1>2. CASE Examine
  <2>1. Tracked(dag')
    BY <1>2, ExamineTracked DEF Bounded
  <2>2. UNCHANGED <<options, pool, ended>> /\ pc = "look"
    BY <1>2, ExamineWalk
  <2> QED  BY <2>1, <2>2 DEF Bounded, pool, ended
<1>3. CASE ScanRaises
  <2> DEFINE n == Candidate(dag)
             b == Begin(n)
  <2>1. n \in Node /\ IsWalk(b) /\ Tracked(b)
    BY <1>3, BeginFields, TrackedSame DEF ScanRaises, Bounded
  <2>2. /\ dag' \in Ready(project, b, n) \/ dag' = b
        /\ UNCHANGED <<project, options, pool, ended>>
    BY <1>3, ScanRaisesLooks
  <2> HIDE DEF n, b
  <2>3. dag' \in {UpToDate(b, Targets(project, n)), Marked(project, b, Targets(project, n)), b}
    BY <2>2 DEF Ready
  <2>4. dag'.ref = b.ref /\ dag'.pending = b.pending /\ dag'.implicit = b.implicit
    BY <2>1, <2>3, UpToDateFields, MarkedFields
  <2>5. Tracked(dag')
    BY <2>1, <2>4, TrackedSame
  <2>6. pc = "look"
    BY <1>3 DEF ScanRaises, Candidates
  <2> QED  BY <2>2, <2>5, <2>6 DEF Bounded, pool, ended
<1>4. CASE NoTaskLeft
  <2>1. Tracked(Drained(dag))
    <3> DEFINE w == WillNotBuild(dag, ToSet(dag.cand), FALSE)
    <3>1. IsWalk(dag) /\ Sane(project) /\ ToSet(dag.cand) \in SUBSET Node
      BY ProjectSane, ToSetRange DEF Types, IsWalk
    <3>2. Tracked(w)
      BY <3>1, WillNotBuildTracked DEF Bounded
    <3>3. Drained(dag).ref = w.ref /\ Drained(dag).pending = w.pending /\ Drained(dag).implicit = w.implicit
      BY <3>1, DrainedFields
    <3> QED  BY <3>2, <3>3, TrackedSame
  <2> QED  BY <1>4, <2>1 DEF NoTaskLeft, Bounded, pool, ended
<1>5. CASE PrepareFails \/ SkipCurrent \/ ConcludeSerially
  <2>1. /\ task \in Node /\ (Complete(task) \/ Fail(task)) /\ dag.currentTop \in Node
        /\ pc \in {"prepare", "executed", "failed"}
        /\ UNCHANGED <<project, options, pool, cycle>>
    BY <1>5, TaskEntered DEF PrepareFails, SkipCurrent, ConcludeSerially, Prepared, Types
  <2> QED  BY <2>1, EndsBounded DEF Bounded, pool
<1>6. CASE Dispatch
  <2>1. /\ jobs' = jobs + 1 /\ jobs < options.jobs /\ (pc' = "next" => jobs' < options.jobs)
        /\ pc' \in {"next", "wait"}
        /\ UNCHANGED <<options, dag, sentinels, ended>>
    BY <1>6 DEF Dispatch, Prepared, Bounded
  <2>2. jobs \in Int /\ options.jobs \in Nat
    BY PolicyRange DEF Types
  <2> QED  BY <2>1, <2>2 DEF Bounded, ended
<1>7. CASE ExecuteSerially
  <2>1. /\ IsWalk(dag) /\ (dag' = dag \/ dag' = Stopped(dag)) /\ (status' = status \/ status' = 1)
        /\ UNCHANGED <<options, pool, cycle, broken>> /\ pc = "prepare"
    BY <1>7 DEF ExecuteSerially, Execute, Prepared, Types
  <2>2. Tracked(dag')
    BY <2>1, StoppedFields, TrackedSame DEF Bounded
  <2> QED  BY <2>1, <2>2 DEF Bounded, pool
<1>8. CASE GetResult
  <2>1. Head(resultsQ) \in Result /\ dag.currentTop \in Node
    BY <1>8, TaskEntered DEF GetResult, Types
  <2>2. Head(resultsQ).node \in Node /\ (Complete(Head(resultsQ).node) \/ Fail(Head(resultsQ).node))
    BY <1>8, <2>1 DEF GetResult, Result
  <2>3. /\ jobs' = jobs - 1 /\ pc' \in {"next", "wait"} /\ UNCHANGED <<options, sentinels, cycle>>
    BY <1>8 DEF GetResult
  <2>4. jobs \in Int /\ options.jobs \in Nat
    BY PolicyRange DEF Types
  <2> QED  BY <2>1, <2>2, <2>3, <2>4, EndsBounded DEF Bounded
<1>9. CASE PostSentinels
  BY <1>9, PoolCounted DEF PostSentinels, Bounded, ended
<1>10. CASE Cleanup
  BY <1>10 DEF Cleanup, Bounded, pool
<1> QED  BY <1>0, <1>1, <1>2, <1>3, <1>4, <1>5, <1>6, <1>7, <1>8, <1>9, <1>10 DEF MainStep

LEMMA OtherBounded ==
  ASSUME Types, Entered, Bounded, (\E w \in Worker : WorkerStep(w)) \/ Signal \/ UNCHANGED vars
  PROVE  Bounded'
<1>1. IsWalk(dag)
  BY DEF Types
<1>2. Tracked(Stopped(dag))
  BY <1>1, StoppedFields, TrackedSame DEF Bounded
<1>3. ASSUME NEW w \in Worker, Take(w)
      PROVE  Bounded'
  <2>1. /\ dag' = dag \/ dag' = Stopped(dag)
        /\ status' = status \/ status' = 1
        /\ UNCHANGED <<options, pc, jobs, sentinels, cycle, broken>>
    BY <1>3 DEF Take, Execute
  <2> QED  BY <1>2, <2>1 DEF Bounded
<1>4. ASSUME NEW w \in Worker, Deliver(w)
      PROVE  Bounded'
  BY <1>4 DEF Deliver, Bounded, walk, ended
<1>5. ASSUME NEW w \in Worker, Quit(w)
      PROVE  Bounded'
  BY <1>5 DEF Quit, Bounded, walk, ended
<1>6. CASE Signal
  BY <1>2, <1>6 DEF Signal, Bounded, pool
<1>7. CASE UNCHANGED vars
  BY <1>7 DEF vars, walk, pool, ended, Bounded
<1> QED  BY <1>3, <1>4, <1>5, <1>6, <1>7 DEF WorkerStep

LEMMA WalkBounded == Spec => []Bounded
<1>1. Init => Bounded
  <2> SUFFICES ASSUME Init PROVE Bounded
    OBVIOUS
  <2>1. /\ dag = NewWalk(project) /\ jobs = 0 /\ sentinels = 0 /\ status = 0 /\ cycle = FALSE
        /\ broken = {} /\ options \in OptionSets
    BY DEF Init
  <2>2. Tracked(dag)
    BY <2>1 DEF NewWalk, Tracked
  <2>3. options.jobs \in Nat \ {0}
    BY <2>1, OptionAssumption
  <2>4. jobs < options.jobs /\ jobs <= options.jobs
    BY <2>1, <2>3
  <2>5. sentinels \in Nat /\ status \in 0..2 \cup options.exits
    BY <2>1
  <2>6. cycle \in BOOLEAN /\ broken \in SUBSET Node
    BY <2>1
  <2> QED  BY <2>2, <2>4, <2>5, <2>6 DEF Bounded
<1>2. Types /\ Entered /\ JobsCounted /\ Bounded /\ [Next]_vars => Bounded'
  BY MainBounded, OtherBounded DEF Next, Over
<1> QED  BY <1>1, <1>2, WalkTypes, JobsNeverLost, PTL DEF Spec

\* Every variable keeps its type, the parallel job never has more tasks under
\* way than -j allows.
THEOREM TypesHold == Spec => []TypeOK
<1>1. Types /\ JobsCounted /\ Bounded => TypeOK
  <2> SUFFICES ASSUME Types, JobsCounted, Bounded PROVE TypeOK
    OBVIOUS
  <2>1. DOMAIN dag = DOMAIN NewWalk(project)
    BY DEF Types, IsWalk, NewWalk
  <2>2. jobs \in 0..options.jobs
    <3>1. /\ Len(requestQ) \in Nat /\ Len(resultsQ) \in Nat
          /\ Cardinality({w \in Worker : worker[w].does = "run"}) \in Nat
      BY RunningCount DEF Types, RunningWorkers
    <3>2. options.jobs \in Nat /\ jobs \in Int
      BY PolicyRange DEF Types
    <3> QED  BY <3>1, <3>2 DEF JobsCounted, Bounded
  <2>3. (task # NoTask) = (pc \in {"prepare", "executed", "failed"})
    BY TaskNode DEF Types
  <2> QED  BY <2>1, <2>2, <2>3 DEF TypeOK, Types, Bounded, Tracked, IsWalk
<1> QED  BY <1>1, WalkBounded, WalkTypes, JobsNeverLost, PTL

----------------------------------------------------------------------------
(* The exit status.                                                        *)

\* With one job the main thread dispatches nothing and never waits.
SerialIdle == Serial => jobs = 0 /\ pc # "wait"

LEMMA SerialStep == SerialIdle /\ [Next]_vars => SerialIdle'
<1> SUFFICES ASSUME SerialIdle, [Next]_vars PROVE SerialIdle'
  OBVIOUS
<1>1. UNCHANGED options
  BY DEF Next, MainStep, WorkerStep, Over, vars, TakeCandidate, SkipHandled, Examine, ScanRaises, Hand, NoTaskLeft, PrepareFails,
         SkipCurrent, Dispatch, ExecuteSerially, ConcludeSerially, Take, Deliver, Quit, GetResult, PostSentinels,
         Cleanup, Signal
<1>2. Serial => UNCHANGED jobs /\ (pc' = "wait" => pc = "wait")
  <2>1. CASE Examine
    BY <2>1 DEF Examine, Hand, pool
  <2> QED  BY <2>1 DEF SerialIdle, Next, MainStep, WorkerStep, Over, vars, pool, walk, TakeCandidate, SkipHandled, ScanRaises,
         Hand, NoTaskLeft, PrepareFails, SkipCurrent, Dispatch, ExecuteSerially, ConcludeSerially, Take, Deliver, Quit, GetResult, PostSentinels,
         Cleanup, Signal
<1> QED  BY <1>1, <1>2 DEF SerialIdle, Serial

\* The end of the main thread's loop.
LEMMA LeavesLoop ==
  ASSUME [Next]_vars
  PROVE  /\ pc' \in {"join", "cleanup", "done"} => pc \in {"join", "cleanup", "done"} \/ NoTaskLeft
         /\ pc' = "done" => (pc = "done" /\ cycle' = cycle) \/ Cleanup
<1>1. CASE Examine
  BY <1>1 DEF Examine, Hand, ended, Candidates
<1> QED  BY <1>1 DEF Next, MainStep, WorkerStep, Over, vars, walk, ended, TakeCandidate, SkipHandled, Candidates,
                 ScanRaises, Hand, NoTaskLeft, PrepareFails, SkipCurrent, Dispatch, ExecuteSerially, ConcludeSerially, Take, Deliver,
                 Quit, GetResult, PostSentinels, Cleanup, Signal, Prepared

\* Nothing is under way after the loop, so no worker touches the status that
\* cleanup has set.
LoopLeft == pc \in {"join", "cleanup", "done"} => jobs = 0

LEMMA LoopStep ==
  ASSUME Types, JobsCounted, SerialIdle, LoopLeft, [Next]_vars
  PROVE  LoopLeft'
<1> SUFFICES ASSUME pc' \in {"join", "cleanup", "done"} PROVE jobs' = 0
  BY DEF LoopLeft
<1>1. Len(requestQ) \in Nat /\ Len(resultsQ) \in Nat /\ Cardinality(RunningWorkers) \in Nat
  BY RunningCount DEF Types
<1>2. jobs = Len(requestQ) + Cardinality(RunningWorkers) + Len(resultsQ)
  BY DEF JobsCounted, RunningWorkers
<1>3. CASE NoTaskLeft
  <2>1. (Serial \/ ~(jobs > 0)) /\ UNCHANGED jobs
    BY <1>3 DEF NoTaskLeft, pool
  <2> QED  BY <1>1, <1>2, <2>1 DEF SerialIdle
<1>4. CASE pc \in {"join", "cleanup", "done"}
  <2>1. ~(TakeCandidate \/ SkipHandled \/ Examine \/ ScanRaises \/ NoTaskLeft \/ PrepareFails \/ SkipCurrent \/ Dispatch
            \/ ExecuteSerially \/ ConcludeSerially \/ GetResult)
    BY <1>4 DEF TakeCandidate, SkipHandled, Examine, ScanRaises, Candidates, NoTaskLeft, PrepareFails, SkipCurrent, Dispatch,
                Prepared, ExecuteSerially, ConcludeSerially, GetResult
  <2>2. CASE PostSentinels \/ Cleanup \/ Signal \/ UNCHANGED vars
    BY <1>4, <2>2 DEF PostSentinels, Cleanup, Signal, pool, vars, LoopLeft
  <2>3. ASSUME NEW w \in Worker, WorkerStep(w)
        PROVE  UNCHANGED jobs
    BY <2>3 DEF WorkerStep, Take, Deliver, Quit
  <2> QED  BY <1>4, <2>1, <2>2, <2>3 DEF LoopLeft, Next, MainStep, Over
<1> QED  BY <1>3, <1>4, LeavesLoop

NotedFailures ==
    /\ status = 1 => options.class = "question" \/ 1 \in options.exits
    /\ options.class = "build" /\ Policy # "ignore" /\ broken # {} => status \in {2} \cup options.exits
    /\ pc = "done" /\ (interrupted \/ cycle) => status = 2

LEMMA EndsNoted ==
  ASSUME NotedFailures, UNCHANGED options, NEW n, Complete(n) \/ Fail(n)
  PROVE  /\ status' = 1 => options.class = "question" \/ 1 \in options.exits
         /\ options.class = "build" /\ Policy # "ignore" /\ broken' # {} => status' \in {2} \cup options.exits
<1>1. CASE Fail(n)
  BY <1>1 DEF Fail, ExitStatus, NotedFailures
<1>2. CASE Complete(n) /\ ~Fail(n)
  BY <1>2 DEF Complete, NotedFailures
<1> QED  BY <1>1, <1>2

LEMMA NextNoted ==
  ASSUME Types, JobsCounted, LoopLeft, NotedFailures, [Next]_vars
  PROVE  NotedFailures'
<1>1. CASE UNCHANGED vars
  BY <1>1 DEF NotedFailures, Policy, vars, walk, ended
<1>2. CASE TakeCandidate \/ SkipHandled \/ Examine \/ ScanRaises \/ NoTaskLeft
  <2>1. UNCHANGED <<options, status, broken>> /\ pc' # "done"
    BY <1>2 DEF TakeCandidate, SkipHandled, Examine, ScanRaises, Hand, NoTaskLeft, ended
  <2> QED  BY <2>1 DEF NotedFailures, Policy
<1>3. ASSUME NEW n, Complete(n) \/ Fail(n), UNCHANGED options, pc' # "done"
      PROVE  NotedFailures'
  BY <1>3, EndsNoted DEF NotedFailures, Policy
<1>4. CASE PrepareFails \/ SkipCurrent \/ ConcludeSerially \/ GetResult
  <2>1. UNCHANGED options /\ pc' # "done" /\ \E n : Complete(n) \/ Fail(n)
    BY <1>4 DEF PrepareFails, SkipCurrent, ConcludeSerially, GetResult
  <2> QED  BY <1>3, <2>1
<1>5. CASE Dispatch \/ PostSentinels
  <2>1. UNCHANGED <<options, status, broken>> /\ pc' # "done"
    BY <1>5 DEF Dispatch, PostSentinels, ended
  <2> QED  BY <2>1 DEF NotedFailures, Policy
<1>6. CASE ExecuteSerially
  <2>1. /\ UNCHANGED <<options, broken>> /\ pc' # "done"
        /\ status' = status \/ (status' = 1 /\ options.class = "question")
    BY <1>6 DEF ExecuteSerially, Execute
  <2> QED  BY <2>1 DEF NotedFailures, Policy
<1>7. CASE Cleanup
  BY <1>7 DEF Cleanup, NotedFailures, Policy
<1>8. CASE Signal
  BY <1>8 DEF Signal, NotedFailures, Policy
<1>9. ASSUME NEW w \in Worker, WorkerStep(w)
      PROVE  NotedFailures'
  <2>1. /\ UNCHANGED <<options, pc, interrupted, cycle, broken>>
        /\ status' = status \/ (status' = 1 /\ options.class = "question" /\ requestQ # <<>>)
    BY <1>9 DEF WorkerStep, Take, Execute, Deliver, Quit, walk, ended
  <2>2. pc = "done" => requestQ = <<>>
    <3>1. /\ jobs = Len(requestQ) + Cardinality(RunningWorkers) + Len(resultsQ) /\ requestQ \in Seq(Node)
          /\ Len(requestQ) \in Nat /\ Len(resultsQ) \in Nat /\ Cardinality(RunningWorkers) \in Nat
      BY RunningCount DEF Types, JobsCounted, RunningWorkers
    <3>2. pc = "done" => Len(requestQ) = 0
      BY <3>1 DEF LoopLeft
    <3> QED  BY <3>1, <3>2
  <2> QED  BY <2>1, <2>2 DEF NotedFailures, Policy
<1> QED  BY <1>1, <1>2, <1>4, <1>5, <1>6, <1>7, <1>8, <1>9 DEF Next, MainStep, Over

LEMMA AlwaysNoted == Spec => []NotedFailures
<1>1. Init => SerialIdle /\ LoopLeft /\ NotedFailures
  BY DEF Init, SerialIdle, LoopLeft, NotedFailures
<1>2. Types /\ JobsCounted /\ SerialIdle /\ LoopLeft /\ NotedFailures /\ [Next]_vars =>
        SerialIdle' /\ LoopLeft' /\ NotedFailures'
  BY SerialStep, LoopStep, NextNoted
<1> QED  BY <1>1, <1>2, WalkTypes, JobsNeverLost, PTL DEF Spec

\* A build that ends after a failure ends with 2 or with a status with which an
\* action may exit, after a signal or with a cycle always with 2, and 1 is else
\* the answer of -q only: whichever thread sets the status last.  So 0 means that
\* nothing has failed, unless an action may end by exit(0).  This is what
\* StatusTellsTruth says of failures; that everything asked for was reached is more.
THEOREM StatusOfFailures ==
  Spec => [](pc = "done" =>
               /\ options.class = "build" /\ Policy # "ignore" /\ broken # {}
                    => status \in {2} \cup options.exits
               /\ interrupted \/ cycle => status = 2
               /\ status = 1 => options.class = "question" \/ 1 \in options.exits)
<1>1. NotedFailures => (pc = "done" =>
               /\ options.class = "build" /\ Policy # "ignore" /\ broken # {}
                    => status \in {2} \cup options.exits
               /\ interrupted \/ cycle => status = 2
               /\ status = 1 => options.class = "question" \/ 1 \in options.exits)
  BY DEF NotedFailures
<1> QED  BY <1>1, AlwaysNoted, PTL

----------------------------------------------------------------------------
(* Dependencies first.  What a target includes is known from the content   *)
(* its sources had when it was scanned.  The inductive invariant: a target *)
(* that was scanned and is not handled yet knows a set of files that is    *)
(* closed but for files with another old content that are not built yet,   *)
(* and for each of these it is going to be told when it is built.          *)

HandledAll(p, d, n) == \A t \in Targets(p, n) : d.state[t] \in Handled
Doomed(p, d, s)     == d.state[s] = "failed" /\ HandledAll(p, d, s)

\* s will include other files once it is built; n waits for it, or it fails.
Behind(p, d, n, s) ==
    /\ s \in p.builder /\ Outdated(p, s) /\ d.state[s] \notin Finished
    /\ (\E t \in Targets(p, n) : t \in d.wp[s]) \/ Doomed(p, d, s)

Impl(p, d, n)  == UNION {d.implicit[t] : t \in Targets(p, n)}
Scans(p, d, n) == \A t \in Targets(p, n) : d.implicit[t] # NotScanned
Known(p, d, n) ==
    \E F \in SUBSET (Node \cap Impl(p, d, n)) :
        \A s \in Sources(p, n) \cup F : p.includes[s] \subseteq F \/ Behind(p, d, n, s)
ScanOK(p, d, n) == d.state[n] \notin Handled /\ Scans(p, d, n) => Known(p, d, n)

\* A stop that comes while the main thread looks at a candidate is not noticed
\* before the next turn.
Halted == dag.stopped /\ pc # "look"

ScanInv == options.class = "build" /\ ~Swallowing /\ ~Halted =>
               \A n \in project.builder : ScanOK(project, dag, n)

\* The targets of a task are handled from the moment it is handed out, except
\* if an exception was raised before; such a task never counts as executed.
Tasked(n) ==
    \/ \E i \in DOMAIN requestQ : requestQ[i] = n
    \/ \E w \in Worker : worker[w].does = "run" /\ worker[w].node = n
    \/ \E i \in DOMAIN resultsQ : resultsQ[i].node = n
    \/ pc \in {"prepare", "executed", "failed"} /\ ~raised /\ task = n
TasksHandled ==
    options.class = "build" /\ ~Swallowing =>
        /\ \A n \in project.builder : Tasked(n) => HandledAll(project, dag, n)
        /\ pc \in {"executed", "failed"} => ~raised
        /\ raised => Policy # "ignore"

LEMMA StaysHalted ==
  ASSUME Types, Entered, [Next]_vars
  PROVE  Halted => Halted'
BY StopStep, NothingTaken DEF Halted

LEMMA TargetsShared ==
  ASSUME NEW p, Sane(p), NEW n \in p.builder
  PROVE  /\ n \in Node /\ Targets(p, n) \subseteq p.builder /\ n \in Targets(p, n)
         /\ \A t \in Targets(p, n) : /\ Targets(p, t) = Targets(p, n) /\ n \in Targets(p, t)
                                     /\ Sources(p, t) = Sources(p, n)
<1>1. /\ n \in Node /\ Targets(p, n) \subseteq p.builder /\ n \in Targets(p, n)
      /\ \A t \in Targets(p, n) : Targets(p, t) = Targets(p, n)
  BY DEF Sane, Targets
<1> QED  BY <1>1 DEF Sources

LEMMA HandledStays ==
  ASSUME NEW p, Sane(p), NEW d, NEW e, Later(p, d, e), NEW n \in p.builder, HandledAll(p, d, n)
  PROVE  HandledAll(p, e, n)
BY TargetsShared DEF HandledAll, Later

\* A node without a builder has only targets without one.
LEMMA PlainTargets ==
  ASSUME NEW p, Sane(p), NEW n \in Node, n \notin p.builder
  PROVE  Targets(p, n) \cap p.builder = {}
<1>1. ASSUME NEW t \in Targets(p, n), t \in p.builder PROVE FALSE
  <2>1. t \in Node /\ p.targets[t] = p.targets[n]
    BY TargetsAreNodes DEF Sane
  <2>2. n \in Targets(p, t)
    BY <2>1 DEF Sane, Targets
  <2> QED  BY <1>1, <2>2 DEF Sane
<1> QED  BY <1>1

\* What is known stays known as long as nobody that is behind is finished or
\* forgotten.
LEMMA ScanKept ==
  ASSUME NEW p, NEW d, NEW e, NEW n, ScanOK(p, d, n),
         e.state[n] \notin Handled => d.state[n] \notin Handled,
         Scans(p, e, n) => \A t \in Targets(p, n) : e.implicit[t] = d.implicit[t],
         e.state[n] \notin Handled /\ Scans(p, e, n) =>
            \A s \in p.builder : Behind(p, d, n, s) => Behind(p, e, n, s)
  PROVE  ScanOK(p, e, n)
<1> SUFFICES ASSUME e.state[n] \notin Handled, Scans(p, e, n) PROVE Known(p, e, n)
  BY DEF ScanOK
<1>1. \A t \in Targets(p, n) : e.implicit[t] = d.implicit[t]
  OBVIOUS
<1>2. Scans(p, d, n) /\ Impl(p, d, n) = Impl(p, e, n)
  BY <1>1 DEF Scans, Impl
<1>3. PICK F \in SUBSET (Node \cap Impl(p, d, n)) :
        \A s \in Sources(p, n) \cup F : p.includes[s] \subseteq F \/ Behind(p, d, n, s)
  BY <1>2 DEF ScanOK, Known
<1>4. \A s : Behind(p, d, n, s) => Behind(p, e, n, s)
  BY DEF Behind
<1>5. \A s \in Sources(p, n) \cup F : p.includes[s] \subseteq F \/ Behind(p, e, n, s)
  BY <1>3, <1>4
<1> QED  BY <1>2, <1>3, <1>5 DEF Known

\* A step that finishes nothing and makes nobody stop waiting.
Patient(p, d, e) ==
    /\ \A s \in p.builder : /\ d.state[s] \notin Finished /\ Outdated(p, s) => e.state[s] \notin Finished
                            /\ Doomed(p, d, s) => e.state[s] = "failed"
    /\ \A c \in Node : d.wp[c] \subseteq e.wp[c]

LEMMA PatientBehind ==
  ASSUME NEW p, Sane(p), NEW d, NEW e, Later(p, d, e), Patient(p, d, e), NEW n, NEW s, Behind(p, d, n, s)
  PROVE  Behind(p, e, n, s)
<1>1. s \in p.builder /\ s \in Node /\ Outdated(p, s) /\ e.state[s] \notin Finished
  BY DEF Behind, Patient, Sane
<1>2. Doomed(p, d, s) => Doomed(p, e, s)
  BY <1>1, HandledStays DEF Doomed, Patient
<1> QED  BY <1>1, <1>2 DEF Behind, Patient

LEMMA PatientScan ==
  ASSUME NEW p, Sane(p), NEW d, NEW e, Later(p, d, e), Patient(p, d, e), NEW n \in p.builder,
         ScanOK(p, d, n), \A t \in Targets(p, n) : e.implicit[t] = d.implicit[t]
  PROVE  ScanOK(p, e, n)
<1>1. e.state[n] \notin Handled => d.state[n] \notin Handled
  BY DEF Later
<1>2. \A s \in p.builder : Behind(p, d, n, s) => Behind(p, e, n, s)
  BY PatientBehind
<1> QED  BY <1>1, <1>2, ScanKept


\* What a candidate with a builder knows after it was scanned.
Aware(p, d, n) ==
    \E F \in SUBSET (Node \cap Impl(p, d, n)) :
        \A s \in Sources(p, n) \cup F :
            p.includes[s] \subseteq F \/ (s \in p.builder /\ Outdated(p, s) /\ d.state[s] \notin Finished)

LEMMA SeenFields ==
  ASSUME Types, Entered, Candidates, NEW fresh
  PROVE  LET n == Candidate(dag)
             q == Seen(n, fresh)
         IN  /\ n \in Node /\ IsWalk(q)
             /\ q.state = [dag.state EXCEPT ![n] = IF dag.state[n] = "no_state" THEN "pending" ELSE dag.state[n]]
             /\ q.ref = dag.ref /\ q.wp = dag.wp /\ q.wse = dag.wse
             /\ q.pending = dag.pending /\ q.stopped = dag.stopped
             /\ \A t \in Node : t \notin Targets(project, n) => q.implicit[t] = dag.implicit[t]
             /\ n \in project.builder =>
                  \/ \A t \in Targets(project, n) : dag.implicit[t] # NotScanned /\ q.implicit[t] = dag.implicit[t]
                  \/ \E t \in Targets(project, n) : q.implicit[t] = Found(OnDisk, Begin(n), fresh, n)
<1> DEFINE n == Candidate(dag)
           b == Begin(n)
           q == Scanned(OnDisk, b, fresh, n)
           T == Targets(OnDisk, n) \cap OnDisk.builder
           found == IF n \in OnDisk.builder THEN Found(OnDisk, b, fresh, n) ELSE {}
           again == \E t \in T : b.implicit[t] = NotScanned
<1>1. /\ n \in Node /\ IsWalk(b)
      /\ b.state = [dag.state EXCEPT ![n] = IF dag.state[n] = "no_state" THEN "pending" ELSE dag.state[n]]
      /\ b.ref = dag.ref /\ b.wp = dag.wp /\ b.wse = dag.wse
      /\ b.implicit = dag.implicit /\ b.pending = dag.pending /\ b.stopped = dag.stopped
  BY BeginFields
<1>2. Sane(OnDisk) /\ OnDisk.builder = project.builder /\ Targets(OnDisk, n) = Targets(project, n)
  BY OnDiskSane
<1> HIDE DEF n, b
<1>3. /\ q.implicit = [t \in Node |->
                  CASE t \in T /\ again ->
                          IF b.implicit[t] = NotScanned THEN found ELSE b.implicit[t] \cup found
                    [] t = n /\ T = {} -> {}
                    [] OTHER -> b.implicit[t]]
      /\ q.state = b.state /\ q.ref = b.ref /\ q.wp = b.wp /\ q.wse = b.wse
      /\ q.pending = b.pending /\ q.stopped = b.stopped
  BY <1>1, ScannedFields
<1>4. IsWalk(q)
  BY <1>1, ProjectSane, ScannedWalk DEF Later
<1>5. n \in Targets(project, n) /\ Targets(project, n) \subseteq Node
  BY <1>1, ProjectSane, TargetsAreNodes
<1> HIDE DEF q
<1>6. \A t \in Node : t \notin Targets(project, n) => q.implicit[t] = dag.implicit[t]
  BY <1>1, <1>2, <1>3, <1>5
<1>7. ASSUME n \in project.builder
      PROVE  \/ \A t \in Targets(project, n) : dag.implicit[t] # NotScanned /\ q.implicit[t] = dag.implicit[t]
             \/ \E t \in Targets(project, n) : q.implicit[t] = Found(OnDisk, b, fresh, n)
  <2>1. T = Targets(project, n)
    BY <1>2, <1>7 DEF Sane
  <2>2. CASE again
    <3>1. PICK t \in T : b.implicit[t] = NotScanned
      BY <2>2
    <3>2. t \in Node /\ found = Found(OnDisk, b, fresh, n)
      BY <1>2, <1>5, <1>7, <2>1
    <3> HIDE DEF found, T, again
    <3>3. q.implicit[t] = found
      BY <1>3, <2>2, <3>1, <3>2
    <3> QED  BY <2>1, <3>1, <3>2, <3>3
  <2>3. CASE ~again
    <3>1. T # {}
      BY <1>5, <2>1
    <3>2. \A t \in T : t \in Node /\ b.implicit[t] # NotScanned
      BY <1>5, <2>1, <2>3
    <3> HIDE DEF found, T, again
    <3>3. \A t \in T : q.implicit[t] = b.implicit[t]
      BY <1>3, <2>3, <3>1, <3>2
    <3> QED  BY <1>1, <2>1, <3>2, <3>3
  <2> QED  BY <2>2, <2>3
<1> QED  BY <1>1, <1>3, <1>4, <1>6, <1>7 DEF n, b, q, Seen

LEMMA ScanAware ==
  ASSUME Types, Entered, Candidates, ScanInv, options.class = "build", ~Swallowing,
         NEW fresh, Candidate(dag) \in project.builder, dag.state[Candidate(dag)] \notin Handled
  PROVE  Aware(project, Seen(Candidate(dag), fresh), Candidate(dag))
<1> DEFINE n == Candidate(dag)
           q == Seen(n, fresh)
<1>1. /\ n \in Node /\ IsWalk(q)
      /\ q.state = [dag.state EXCEPT ![n] = IF dag.state[n] = "no_state" THEN "pending" ELSE dag.state[n]]
      /\ \/ \A t \in Targets(project, n) : dag.implicit[t] # NotScanned /\ q.implicit[t] = dag.implicit[t]
         \/ \E t \in Targets(project, n) : q.implicit[t] = Found(OnDisk, Begin(n), fresh, n)
  BY SeenFields
<1>2. /\ Begin(n).state = q.state
  BY <1>1, BeginFields
<1>3. OnDisk = project /\ Sane(project)
  BY OnDiskSane, PolicyRange
<1>4. n \in project.builder /\ dag.state[n] \notin Handled /\ dag.state \in [Node -> NodeState]
  BY DEF Types, IsWalk
<1>5. \A s \in Node : dag.state[s] \notin Finished => q.state[s] \notin Finished
  BY <1>1, <1>4 DEF Finished
<1>6. ScanOK(project, dag, n)
  BY <1>4 DEF ScanInv, Halted, Candidates
<1> SUFFICES Aware(project, q, n)
  OBVIOUS
<1> HIDE DEF n, q
<1>7. CASE \A t \in Targets(project, n) : dag.implicit[t] # NotScanned /\ q.implicit[t] = dag.implicit[t]
  <2>1. Scans(project, dag, n) /\ Impl(project, q, n) = Impl(project, dag, n)
    BY <1>7 DEF Scans, Impl
  <2>2. Known(project, dag, n)
    BY <1>4, <1>6, <2>1 DEF ScanOK
  <2>3. \A s : Behind(project, dag, n, s) => s \in project.builder /\ Outdated(project, s) /\ q.state[s] \notin Finished
    BY <1>3, <1>5 DEF Behind, Sane
  <2> QED  BY <2>1, <2>2, <2>3 DEF Known, Aware
<1>8. CASE \E t \in Targets(project, n) : q.implicit[t] = Found(OnDisk, Begin(n), fresh, n)
  <2> DEFINE F == Found(project, Begin(n), fresh, n)
             shown == Shown(project, Begin(n), fresh)
  <2>1. F \subseteq Impl(project, q, n)
    BY <1>3, <1>8 DEF Impl
  <2>2. /\ F \in SUBSET Node
        /\ \A s \in Sources(project, n) \cup F : shown[s] \subseteq F
    BY <1>1, <1>3, FoundNodes
  <2>3. Sources(project, n) \subseteq Node
    BY <1>1, <1>3, SourcesAreNodes
  <2>4. ASSUME NEW s \in Node
        PROVE  shown[s] = project.includes[s]
               \/ (s \in project.builder /\ Outdated(project, s) /\ q.state[s] \notin Finished)
    BY <1>2 DEF Shown, Shows, Outdated
  <2> HIDE DEF F, shown
  <2>5. \A s \in Sources(project, n) \cup F :
            project.includes[s] \subseteq F
            \/ (s \in project.builder /\ Outdated(project, s) /\ q.state[s] \notin Finished)
    <3> SUFFICES ASSUME NEW s \in Sources(project, n) \cup F
                 PROVE  project.includes[s] \subseteq F
                        \/ (s \in project.builder /\ Outdated(project, s) /\ q.state[s] \notin Finished)
      OBVIOUS
    <3>1. s \in Node /\ shown[s] \subseteq F
      BY <2>2, <2>3
    <3> QED  BY <2>4, <3>1
  <2>6. F \in SUBSET (Node \cap Impl(project, q, n))
    BY <2>1, <2>2
  <2> QED  BY <2>5, <2>6 DEF Aware
<1> QED  BY <1>1, <1>7, <1>8

\* Once all children are finished, what is needed is among them.
LEMMA NeedsAreChildren ==
  ASSUME Types, NEW d, NEW n \in Node, n \in project.builder,
         options.class = "build" => Aware(project, d, n), options.class # "question",
         \A c \in Children(project, d, n) : d.state[c] \in Finished
  PROVE  Needs(n) \subseteq Children(project, d, n)
<1> USE ProjectSane
<1> DEFINE kids == Children(project, d, n)
<1>1. Targets(project, n) \subseteq Node /\ Sources(project, n) \subseteq Node
  BY TargetsAreNodes, SourcesAreNodes
<1>2. \A t \in Targets(project, n) : ToSet(project.prereqs[t]) \subseteq Node
  BY <1>1, ToSetRange DEF Sane
<1>3. Declared(n) \subseteq kids
  BY <1>1, <1>2 DEF Declared, Children, ActionTargets
<1>4. Node \cap Impl(project, d, n) \subseteq kids /\ Sources(project, n) \subseteq kids
  BY <1>1 DEF Impl, Children
<1>5. CASE options.class = "clean"
  BY <1>3, <1>5 DEF Needs
<1>6. CASE options.class = "build"
  <2>1. PICK F \in SUBSET (Node \cap Impl(project, d, n)) :
            \A s \in Sources(project, n) \cup F :
                project.includes[s] \subseteq F
                \/ (s \in project.builder /\ Outdated(project, s) /\ d.state[s] \notin Finished)
    BY <1>6 DEF Aware
  <2>2. \A s \in Sources(project, n) \cup F : project.includes[s] \subseteq F
    BY <1>4, <2>1
  <2> DEFINE first == UNION {project.includes[s] : s \in Sources(project, n)}
  <2>3. first \subseteq F
    BY <2>2
  <2> HIDE DEF first
  <2>4. Closure(project.includes, first) \subseteq F
    BY <2>2, <2>3, ClosureLeast
  <2>5. Needs(n) = Declared(n) \cup Closure(project.includes, first)
    BY <1>6 DEF Needs, first
  <2> QED  BY <1>3, <1>4, <2>1, <2>4, <2>5
<1> QED  BY <1>5, <1>6, PolicyRange


\* A side effect has no builder.
LEMMA EffectsPlain ==
  ASSUME NEW p, Sane(p), NEW T \in SUBSET Node
  PROVE  Effects(p, T) \subseteq Node \ p.builder
BY DEF Sane, Effects

\* What make_ready does to the nodes that have a builder.
LEMMA ReadyStates ==
  ASSUME NEW p, Sane(p), NEW d, IsWalk(d), NEW n \in Node, NEW e \in Ready(p, d, n)
  PROVE  /\ e.wp = d.wp /\ e.implicit = d.implicit /\ e.stopped = d.stopped
         /\ \A s \in p.builder :
              \/ e.state[s] = d.state[s]
              \/ s \in Targets(p, n) /\ e.state[s] = "executing"
              \/ s \in Targets(p, n) /\ e.state[s] = "up_to_date" /\ ~Outdated(p, s)
<1> DEFINE T == Targets(p, n)
<1>1. \A s \in p.builder : s \in Node /\ s \notin Effects(p, T)
  BY TargetsAreNodes, EffectsPlain DEF Sane
<1>2. \/ e = UpToDate(d, T) /\ \A t \in T : ~Outdated(p, t)
      \/ e = Marked(p, d, T)
  BY DEF Ready
<1> HIDE DEF T
<1>3. CASE e = UpToDate(d, T) /\ \A t \in T : ~Outdated(p, t)
  <2>1. /\ \A s \in Node : e.state[s] = IF s \in T THEN "up_to_date" ELSE d.state[s]
        /\ e.wp = d.wp /\ e.implicit = d.implicit /\ e.stopped = d.stopped
    BY <1>3, UpToDateFields
  <2> QED  BY <1>1, <1>3, <2>1 DEF T
<1>4. CASE e = Marked(p, d, T)
  <2>1. /\ \A s \in Node : e.state[s] = IF s \in T \cup Effects(p, T) THEN "executing" ELSE d.state[s]
        /\ e.wp = d.wp /\ e.implicit = d.implicit /\ e.stopped = d.stopped
    BY <1>4, MarkedFields
  <2> QED  BY <1>1, <2>1 DEF T
<1> QED  BY <1>2, <1>3, <1>4

\* What a look at a candidate does to them.
LEMMA LooksStates ==
  ASSUME Sane(project), NEW d, IsWalk(d), NEW n \in Node, NEW kids \in SUBSET Node, NEW order,
         order \in PushOrders(d, kids), Looks(n, d, kids, order)
  PROVE  /\ dag'.implicit = d.implicit /\ dag'.stopped = d.stopped
         /\ \A c \in Node : d.wp[c] \subseteq dag'.wp[c]
         /\ \A s \in project.builder :
              \/ dag'.state[s] = d.state[s]
              \/ s \in Targets(project, n) /\ dag'.state[s] = "failed"
              \/ /\ s \in Targets(project, n) /\ \A c \in kids : d.state[c] \in Finished
                 /\ dag'.state[s] = "executing" \/ (dag'.state[s] = "up_to_date" /\ ~Outdated(project, s))
         /\ n \in project.builder =>
              \/ \A t \in Targets(project, n) : dag'.state[t] \in Handled
              \/ \A c \in kids : d.state[c] \notin Finished => n \in dag'.wp[c]
<1> DEFINE q == Push(d, order)
<1>1. ASSUME ~ChildFailed(d, kids), NotReady(d, kids) = {}
      PROVE  \A c \in kids : d.state[c] \in Finished
  BY <1>1 DEF ChildFailed, NotReady, IsWalk, NodeState, Unready, Finished
<1>2. CASE ChildFailed(d, kids) /\ dag' = GiveUp(project, q, n)
  <2>1. /\ IsWalk(q) /\ q.state = d.state /\ q.wp = d.wp /\ q.implicit = d.implicit /\ q.stopped = d.stopped
    BY PushWalk, PushFields DEF Later
  <2> HIDE DEF q
  <2>2. /\ \A t \in Node : dag'.state[t] = IF t \in ActionTargets(project, n) THEN "failed" ELSE q.state[t]
        /\ dag'.wp = q.wp /\ dag'.implicit = q.implicit /\ dag'.stopped = q.stopped
    BY <1>2, <2>1, GiveUpFields
  <2>3. ActionTargets(project, n) \subseteq Targets(project, n)
    BY DEF ActionTargets
  <2>4. n \in project.builder => \A t \in Targets(project, n) : t \in Node /\ t \in ActionTargets(project, n)
    BY TargetsAreNodes DEF ActionTargets
  <2>5. \A s \in project.builder : s \in Node
    BY DEF Sane
  <2>6. n \in project.builder => \A t \in Targets(project, n) : dag'.state[t] \in Handled
    BY <2>2, <2>4 DEF Handled, NodeState
  <2> QED  BY <2>1, <2>2, <2>3, <2>5, <2>6
<1>3. CASE /\ ~ChildFailed(d, kids)
           /\ dag' = Waiting(d, n, kids, q.cand)
  <2> HIDE DEF q
  <2> DEFINE c0 == q.cand
             e  == Waiting(d, n, kids, c0)
  <2> HIDE DEF c0
  <2>1. /\ \A c \in Node : e.wp[c] = IF c \in NotReady(d, kids) THEN d.wp[c] \cup {n} ELSE d.wp[c]
        /\ e.state = d.state /\ e.implicit = d.implicit /\ e.stopped = d.stopped
    BY WaitForFields
  <2>2. \A c \in kids : c \in Node /\ (d.state[c] \notin Finished => c \in NotReady(d, kids))
    BY <1>3 DEF ChildFailed, NotReady, IsWalk, NodeState, Unready, Finished
  <2>3. dag' = e
    BY <1>3 DEF c0
  <2> HIDE DEF e
  <2> QED  BY <2>1, <2>2, <2>3
<1>4. CASE /\ ~ChildFailed(d, kids) /\ NotReady(d, kids) = {}
           /\ dag' = WaitForEffects(project, d, n)
  <2>1. dag'.state = d.state /\ dag'.wp = d.wp /\ dag'.implicit = d.implicit /\ dag'.stopped = d.stopped
    BY <1>4, WaitForEffectsFields
  <2> QED  BY <1>1, <1>4, <2>1
<1>5. CASE /\ ~ChildFailed(d, kids) /\ NotReady(d, kids) = {}
           /\ dag' \in Ready(project, d, n)
  BY <1>1, <1>5, ReadyStates
<1>6. CASE ~ChildFailed(d, kids) /\ NotReady(d, kids) = {} /\ dag' = d
  BY <1>1, <1>6
<1> QED  BY <1>2, <1>3, <1>4, <1>5, <1>6 DEF Looks

\* The same from the state before: what a candidate waits for, knows and
\* needs when the step is over.
LEMMA ExamineStates ==
  ASSUME Types, Entered, Examine
  PROVE  LET n == Candidate(dag)
         IN  /\ n \in Node /\ dag.state[n] \notin Handled
             /\ \E fresh : LET d    == Seen(n, fresh)
                               kids == Children(project, d, n)
                           IN  /\ dag'.implicit = d.implicit /\ d.state[n] \notin Handled
                               /\ \A s \in Node : /\ d.state[s] \in Finished <=> dag.state[s] \in Finished
                                                  /\ d.state[s] = dag.state[s] \/ s = n
                               /\ \A s \in project.builder :
                                    \/ dag'.state[s] = d.state[s]
                                    \/ s \in Targets(project, n) /\ dag'.state[s] = "failed"
                                    \/ /\ s \in Targets(project, n) /\ \A c \in kids : d.state[c] \in Finished
                                       /\ \/ dag'.state[s] = "executing"
                                          \/ dag'.state[s] = "up_to_date" /\ ~Outdated(project, s)
                               /\ n \in project.builder =>
                                    \/ \A t \in Targets(project, n) : dag'.state[t] \in Handled
                                    \/ \A c \in kids : d.state[c] \notin Finished => n \in dag'.wp[c]
             /\ \A c \in Node : dag.wp[c] \subseteq dag'.wp[c]
             /\ \A t \in Node : t \notin Targets(project, n) => dag'.implicit[t] = dag.implicit[t]
<1> DEFINE n == Candidate(dag)
<1>1. PICK fresh :
             \E order \in PushOrders(Seen(n, fresh), Children(project, Seen(n, fresh), n)) :
                 Looks(n, Seen(n, fresh), Children(project, Seen(n, fresh), n), order)
  BY ExamineLooks
<1> DEFINE d    == Seen(n, fresh)
           kids == Children(project, d, n)
<1>2. PICK order \in PushOrders(d, kids) : Looks(n, d, kids, order)
  BY <1>1
<1>3. Candidates /\ dag.state[n] \notin Handled /\ Sane(project) /\ dag.state \in [Node -> NodeState]
  BY ProjectSane DEF Examine, Types, IsWalk
<1>4. /\ n \in Node /\ IsWalk(d)
      /\ d.state = [dag.state EXCEPT ![n] = IF dag.state[n] = "no_state" THEN "pending" ELSE dag.state[n]]
      /\ d.wp = dag.wp
      /\ \A t \in Node : t \notin Targets(project, n) => d.implicit[t] = dag.implicit[t]
  BY <1>3, SeenFields
<1>5. kids \in SUBSET Node
  BY DEF Children
<1> HIDE DEF n, d, kids
<1>6. /\ dag'.implicit = d.implicit
      /\ \A c \in Node : d.wp[c] \subseteq dag'.wp[c]
      /\ \A s \in project.builder :
           \/ dag'.state[s] = d.state[s]
           \/ s \in Targets(project, n) /\ dag'.state[s] = "failed"
           \/ /\ s \in Targets(project, n) /\ \A c \in kids : d.state[c] \in Finished
              /\ dag'.state[s] = "executing" \/ (dag'.state[s] = "up_to_date" /\ ~Outdated(project, s))
      /\ n \in project.builder =>
           \/ \A t \in Targets(project, n) : dag'.state[t] \in Handled
           \/ \A c \in kids : d.state[c] \notin Finished => n \in dag'.wp[c]
  BY <1>2, <1>3, <1>4, <1>5, LooksStates
<1>7. /\ \A s \in Node : /\ d.state[s] \in Finished <=> dag.state[s] \in Finished
                         /\ d.state[s] = dag.state[s] \/ s = n
      /\ d.state[n] \notin Handled
  BY <1>3, <1>4 DEF Finished, Handled, NodeState
<1>8. /\ \A c \in Node : dag.wp[c] \subseteq dag'.wp[c]
      /\ \A t \in Node : t \notin Targets(project, n) => dag'.implicit[t] = dag.implicit[t]
  BY <1>4, <1>6
<1>9. \E f : /\ dag'.implicit = Seen(n, f).implicit /\ Seen(n, f).state[n] \notin Handled
             /\ \A s \in Node : /\ Seen(n, f).state[s] \in Finished <=> dag.state[s] \in Finished
                                /\ Seen(n, f).state[s] = dag.state[s] \/ s = n
             /\ \A s \in project.builder :
                  \/ dag'.state[s] = Seen(n, f).state[s]
                  \/ s \in Targets(project, n) /\ dag'.state[s] = "failed"
                  \/ /\ s \in Targets(project, n)
                     /\ \A c \in Children(project, Seen(n, f), n) : Seen(n, f).state[c] \in Finished
                     /\ \/ dag'.state[s] = "executing"
                        \/ dag'.state[s] = "up_to_date" /\ ~Outdated(project, s)
             /\ n \in project.builder =>
                  \/ \A t \in Targets(project, n) : dag'.state[t] \in Handled
                  \/ \A c \in Children(project, Seen(n, f), n) :
                         Seen(n, f).state[c] \notin Finished => n \in dag'.wp[c]
  BY <1>4, <1>6, <1>7 DEF d, kids
<1> QED  BY <1>3, <1>4, <1>8, <1>9 DEF n


\* Nothing is finished that was not begun, and nobody starts or stops to know.
LEMMA PatientStep ==
  ASSUME Types, ScanInv, UNCHANGED <<project, options>>, Later(project, dag, dag'), Halted => Halted',
         Patient(project, dag, dag'), dag'.implicit = dag.implicit
  PROVE  ScanInv'
<1>1. Sane(project)
  BY ProjectSane
<1> SUFFICES ASSUME options.class = "build", ~Swallowing, ~Halted', NEW n \in project.builder
             PROVE  ScanOK(project, dag', n)
  BY DEF ScanInv, Swallowing, Policy
<1>2. ScanOK(project, dag, n)
  BY DEF ScanInv
<1> QED  BY <1>1, <1>2, PatientScan

\* A look at a candidate.
LEMMA ExamineScan ==
  ASSUME Types, Entered, ScanInv, Examine
  PROVE  ScanInv'
<1> DEFINE n == Candidate(dag)
<1>1. /\ UNCHANGED <<project, options>> /\ Later(project, dag, dag') /\ ~Halted /\ Sane(project)
  BY ExamineWalk, ProjectSane DEF Halted
<1> SUFFICES ASSUME options.class = "build", ~Swallowing, NEW m \in project.builder
             PROVE  ScanOK(project, dag', m)
  BY <1>1 DEF ScanInv, Swallowing, Policy
<1>2. n \in Node /\ dag.state[n] \notin Handled
  BY ExamineStates
<1>3. PICK fresh : 
        LET d    == Seen(n, fresh)
            kids == Children(project, d, n)
        IN  /\ dag'.implicit = d.implicit /\ d.state[n] \notin Handled
            /\ \A s \in Node : /\ d.state[s] \in Finished <=> dag.state[s] \in Finished
                               /\ d.state[s] = dag.state[s] \/ s = n
            /\ \A s \in project.builder :
                 \/ dag'.state[s] = d.state[s]
                 \/ s \in Targets(project, n) /\ dag'.state[s] = "failed"
                 \/ /\ s \in Targets(project, n) /\ \A c \in kids : d.state[c] \in Finished
                    /\ \/ dag'.state[s] = "executing"
                       \/ dag'.state[s] = "up_to_date" /\ ~Outdated(project, s)
            /\ n \in project.builder =>
                 \/ \A t \in Targets(project, n) : dag'.state[t] \in Handled
                 \/ \A c \in kids : d.state[c] \notin Finished => n \in dag'.wp[c]
  BY ExamineStates, Zenon
<1>4. /\ \A c \in Node : dag.wp[c] \subseteq dag'.wp[c]
      /\ \A t \in Node : t \notin Targets(project, n) => dag'.implicit[t] = dag.implicit[t]
  BY ExamineStates
<1>5. n \in project.builder => Aware(project, Seen(n, fresh), n)
  BY <1>2, ScanAware DEF Examine
<1> DEFINE d    == Seen(n, fresh)
           kids == Children(project, d, n)
<1>6. Sources(project, n) \cup (Node \cap Impl(project, d, n)) \subseteq kids
  BY <1>1, <1>2, SourcesAreNodes DEF Impl, Children
<1> HIDE DEF d, kids, n
<1>7. Patient(project, dag, dag')
  <2>1. ASSUME NEW s \in project.builder, dag.state[s] \notin Finished, Outdated(project, s)
        PROVE  dag'.state[s] \notin Finished
    BY <1>1, <1>3, <2>1 DEF d, kids, Finished, Sane
  <2>2. ASSUME NEW s \in project.builder, Doomed(project, dag, s)
        PROVE  dag'.state[s] = "failed"
    <3>1. s \notin Targets(project, n) /\ s # n /\ s \in Node
      <4>1. ASSUME s \in Targets(project, n) PROVE FALSE
        <5>1. n \in Targets(project, s)
          BY <1>1, <1>2, <4>1 DEF Sane, Targets
        <5> QED  BY <1>2, <2>2, <5>1 DEF Doomed, HandledAll
      <4>2. n \in Targets(project, n) /\ s \in Node
        BY <1>1, <1>2 DEF Sane
      <4> QED  BY <4>1, <4>2
    <3>2. dag'.state[s] = dag.state[s]
      BY <1>3, <3>1 DEF d, kids
    <3> QED  BY <2>2, <3>2 DEF Doomed
  <2> QED  BY <1>4, <2>1, <2>2 DEF Patient
<1>8. CASE m \notin Targets(project, n)
  <2>1. \A t \in Targets(project, m) : t \in Node /\ t \notin Targets(project, n)
    <3> SUFFICES ASSUME NEW t \in Targets(project, m), t \in Targets(project, n) PROVE FALSE
      BY <1>1, TargetsAreNodes DEF Sane
    <3>1. m \in Targets(project, t)
      BY <1>1, TargetsShared
    <3>2. Targets(project, t) = Targets(project, n)
      BY <1>1, <1>2 DEF Sane, Targets
    <3> QED  BY <1>8, <3>1, <3>2
  <2>2. \A t \in Targets(project, m) : dag'.implicit[t] = dag.implicit[t]
    BY <1>4, <2>1
  <2>3. ScanOK(project, dag, m)
    BY <1>1 DEF ScanInv
  <2> QED  BY <1>1, <1>7, <2>2, <2>3, PatientScan
<1>9. CASE m \in Targets(project, n)
  <2>1. /\ n \in Targets(project, m) /\ Targets(project, m) = Targets(project, n)
        /\ Sources(project, m) = Sources(project, n) /\ n \in project.builder
    <3>1. n \in Targets(project, m)
      BY <1>1, <1>2, <1>9 DEF Sane, Targets
    <3> QED  BY <1>1, <3>1, TargetsShared
  <2> SUFFICES ASSUME dag'.state[m] \notin Handled PROVE Known(project, dag', m)
    BY DEF ScanOK
  <2>2. \A c \in kids : d.state[c] \notin Finished => n \in dag'.wp[c]
    BY <1>3, <1>9, <2>1 DEF d, kids
  <2>3. PICK F \in SUBSET (Node \cap Impl(project, d, n)) :
          \A s \in Sources(project, n) \cup F :
            \/ project.includes[s] \subseteq F
            \/ s \in project.builder /\ Outdated(project, s) /\ d.state[s] \notin Finished
    BY <1>5, <2>1 DEF Aware, d
  <2>4. Impl(project, d, n) = Impl(project, dag', m)
    BY <1>3, <2>1 DEF Impl, d
  <2>5. ASSUME NEW s \in Sources(project, n) \cup F, s \in project.builder, Outdated(project, s),
               d.state[s] \notin Finished
        PROVE  Behind(project, dag', m, s)
    <3>1. n \in dag'.wp[s]
      BY <1>6, <2>2, <2>5
    <3>2. s \in Node /\ dag.state[s] \notin Finished
      BY <1>1, <1>3, <2>5 DEF Sane, d
    <3>3. dag'.state[s] \notin Finished
      BY <1>7, <2>5, <3>2 DEF Patient
    <3> QED  BY <2>1, <2>5, <3>1, <3>3 DEF Behind
  <2>6. \A s \in Sources(project, m) \cup F : project.includes[s] \subseteq F \/ Behind(project, dag', m, s)
    BY <2>1, <2>3, <2>5
  <2> QED  BY <2>3, <2>4, <2>6 DEF Known
<1> QED  BY <1>8, <1>9


LEMMA ScanRaisesScan ==
  ASSUME Types, Entered, ScanInv, ScanRaises
  PROVE  ScanInv'
<1> DEFINE n == Candidate(dag)
           b == Begin(n)
<1>1. /\ UNCHANGED <<project, options>> /\ Later(project, dag, dag') /\ ~Halted /\ Sane(project)
  BY ScanRaisesWalk, ProjectSane DEF Halted
<1>2. /\ n \in Node /\ dag.state[n] \notin Handled /\ n \in project.builder
      /\ dag' \in Ready(project, b, n) \/ dag' = b
  BY ScanRaisesLooks
<1>3. /\ IsWalk(b) /\ b.wp = dag.wp /\ b.implicit = dag.implicit
      /\ b.state = [dag.state EXCEPT ![n] = IF dag.state[n] = "no_state" THEN "pending" ELSE dag.state[n]]
  BY BeginFields DEF ScanRaises
<1>4. dag.state \in [Node -> NodeState]
  BY DEF Types, IsWalk
<1> HIDE DEF n, b
<1>5. /\ dag'.wp = dag.wp /\ dag'.implicit = dag.implicit
      /\ \A s \in project.builder :
           \/ dag'.state[s] = b.state[s]
           \/ s \in Targets(project, n) /\ dag'.state[s] = "executing"
           \/ s \in Targets(project, n) /\ dag'.state[s] = "up_to_date" /\ ~Outdated(project, s)
  <2>1. CASE dag' = b
    BY <1>3, <2>1
  <2>2. Sane(project) /\ IsWalk(b) /\ n \in Node
    BY <1>1, <1>2, <1>3
  <2>3. ASSUME NEW e \in Ready(project, b, n)
        PROVE  /\ e.wp = b.wp /\ e.implicit = b.implicit
               /\ \A s \in project.builder :
                    \/ e.state[s] = b.state[s]
                    \/ s \in Targets(project, n) /\ e.state[s] = "executing"
                    \/ s \in Targets(project, n) /\ e.state[s] = "up_to_date" /\ ~Outdated(project, s)
    BY ONLY <2>2, <2>3, ReadyStates
  <2> QED  BY <1>2, <1>3, <2>1, <2>3
<1>6. \A s \in Node : (b.state[s] \in Finished <=> dag.state[s] \in Finished) /\ (s # n => b.state[s] = dag.state[s])
  BY <1>3, <1>4 DEF Finished
<1>7. Patient(project, dag, dag')
  <2>1. ASSUME NEW s \in project.builder, dag.state[s] \notin Finished, Outdated(project, s)
        PROVE  dag'.state[s] \notin Finished
    BY <1>1, <1>5, <1>6, <2>1 DEF Finished, Sane
  <2>2. ASSUME NEW s \in project.builder, Doomed(project, dag, s)
        PROVE  dag'.state[s] = "failed"
    <3>1. s \notin Targets(project, n) /\ s # n /\ s \in Node
      <4>1. ASSUME s \in Targets(project, n) PROVE FALSE
        <5>1. n \in Targets(project, s)
          BY <1>1, <1>2, <4>1, TargetsShared
        <5> QED  BY <1>2, <2>2, <5>1 DEF Doomed, HandledAll
      <4>2. n \in Targets(project, n) /\ s \in Node
        BY <1>1, <1>2 DEF Sane
      <4> QED  BY <4>1, <4>2
    <3>2. dag'.state[s] = dag.state[s]
      BY <1>5, <1>6, <3>1
    <3> QED  BY <2>2, <3>2 DEF Doomed
  <2> QED  BY <1>4, <1>5, <2>1, <2>2 DEF Patient
<1> QED  BY <1>1, <1>5, <1>7, PatientStep

\* What postprocess does to the nodes that have a builder.
LEMMA PostprocessedStates ==
  ASSUME NEW p, Sane(p), NEW d, IsWalk(d), NEW T \in SUBSET Node, NEW e \in Postprocessed(p, d, T)
  PROVE  /\ \A s \in p.builder : e.state[s] = d.state[s]
         /\ \A s \in Node : e.wp[s] = IF s \in T THEN {} ELSE d.wp[s]
         /\ e.implicit = d.implicit /\ e.stopped = d.stopped
<1>1. /\ \A n \in Node : n \notin Working(d, Effects(p, T)) => e.state[n] = d.state[n]
      /\ \A n \in Node : e.wp[n] = IF n \in T THEN {} ELSE d.wp[n]
      /\ e.implicit = d.implicit /\ e.stopped = d.stopped
  <2>1. IsFreed(p, d, T, e)
    BY PostprocessedFields
  <2> QED  BY ONLY <2>1 DEF IsFreed
<1>2. \A s \in p.builder : s \in Node /\ s \notin Working(d, Effects(p, T))
  BY EffectsPlain DEF Working, Sane
<1> QED  BY <1>1, <1>2

\* What executed does to them.
LEMMA ExecutedStates ==
  ASSUME NEW p, Sane(p), NEW d, IsWalk(d), NEW T \in SUBSET Node
  PROVE  LET e == Executed(p, d, T)
         IN  /\ \A s \in p.builder : e.state[s] = IF s \in T /\ d.state[s] = "executing" THEN "executed" ELSE d.state[s]
             /\ \A n \in Node : e.implicit[n] = IF \E t \in T : d.state[t] = "executing" /\ n \in d.wp[t]
                                                THEN NotScanned ELSE d.implicit[n]
             /\ e.wp = d.wp /\ e.stopped = d.stopped
<1> DEFINE e    == Executed(p, d, T)
           done == Working(d, T)
<1>1. /\ e.state = Released(p, d, T).state /\ e.implicit = Rescans(d, done)
      /\ e.wp = d.wp /\ e.stopped = d.stopped
  BY ExecutedFields
<1>2. \A n \in Node : Released(p, d, T).state[n] =
          CASE n \in done -> "executed"
            [] n \in Effects(p, done) \ done -> "no_state"
            [] OTHER -> d.state[n]
  BY ReleasedFields
<1>3. done \subseteq Node /\ \A s : s \in done <=> s \in T /\ d.state[s] = "executing"
  BY DEF Working
<1> HIDE DEF e, done
<1>4. \A s \in p.builder : s \in Node /\ s \notin Effects(p, done)
  BY <1>3, EffectsPlain DEF Sane
<1>5. \A n \in Node : e.implicit[n] = IF \E t \in T : d.state[t] = "executing" /\ n \in d.wp[t]
                                      THEN NotScanned ELSE d.implicit[n]
  BY <1>1, <1>3 DEF Rescans
<1>6. \A s \in p.builder : e.state[s] = IF s \in T /\ d.state[s] = "executing" THEN "executed" ELSE d.state[s]
  BY <1>1, <1>2, <1>3, <1>4
<1> QED  BY <1>1, <1>5, <1>6 DEF e


\* The end of a task that counts as executed: who waits for an executed target
\* scans again, and a target that failed before stays given up.
LEMMA DoneScan ==
  ASSUME Types, ScanInv, UNCHANGED <<project, options>>, Later(project, dag, dag'), Halted => Halted',
         NEW n \in Node, n \in project.builder => HandledAll(project, dag, n),
         dag' \in Postprocessed(project, Executed(project, dag, Targets(project, n)), Targets(project, n))
  PROVE  ScanInv'
<1> DEFINE T == Targets(project, n)
           x == Executed(project, dag, T)
<1>1. Sane(project) /\ IsWalk(dag) /\ T \in SUBSET Node
  BY ProjectSane, TargetsAreNodes DEF Types
<1>2. /\ \A s \in project.builder : x.state[s] = IF s \in T /\ dag.state[s] = "executing" THEN "executed" ELSE dag.state[s]
      /\ \A m \in Node : x.implicit[m] = IF \E t \in T : dag.state[t] = "executing" /\ m \in dag.wp[t]
                                         THEN NotScanned ELSE dag.implicit[m]
      /\ x.wp = dag.wp
  BY <1>1, ExecutedStates
<1>3. IsWalk(x)
  BY <1>1, ExecutedWalk DEF Later
<1>4. /\ \A s \in project.builder : dag'.state[s] = x.state[s]
      /\ \A s \in Node : dag'.wp[s] = IF s \in T THEN {} ELSE x.wp[s]
      /\ dag'.implicit = x.implicit
  <2> HIDE DEF T, x
  <2>1. dag' \in Postprocessed(project, x, T)
    BY DEF T, x
  <2> QED  BY <1>1, <1>3, <2>1, PostprocessedStates
<1>5. \A s \in project.builder : s \in Node /\ (s \in T => HandledAll(project, dag, s))
  <2> SUFFICES ASSUME NEW s \in project.builder, s \in T PROVE HandledAll(project, dag, s)
    BY <1>1 DEF Sane
  <2>1. n \in Targets(project, s) /\ Targets(project, s) = T
    BY <1>1 DEF Sane, Targets
  <2>2. n \in project.builder
    BY <1>1, <2>1, TargetsShared
  <2> QED  BY <2>1, <2>2 DEF HandledAll
<1> HIDE DEF T, x
<1> SUFFICES ASSUME options.class = "build", ~Swallowing, ~Halted', NEW m \in project.builder
             PROVE  ScanOK(project, dag', m)
  BY DEF ScanInv, Swallowing, Policy
<1>6. ScanOK(project, dag, m)
  BY DEF ScanInv
<1>7. dag'.state[m] \notin Handled => dag.state[m] \notin Handled
  BY DEF Later
<1>8. Targets(project, m) \subseteq Node
  BY <1>1, <1>5, TargetsAreNodes
<1>9. Scans(project, dag', m) => \A t \in Targets(project, m) : dag'.implicit[t] = dag.implicit[t]
  BY <1>2, <1>4, <1>8 DEF Scans
<1>10. ASSUME Scans(project, dag', m), NEW s \in project.builder, Behind(project, dag, m, s)
       PROVE  Behind(project, dag', m, s)
  <2>1. s \in Node /\ Outdated(project, s) /\ dag.state[s] \notin Finished
    BY <1>5, <1>10 DEF Behind
  <2>2. CASE s \notin T
    <3>1. dag'.state[s] = dag.state[s] /\ dag'.wp[s] = dag.wp[s]
      BY <1>2, <1>4, <2>1, <2>2
    <3>2. Doomed(project, dag, s) => Doomed(project, dag', s)
      BY <1>1, <3>1, HandledStays DEF Doomed
    <3> QED  BY <1>10, <2>1, <3>1, <3>2 DEF Behind
  <2>3. CASE s \in T
    <3>1. HandledAll(project, dag, s) /\ s \in Targets(project, s)
      BY <1>1, <1>5, <2>1, <2>3 DEF Sane
    <3>2. dag.state[s] \in {"executing", "failed"}
      BY <2>1, <3>1 DEF HandledAll, Handled, NodeState, Finished
    <3>3. ~(dag.state[s] = "executing" /\ \E t \in Targets(project, m) : t \in dag.wp[s])
      BY <1>2, <1>4, <1>8, <1>10, <2>3 DEF Scans
    <3>4. dag.state[s] = "failed"
      BY <1>10, <3>2, <3>3 DEF Behind, Doomed
    <3>5. dag'.state[s] = "failed"
      BY <1>2, <1>4, <3>4
    <3>6. Doomed(project, dag', s)
      BY <1>1, <3>1, <3>5, HandledStays DEF Doomed
    <3> QED  BY <2>1, <3>5, <3>6 DEF Behind, Finished
  <2> QED  BY <2>2, <2>3
<1> QED  BY <1>6, <1>7, <1>9, <1>10, ScanKept

\* The end of a task that failed with -k, if every action has one target: who
\* waited for what failed is given up with it.
LEMMA GoneScan ==
  ASSUME Types, ScanInv, UNCHANGED <<project, options>>, Later(project, dag, dag'), Halted => Halted',
         NEW n \in Node, Targets(project, n) = {n}, \A m \in Node : Targets(project, m) = {m},
         dag' \in Postprocessed(project, GivenUp(dag, {n}), {n})
  PROVE  ScanInv'
<1> DEFINE gone == Closure(dag.wp, {n})
           x    == GivenUp(dag, {n})
<1>1. Sane(project) /\ IsWalk(dag) /\ {n} \in SUBSET Node
  BY ProjectSane DEF Types
<1>2. /\ \A m \in Node : x.state[m] = IF m \in gone THEN "failed" ELSE dag.state[m]
      /\ \A m \in Node : x.wp[m] = IF m \in gone THEN {} ELSE dag.wp[m]
      /\ x.implicit = dag.implicit
  BY <1>1, GivenUpFields
<1>3. IsWalk(x)
  BY <1>1, WillNotBuildWalk DEF Later, GivenUp
<1>4. /\ n \in gone
      /\ \A m \in gone : dag.wp[m] \subseteq gone
  BY <1>1, ClosureClosed, ClosureContains DEF IsWalk
<1> HIDE DEF gone, x
<1>5. /\ \A s \in project.builder : dag'.state[s] = x.state[s]
      /\ \A s \in Node : dag'.wp[s] = IF s \in {n} THEN {} ELSE x.wp[s]
      /\ dag'.implicit = x.implicit
  <2>1. dag' \in Postprocessed(project, x, {n})
    BY DEF x
  <2> QED  BY <1>1, <1>3, <2>1, PostprocessedStates
<1> SUFFICES ASSUME options.class = "build", ~Swallowing, ~Halted', NEW m \in project.builder
             PROVE  ScanOK(project, dag', m)
  BY DEF ScanInv, Swallowing, Policy
<1>6. ScanOK(project, dag, m) /\ m \in Node
  BY <1>1 DEF ScanInv, Sane
<1>7. dag'.state[m] \notin Handled => dag.state[m] \notin Handled /\ m \notin gone
  BY <1>2, <1>5, <1>6 DEF Later, Handled, NodeState
<1>8. ASSUME dag'.state[m] \notin Handled, NEW s \in project.builder, Behind(project, dag, m, s)
      PROVE  Behind(project, dag', m, s)
  <2>1. s \in Node /\ Outdated(project, s) /\ dag.state[s] \notin Finished /\ Targets(project, m) = {m}
    BY <1>1, <1>6, <1>8 DEF Behind, Sane
  <2>2. dag'.state[s] = dag.state[s] \/ dag'.state[s] = "failed"
    BY <1>2, <1>5, <2>1
  <2>3. CASE m \in dag.wp[s]
    <3>1. s \notin gone
      BY <1>4, <1>7, <1>8, <2>3
    <3>2. m \in dag'.wp[s]
      BY <1>2, <1>4, <1>5, <2>1, <2>3, <3>1
    <3> QED  BY <2>1, <2>2, <3>2 DEF Behind, Finished
  <2>4. CASE Doomed(project, dag, s)
    <3>1. Doomed(project, dag', s)
      BY <1>1, <2>2, <2>4, HandledStays DEF Doomed
    <3> QED  BY <2>1, <2>2, <3>1 DEF Behind, Finished
  <2> QED  BY <1>8, <2>1, <2>3, <2>4 DEF Behind
<1>9. \A t \in Targets(project, m) : dag'.implicit[t] = dag.implicit[t]
  BY <1>2, <1>5
<1> QED  BY <1>6, <1>7, <1>8, <1>9, ScanKept


\* The hypothesis of the theorem: with -k every action has one target.  What
\* waits for one of several targets is given up with it, the others are not,
\* and nobody would tell them.
LoneTargets == options.policy = "keep_going" => \A n \in Node : Targets(project, n) = {n}

LEMMA LoneStays == [Next]_vars /\ LoneTargets => LoneTargets'
<1>1. [Next]_vars => UNCHANGED <<project, options>>
  BY DEF Next, MainStep, WorkerStep, Over, vars, TakeCandidate, SkipHandled, Examine, ScanRaises, Hand, NoTaskLeft, PrepareFails,
         SkipCurrent, Dispatch, ExecuteSerially, ConcludeSerially, Take, Deliver, Quit, GetResult, PostSentinels,
         Cleanup, Signal
<1> QED  BY <1>1 DEF LoneTargets

LEMMA EndsScan ==
  ASSUME Types, ScanInv, LoneTargets \/ broken' = {}, UNCHANGED <<project, options>>, dag.currentTop \in Node,
         pc' # "look", Halted => Halted', NEW n \in Node, Complete(n) \/ Fail(n),
         options.class = "build" /\ ~Swallowing =>
            \/ n \in project.builder => HandledAll(project, dag, n)
            \/ Fail(n) /\ Policy # "ignore"
  PROVE  ScanInv'
<1> DEFINE T == Targets(project, n)
<1>1. Later(project, dag, dag')
  BY FailWalk, CompleteWalk
<1>2. Sane(project) /\ IsWalk(dag) /\ T \in SUBSET Node
  BY ProjectSane, TargetsAreNodes DEF Types
<1> SUFFICES ASSUME options.class = "build", ~Swallowing, ~dag'.stopped PROVE ScanInv'
  BY DEF ScanInv, Halted, Swallowing, Policy
<1>3. ASSUME NEW over \in SUBSET Node,
             dag' \in Postprocessed(project, Stopped(WillNotBuild(dag, T, TRUE)), over)
      PROVE  FALSE
  <2> DEFINE m == WillNotBuild(dag, T, TRUE)
  <2>1. IsWalk(m)
    BY <1>2, WillNotBuildWalk DEF Later
  <2> HIDE DEF m
  <2>2. IsWalk(Stopped(m)) /\ Stopped(m).stopped
    BY <1>2, <2>1, StoppedWalk DEF Later
  <2> DEFINE e == Stopped(m)
  <2> HIDE DEF e
  <2>3. IsWalk(e) /\ dag' \in Postprocessed(project, e, over)
    BY <1>3, <2>2 DEF e, m
  <2>4. dag'.stopped = e.stopped
    BY <1>2, <2>3, PostprocessedStates
  <2> QED  BY <2>2, <2>4 DEF e
<1>4. CASE Fail(n) /\ Policy = "keep_going"
  <2>1. dag' \in Postprocessed(project, GivenUp(dag, T), T)
    BY <1>4 DEF Fail, GivenUp
  <2>2. \A m \in Node : Targets(project, m) = {m}
    <3>1. broken' # {}
      BY <1>2, <1>4, TargetsAreNodes DEF Fail
    <3> QED  BY <1>4, <3>1 DEF LoneTargets, Policy
  <2>3. T = {n}
    BY <2>2
  <2> QED  BY <1>1, <2>1, <2>2, <2>3, GoneScan
<1>5. CASE Fail(n) /\ Policy = "stop"
  <2>1. dag' \in Postprocessed(project, Stopped(WillNotBuild(dag, T, TRUE)), {dag.currentTop})
    BY <1>5 DEF Fail
  <2> QED  BY <1>3, <2>1
<1>6. CASE (Fail(n) /\ Policy = "ignore") \/ ~Fail(n)
  <2>1. n \in project.builder => HandledAll(project, dag, n)
    BY <1>6
  <2>2. dag' \in Postprocessed(project, Executed(project, dag, T), T)
    BY <1>6 DEF Fail, Complete
  <2> QED  BY <1>1, <2>1, <2>2, DoneScan
<1> QED  BY <1>4, <1>5, <1>6, PolicyRange

\* The end of a task begins nothing.
LEMMA EndsBegin ==
  ASSUME Types, dag.currentTop \in Node, NEW n \in Node, Complete(n) \/ Fail(n),
         NEW s \in project.builder, Begun(dag', s)
  PROVE  Begun(dag, s)
<1> DEFINE T == Targets(project, n)
           m == GivenUp(dag, T)
<1>1. PICK after, over : Ends(n, after, over) /\ dag' \in Postprocessed(project, after, over)
  BY TaskEnds
<1>2. Sane(project) /\ IsWalk(dag) /\ T \in SUBSET Node /\ s \in Node
  BY ProjectSane, TargetsAreNodes DEF Types, Sane
<1>3. IsWalk(after) /\ over \in SUBSET Node
  BY <1>1, EndsWalk
<1>4. dag'.state[s] = after.state[s]
  BY <1>1, <1>2, <1>3, PostprocessedStates
<1>5. Executed(project, dag, T).state[s] \in {dag.state[s], "executed"}
      /\ (dag.state[s] # "executing" => Executed(project, dag, T).state[s] = dag.state[s])
  BY <1>2, ExecutedStates
<1>6. Released(project, dag, T).state[s] = Executed(project, dag, T).state[s]
  BY <1>2, ExecutedFields
<1>7. m.state[s] \in {dag.state[s], "failed"} /\ Stopped(m).state = m.state
  <2>1. IsWalk(m)
    BY <1>2, WillNotBuildWalk DEF Later, GivenUp
  <2>2. m.state[s] \in {dag.state[s], "failed"}
    BY <1>2, GivenUpFields
  <2> HIDE DEF m
  <2> QED  BY <2>1, <2>2, StoppedFields
<1> HIDE DEF T, m
<1>8. /\ after.state[s] \in {dag.state[s], "executed", "failed"}
      /\ dag.state[s] # "executing" => after.state[s] \in {dag.state[s], "failed"}
  BY <1>1, <1>5, <1>6, <1>7 DEF Ends, T, m, GivenUp
<1> QED  BY <1>4, <1>8 DEF Begun, Finished


LEMMA TasksKept ==
  ASSUME Types, TasksHandled, UNCHANGED <<project, options>>, Later(project, dag, dag'),
         options.class = "build" /\ ~Swallowing =>
            /\ \A n \in project.builder : Tasked(n)' => Tasked(n) \/ HandledAll(project, dag', n)
            /\ pc' \in {"executed", "failed"} => ~raised'
            /\ raised' => raised \/ Policy # "ignore"
  PROVE  TasksHandled'
<1> SUFFICES ASSUME options.class = "build", ~Swallowing
             PROVE  /\ \A n \in project.builder : Tasked(n)' => HandledAll(project, dag', n)
                    /\ pc' \in {"executed", "failed"} => ~raised'
                    /\ raised' => Policy # "ignore"
  BY DEF TasksHandled, Swallowing, Policy
<1>1. Sane(project)
  BY ProjectSane
<1>2. ASSUME NEW n \in project.builder, Tasked(n)
      PROVE  HandledAll(project, dag', n)
  BY <1>1, <1>2, HandledStays DEF TasksHandled
<1> QED  BY <1>2 DEF TasksHandled

LEMMA SameTasks ==
  ASSUME Types, TasksHandled, UNCHANGED <<project, options, requestQ, resultsQ, worker>>,
         Later(project, dag, dag'),
         \/ pc' \notin {"prepare", "executed", "failed"} /\ (raised' => raised)
         \/ UNCHANGED <<pc, task, raised>>
  PROVE  TasksHandled'
BY TasksKept DEF Tasked, TasksHandled

\* A task that is handed out.
LEMMA HandedTasks ==
  ASSUME Types, TasksHandled, UNCHANGED <<project, options, requestQ, resultsQ, worker>>,
         Later(project, dag, dag'), Handed,
         raised' => options.faults \cap {"scan", "ready"} # {}
  PROVE  TasksHandled'
<1>1. \A n \in project.builder : Tasked(n)' => Tasked(n) \/ HandledAll(project, dag', n)
  BY DEF Tasked, Handed, HandledAll
<1>2. options.class = "build" /\ ~Swallowing => (raised' => Policy # "ignore")
  BY DEF Swallowing
<1>3. pc' = "prepare"
  BY DEF Handed
<1> QED  BY <1>1, <1>2, <1>3, TasksKept

LEMMA MainTasks ==
  ASSUME Types, Entered, TasksHandled, MainStep
  PROVE  TasksHandled'
<1>1. Later(project, dag, dag') /\ UNCHANGED <<project, options>>
  BY MainOnward DEF Onward
<1>2. CASE TakeCandidate \/ SkipHandled
  BY <1>1, <1>2, SameTasks DEF TakeCandidate, SkipHandled, pool
<1>3. CASE Examine
  <2>1. (Handed \/ (pc' = "next" /\ UNCHANGED <<task, raised>>)) /\ UNCHANGED pool
    BY <1>3, ExamineWalk
  <2>2. raised' => CannotTell \/ (pc' = "next" /\ UNCHANGED <<task, raised>>)
    <3>1. PICK fresh :
            \E order \in PushOrders(Seen(Candidate(dag), fresh), Children(project, Seen(Candidate(dag), fresh), Candidate(dag))) :
                Looks(Candidate(dag), Seen(Candidate(dag), fresh),
                      Children(project, Seen(Candidate(dag), fresh), Candidate(dag)), order)
      BY <1>3, ExamineLooks
    <3> QED  BY <3>1 DEF Looks
  <2> QED  BY <1>1, <2>1, <2>2, HandedTasks, SameTasks DEF pool, CannotTell
<1>4. CASE ScanRaises
  BY <1>1, <1>4, ScanRaisesWalk, HandedTasks DEF pool, ScanRaises
<1>5. CASE NoTaskLeft
  <2>1. pc' \in {"cleanup", "wait", "join"} /\ raised' = FALSE
    BY <1>5 DEF NoTaskLeft
  <2> QED  BY <1>1, <1>5, <2>1, SameTasks DEF NoTaskLeft, pool
<1>6. CASE PrepareFails \/ SkipCurrent \/ ConcludeSerially
  <2>1. pc' = "next" /\ raised' = FALSE /\ UNCHANGED pool
    BY <1>6 DEF PrepareFails, SkipCurrent, ConcludeSerially
  <2> QED  BY <1>1, <2>1, SameTasks DEF pool
<1>7. CASE Dispatch
  <2>1. /\ requestQ' = Append(requestQ, task) /\ pc' \in {"next", "wait"} /\ raised' = FALSE
        /\ UNCHANGED <<resultsQ, worker>> /\ pc = "prepare" /\ (options.class = "build" => ~raised)
    BY <1>7 DEF Dispatch, Prepared
  <2>2. \A i \in DOMAIN requestQ' : requestQ'[i] = task \/ (i \in DOMAIN requestQ /\ requestQ'[i] = requestQ[i])
    BY <2>1 DEF Types
  <2>3. options.class = "build" => \A n \in project.builder : Tasked(n)' => Tasked(n)
    BY <2>1, <2>2 DEF Tasked
  <2> QED  BY <1>1, <2>1, <2>3, TasksKept
<1>8. CASE ExecuteSerially
  <2>1. /\ pc = "prepare" /\ (options.class = "build" => ~raised) /\ UNCHANGED <<task, raised, pool>>
    BY <1>8 DEF ExecuteSerially, Prepared
  <2>2. options.class = "build" => \A n \in project.builder : Tasked(n)' => Tasked(n)
    BY <2>1 DEF Tasked, pool
  <2> QED  BY <1>1, <2>1, <2>2, TasksKept
<1>9. CASE GetResult
  <2>1. /\ resultsQ # <<>> /\ resultsQ' = Tail(resultsQ) /\ pc' \in {"next", "wait"}
        /\ UNCHANGED <<raised, requestQ, worker>>
    BY <1>9 DEF GetResult
  <2>2. \A i \in DOMAIN resultsQ' : i + 1 \in DOMAIN resultsQ /\ resultsQ'[i] = resultsQ[i + 1]
    BY <2>1 DEF Types
  <2>3. \A n \in project.builder : Tasked(n)' => Tasked(n)
    BY <2>1, <2>2 DEF Tasked
  <2> QED  BY <1>1, <2>1, <2>3, TasksKept
<1>10. CASE PostSentinels \/ Cleanup
  <2>1. pc' \in {"cleanup", "done"} /\ UNCHANGED <<raised, requestQ, resultsQ, worker>>
    BY <1>10 DEF PostSentinels, Cleanup, pool
  <2> QED  BY <1>1, <2>1, SameTasks
<1> QED  BY <1>2, <1>3, <1>4, <1>5, <1>6, <1>7, <1>8, <1>9, <1>10 DEF MainStep

LEMMA OtherTasks ==
  ASSUME Types, Entered, TasksHandled, (\E w \in Worker : WorkerStep(w)) \/ Signal \/ UNCHANGED vars
  PROVE  TasksHandled'
<1>1. Later(project, dag, dag') /\ UNCHANGED <<project, options>>
  BY OtherOnward DEF Onward
<1>2. ASSUME NEW w \in Worker, Take(w)
      PROVE  TasksHandled'
  <2>1. /\ requestQ # <<>> /\ requestQ' = Tail(requestQ) /\ UNCHANGED <<pc, task, raised, resultsQ>>
        /\ worker' = [worker EXCEPT ![w] = Run(Head(requestQ), interrupted)]
    BY <1>2 DEF Take
  <2>2. \A i \in DOMAIN requestQ' : i + 1 \in DOMAIN requestQ /\ requestQ'[i] = requestQ[i + 1]
    BY <2>1 DEF Types
  <2>3. Head(requestQ) = requestQ[1] /\ 1 \in DOMAIN requestQ
    BY <2>1 DEF Types
  <2>4. \A v \in Worker : worker'[v].does = "run" => worker'[v].node = requestQ[1] \/ worker'[v] = worker[v]
    BY <2>1, <2>3 DEF Types, Run
  <2>5. \A n \in project.builder : Tasked(n)' => Tasked(n)
    BY <2>1, <2>2, <2>3, <2>4 DEF Tasked
  <2> QED  BY <1>1, <2>1, <2>5, TasksKept DEF TasksHandled
<1>3. ASSUME NEW w \in Worker, Deliver(w)
      PROVE  TasksHandled'
  <2>1. PICK ok \in BOOLEAN : resultsQ' = Append(resultsQ, [node |-> worker[w].node, ok |-> ok])
    BY <1>3 DEF Deliver
  <2>2. /\ worker[w].does = "run" /\ worker' = [worker EXCEPT ![w] = Idle]
        /\ UNCHANGED <<pc, task, raised, requestQ>>
    BY <1>3 DEF Deliver, walk
  <2>3. \A i \in DOMAIN resultsQ' : resultsQ'[i].node = worker[w].node
                                    \/ (i \in DOMAIN resultsQ /\ resultsQ'[i] = resultsQ[i])
    BY <2>1 DEF Types
  <2>4. \A v \in Worker : worker'[v].does = "run" => worker'[v] = worker[v]
    BY <2>2 DEF Types, Idle
  <2>5. \A n \in project.builder : Tasked(n)' => Tasked(n)
    BY <2>2, <2>3, <2>4 DEF Tasked
  <2> QED  BY <1>1, <2>2, <2>5, TasksKept DEF TasksHandled
<1>4. ASSUME NEW w \in Worker, Quit(w)
      PROVE  TasksHandled'
  <2>1. /\ worker' = [worker EXCEPT ![w].does = "quit"] /\ UNCHANGED <<pc, task, raised, requestQ, resultsQ>>
    BY <1>4 DEF Quit, walk
  <2>2. \A v \in Worker : worker'[v].does = "run" => worker'[v] = worker[v]
    BY <2>1 DEF Types
  <2>3. \A n \in project.builder : Tasked(n)' => Tasked(n)
    BY <2>1, <2>2 DEF Tasked
  <2> QED  BY <1>1, <2>1, <2>3, TasksKept DEF TasksHandled
<1>5. CASE Signal
  BY <1>1, <1>5, SameTasks DEF Signal, pool
<1>6. CASE UNCHANGED vars
  BY <1>1, <1>6, SameTasks DEF vars, walk, pool
<1> QED  BY <1>2, <1>3, <1>4, <1>5, <1>6 DEF WorkerStep


LEMMA SameScan ==
  ASSUME ScanInv, UNCHANGED <<project, options>>, Halted => Halted', dag' = dag \/ Halted'
  PROVE  ScanInv'
BY DEF ScanInv, Swallowing, Policy

LEMMA MainScan ==
  ASSUME Types, Entered, TasksHandled, ScanInv, LoneTargets \/ broken' = {}, MainStep
  PROVE  ScanInv'
<1>1. Later(project, dag, dag') /\ UNCHANGED <<project, options>> /\ IsWalk(dag)
  BY MainOnward DEF Onward, Types
<1>a. Halted => Halted'
  BY StaysHalted DEF Next
<1>0. CASE TakeCandidate
  <2>1. dag' = dag
    BY <1>0 DEF TakeCandidate
  <2> QED  BY <1>1, <1>a, <2>1, SameScan
<1>2. CASE SkipHandled
  <2>1. dag'.state = dag.state /\ dag'.wp = dag.wp /\ dag'.implicit = dag.implicit
    BY <1>1, <1>2, WithoutCandidateFields DEF SkipHandled
  <2>2. Patient(project, dag, dag')
    BY <2>1 DEF Patient, Doomed
  <2> QED  BY <1>1, <1>a, <2>1, <2>2, PatientStep
<1>3. CASE Examine
  BY <1>3, ExamineScan
<1>4. CASE ScanRaises
  BY <1>4, ScanRaisesScan
<1>5. CASE NoTaskLeft
  <2>1. dag' = dag \/ Halted'
    BY <1>1, <1>5 DEF NoTaskLeft, Later, Halted
  <2> QED  BY <1>1, <1>a, <2>1, SameScan
<1>6. CASE PrepareFails \/ SkipCurrent \/ ConcludeSerially
  <2>1. /\ task \in Node /\ (Complete(task) \/ Fail(task)) /\ dag.currentTop \in Node
        /\ pc \in {"prepare", "executed", "failed"} /\ pc' # "look"
    BY <1>6, TaskEntered DEF PrepareFails, SkipCurrent, ConcludeSerially, Prepared, Types
  <2>2. ASSUME options.class = "build", ~Swallowing
        PROVE  (task \in project.builder => HandledAll(project, dag, task)) \/ (Fail(task) /\ Policy # "ignore")
    <3>1. CASE raised
      <4>1. Policy # "ignore" /\ pc = "prepare"
        BY <2>1, <2>2, <3>1 DEF TasksHandled
      <4>2. Fail(task)
        BY <1>6, <2>2, <3>1, <4>1 DEF PrepareFails, SkipCurrent, ConcludeSerially, Prepared
      <4> QED  BY <4>1, <4>2
    <3>2. CASE ~raised
      BY <2>1, <2>2, <3>2 DEF TasksHandled, Tasked
    <3> QED  BY <3>1, <3>2
  <2> QED  BY <1>1, <1>a, <2>1, <2>2, EndsScan
<1>7. CASE Dispatch \/ PostSentinels \/ Cleanup
  <2>1. dag' = dag
    BY <1>7 DEF Dispatch, PostSentinels, Cleanup
  <2> QED  BY <1>1, <1>a, <2>1, SameScan
<1>8. CASE ExecuteSerially
  <2>1. (dag' = dag \/ dag' = Stopped(dag)) /\ pc' # "look"
    BY <1>8 DEF ExecuteSerially, Execute
  <2>2. dag' = dag \/ Halted'
    BY <1>1, <2>1, StoppedFields DEF Halted
  <2> QED  BY <1>1, <1>a, <2>2, SameScan
<1>9. CASE GetResult
  <2> DEFINE n == Head(resultsQ).node
  <2>1. Head(resultsQ) = resultsQ[1] /\ 1 \in DOMAIN resultsQ /\ resultsQ[1] \in Result /\ dag.currentTop \in Node
    BY <1>9, TaskEntered DEF GetResult, Types
  <2>2. n \in Node /\ (Complete(n) \/ Fail(n)) /\ pc' # "look"
    BY <1>9, <2>1 DEF GetResult, Result
  <2>3. Tasked(n)
    BY <2>1 DEF Tasked
  <2> HIDE DEF n
  <2> QED  BY <1>1, <1>a, <2>1, <2>2, <2>3, EndsScan DEF TasksHandled
<1> QED  BY <1>0, <1>2, <1>3, <1>4, <1>5, <1>6, <1>7, <1>8, <1>9 DEF MainStep

\* A step that leaves the walk alone, or stops it.
LEMMA HeldStep ==
  ASSUME Types, Entered, (\E w \in Worker : WorkerStep(w)) \/ Signal \/ UNCHANGED vars
  PROVE  /\ UNCHANGED <<project, options>> /\ Later(project, dag, dag') /\ (Halted => Halted')
         /\ dag'.state = dag.state /\ dag'.wp = dag.wp /\ dag'.implicit = dag.implicit
<1>1. UNCHANGED <<project, options>> /\ Later(project, dag, dag') /\ IsWalk(dag)
  BY OtherOnward DEF Onward, Types
<1>2. dag' = dag \/ dag' = Stopped(dag)
  <2>1. ASSUME NEW w \in Worker, WorkerStep(w)
        PROVE  dag' = dag \/ dag' = Stopped(dag)
    BY <2>1 DEF WorkerStep, Take, Execute, Deliver, Quit, walk
  <2> QED  BY <2>1 DEF Signal, vars, walk
<1>3. Halted => Halted'
  BY StaysHalted DEF Next
<1> QED  BY <1>1, <1>2, <1>3, StoppedFields

LEMMA OtherScan ==
  ASSUME Types, Entered, ScanInv, (\E w \in Worker : WorkerStep(w)) \/ Signal \/ UNCHANGED vars
  PROVE  ScanInv'
<1>1. /\ UNCHANGED <<project, options>> /\ Later(project, dag, dag') /\ (Halted => Halted')
      /\ dag'.state = dag.state /\ dag'.wp = dag.wp /\ dag'.implicit = dag.implicit
  BY HeldStep
<1>2. Patient(project, dag, dag')
  BY <1>1 DEF Patient, Doomed
<1> QED  BY <1>1, <1>2, PatientStep

\* The only step that begins with a node after it looked at its children.
LEMMA ExamineOrder ==
  ASSUME Types, Entered, ScanInv, Examine, ~Swallowing, options.class # "question",
         NEW x \in project.builder, Begun(dag', x), ~Begun(dag, x)
  PROVE  \A c \in Needs(x) : dag.state[c] \in Finished
<1> DEFINE n == Candidate(dag)
<1>1. n \in Node /\ dag.state[n] \notin Handled /\ Sane(project) /\ x \in Node
  BY ExamineStates, ProjectSane DEF Sane
<1>2. PICK fresh : 
        LET d    == Seen(n, fresh)
            kids == Children(project, d, n)
        IN  /\ dag'.implicit = d.implicit /\ d.state[n] \notin Handled
            /\ \A s \in Node : /\ d.state[s] \in Finished <=> dag.state[s] \in Finished
                               /\ d.state[s] = dag.state[s] \/ s = n
            /\ \A s \in project.builder :
                 \/ dag'.state[s] = d.state[s]
                 \/ s \in Targets(project, n) /\ dag'.state[s] = "failed"
                 \/ /\ s \in Targets(project, n) /\ \A c \in kids : d.state[c] \in Finished
                    /\ \/ dag'.state[s] = "executing"
                       \/ dag'.state[s] = "up_to_date" /\ ~Outdated(project, s)
            /\ n \in project.builder =>
                 \/ \A t \in Targets(project, n) : dag'.state[t] \in Handled
                 \/ \A c \in kids : d.state[c] \notin Finished => n \in dag'.wp[c]
  BY ExamineStates, Zenon
<1> DEFINE d    == Seen(n, fresh)
           kids == Children(project, d, n)
<1>3. options.class = "build" /\ n \in project.builder => Aware(project, d, n)
  BY <1>1, ScanAware DEF Examine
<1>4. kids \subseteq Node
  BY DEF Children
<1> HIDE DEF n, d, kids
<1>5. x \in Targets(project, n) /\ \A c \in kids : d.state[c] \in Finished
  <2>1. dag'.state[x] # d.state[x]
    <3>1. CASE x = n
      BY <1>1, <1>2, <3>1 DEF Begun, Handled, Finished, NodeState, d
    <3>2. CASE x # n
      BY <1>1, <1>2, <3>2 DEF Begun, d
    <3> QED  BY <3>1, <3>2
  <2>2. dag'.state[x] # "failed"
    BY DEF Begun, Finished
  <2> QED  BY <1>2, <2>1, <2>2 DEF d, kids
<1>6. Targets(project, x) = Targets(project, n) /\ n \in project.builder
  <2>1. n \in Targets(project, x)
    BY <1>1, <1>5 DEF Sane, Targets
  <2> QED  BY <1>1, <2>1, TargetsShared
<1>7. Needs(x) = Needs(n)
  BY <1>6 DEF Needs, Declared, Sources
<1>8. Needs(n) \subseteq kids
  BY <1>1, <1>3, <1>5, <1>6, NeedsAreChildren DEF kids
<1> QED  BY <1>2, <1>4, <1>5, <1>7, <1>8 DEF d

\* No other step begins with a node, except after an exception.
LEMMA OtherBegin ==
  ASSUME Types, Entered, [Next]_vars, ~Examine, ~ScanRaises, NEW s \in project.builder, Begun(dag', s)
  PROVE  Begun(dag, s)
<1>1. IsWalk(dag) /\ Sane(project)
  BY ProjectSane DEF Types
<1>2. CASE SkipHandled
  <2>1. dag'.state = dag.state
    BY <1>1, <1>2, WithoutCandidateFields DEF SkipHandled
  <2> QED  BY <2>1 DEF Begun
<1>3. CASE NoTaskLeft
  <2> DEFINE failed == FALSE
             gone   == ToSet(dag.cand)
             w      == WillNotBuild(dag, gone, failed)
  <2>1. Drained(dag).state = w.state
    BY <1>1, DrainedFields
  <2>2. failed \in BOOLEAN /\ ~failed /\ s \in Node
    BY <1>1 DEF Sane
  <2> HIDE DEF failed, gone
  <2>3. w.state[s] = dag.state[s]
    BY <1>1, <2>2, WillNotBuildFields
  <2> HIDE DEF w
  <2> QED  BY <1>3, <2>1, <2>3 DEF NoTaskLeft, Begun
<1>4. CASE PrepareFails \/ SkipCurrent \/ ConcludeSerially
  <2>1. /\ task \in Node /\ (Complete(task) \/ Fail(task)) /\ dag.currentTop \in Node
    BY <1>4, TaskEntered DEF PrepareFails, SkipCurrent, ConcludeSerially, Prepared, Types
  <2> QED  BY <2>1, EndsBegin
<1>5. CASE GetResult
  <2>1. Head(resultsQ) \in Result /\ dag.currentTop \in Node
    BY <1>5, TaskEntered DEF GetResult, Types
  <2>2. Head(resultsQ).node \in Node /\ (Complete(Head(resultsQ).node) \/ Fail(Head(resultsQ).node))
    BY <1>5, <2>1 DEF GetResult, Result
  <2> QED  BY <2>1, <2>2, EndsBegin
<1>6. ASSUME dag' = dag \/ dag' = Stopped(dag)
      PROVE  Begun(dag, s)
  BY <1>1, <1>6, StoppedFields DEF Begun
<1>7. CASE TakeCandidate \/ Dispatch \/ ExecuteSerially \/ PostSentinels \/ Cleanup
  BY <1>6, <1>7 DEF TakeCandidate, Dispatch, ExecuteSerially, Execute, PostSentinels, Cleanup
<1>8. CASE (\E w \in Worker : WorkerStep(w)) \/ Signal \/ UNCHANGED vars
  <2>1. ASSUME NEW w \in Worker, WorkerStep(w)
        PROVE  dag' = dag \/ dag' = Stopped(dag)
    BY <2>1 DEF WorkerStep, Take, Execute, Deliver, Quit, walk
  <2> QED  BY <1>6, <1>8, <2>1 DEF Signal, vars, walk
<1> QED  BY <1>2, <1>3, <1>4, <1>5, <1>7, <1>8 DEF Next, MainStep, Over

\* Whatever is built, or passed over as current, has all it needs finished,
\* the files that it turned out to include among them.
THEOREM DependenciesComeFirst == Spec /\ LoneTargets => DependenciesFirst
<1>1. Init => TasksHandled /\ ScanInv
  <2> SUFFICES ASSUME Init PROVE TasksHandled /\ ScanInv
    OBVIOUS
  <2>1. /\ requestQ = <<>> /\ resultsQ = <<>> /\ pc = "next" /\ raised = FALSE
        /\ \A w \in Worker : worker[w].does # "run"
    BY InitWalk DEF Init
  <2>2. TasksHandled
    BY <2>1 DEF TasksHandled, Tasked
  <2>3. project \in Projects /\ \A n \in Node : dag.implicit[n] = NotScanned
    BY DEF Init, NewWalk
  <2>4. \A n \in project.builder : ~Scans(project, dag, n)
    BY <2>3, ProjectsSane, TargetsShared DEF Scans
  <2> QED  BY <2>2, <2>4 DEF ScanInv, ScanOK
<1>2. Types /\ Entered /\ TasksHandled /\ ScanInv /\ LoneTargets /\ [Next]_vars => TasksHandled' /\ ScanInv'
  BY MainTasks, OtherTasks, MainScan, OtherScan DEF Next, Over
<1>3. Types /\ Entered /\ ScanInv /\ [Next]_vars =>
        (~Swallowing => \A n \in project.builder :
           /\ Begun(dag', n) /\ ~Begun(dag, n)
           /\ options.class # "question" /\ ~raised'
           => \A c \in Needs(n) : dag.state[c] \in Finished)
  <2>1. ScanRaises => raised'
    BY DEF ScanRaises, Hand
  <2> QED  BY <2>1, ExamineOrder, OtherBegin
<1> QED  BY <1>1, <1>2, <1>3, LoneStays, WalkTypes, PTL DEF Spec, DependenciesFirst


----------------------------------------------------------------------------
(* Side effects.  The tasks under way are counted by their place: in a     *)
(* queue, with a worker, or with the main thread.  Every step moves the    *)
(* tasks from place to place, ends one or makes one.                       *)

Places ==
    {<<"request", i>> : i \in DOMAIN requestQ} \cup {<<"result", i>> : i \in DOMAIN resultsQ}
      \cup {<<"worker", w>> : w \in RunningWorkers}
      \cup {<<"task", i>> : i \in IF pc \in {"prepare", "executed", "failed"} THEN {1} ELSE {}}
NodeAt(x) == CASE x[1] = "request" -> requestQ[x[2]]
               [] x[1] = "result"  -> resultsQ[x[2]].node
               [] x[1] = "worker"  -> worker[x[2]].node
               [] x[1] = "task"    -> task

\* What a task of n writes on the side, or is itself written on the side.
AllEffects == Effects(project, Node)
Claims(n)  == AllEffects \cap (Effects(project, Targets(project, n)) \cup Targets(project, n))

\* The task at x has marked what it claims as being written.
Under(x) == \/ x[1] # "task" \/ pc # "prepare"
            \/ (options.class = "build" => ~raised) /\ NeedsExecute

Waits == options.class # "question" /\ "scan" \notin options.faults

\* The inductive invariant: no two tasks under way claim the same file, and
\* until the walk is halted what they claim is being written.
Apart == Waits =>
    \A x, y \in Places : x # y => Claims(NodeAt(x)) \cap Claims(NodeAt(y)) = {}
Claimed == Waits /\ ~Halted =>
    \A x \in Places : Under(x) => \A s \in Claims(NodeAt(x)) : dag.state[s] = "executing"

\* The hypothesis: only what is built writes on the side, and with -k what is
\* written on the side is used by nobody, or it could be given up with a
\* failure while it is written.
PlainFiles(p) == \A n \in Node \ p.builder : Targets(p, n) = {n} /\ p.effects[n] = {}
NotUsed(p, E) ==
    /\ ToSet(p.top) \cap E = {}
    /\ \A n \in Node : /\ ToSet(p.sources[n]) \cap E = {} /\ ToSet(p.prereqs[n]) \cap E = {}
                       /\ p.includes[n] \cap E = {} /\ p.before[n] \cap E = {}
SideFiles == PlainFiles(project) /\ (Policy = "keep_going" => NotUsed(project, AllEffects))

LEMMA PlaceKinds ==
  ASSUME NEW x
  PROVE  x \in Places <=>
           \/ \E i \in DOMAIN requestQ : x = <<"request", i>>
           \/ \E i \in DOMAIN resultsQ : x = <<"result", i>>
           \/ \E w \in RunningWorkers : x = <<"worker", w>>
           \/ x = <<"task", 1>> /\ pc \in {"prepare", "executed", "failed"}
BY DEF Places

LEMMA NodesAt ==
  /\ \A i : NodeAt(<<"request", i>>) = requestQ[i] /\ NodeAt(<<"request", i>>)' = requestQ'[i]
  /\ \A i : NodeAt(<<"result", i>>) = resultsQ[i].node /\ NodeAt(<<"result", i>>)' = resultsQ'[i].node
  /\ \A w : NodeAt(<<"worker", w>>) = worker[w].node /\ NodeAt(<<"worker", w>>)' = worker'[w].node
  /\ NodeAt(<<"task", 1>>) = task /\ NodeAt(<<"task", 1>>)' = task'
BY DEF NodeAt

\* Every place of the new state takes its task from a place of its own of the
\* old state.
LEMMA ApartKept ==
  ASSUME Apart, UNCHANGED <<project, options>>,
         NEW f, \A x \in Places' : f[x] \in Places /\ NodeAt(x)' = NodeAt(f[x]),
         \A x, y \in Places' : x # y => f[x] # f[y]
  PROVE  Apart'
<1>1. \A n : Claims(n)' = Claims(n)
  BY DEF Claims, AllEffects, Effects, Targets
<1> SUFFICES ASSUME Waits, NEW x \in Places', NEW y \in Places', x # y
             PROVE  Claims(NodeAt(x))' \cap Claims(NodeAt(y))' = {}
  BY DEF Apart, Waits
<1>2. Claims(NodeAt(f[x])) \cap Claims(NodeAt(f[y])) = {}
  BY DEF Apart
<1>3. Claims(NodeAt(x))' = Claims(NodeAt(f[x]))
  BY DEF Claims, AllEffects, Effects, Targets
<1>4. Claims(NodeAt(y))' = Claims(NodeAt(f[y]))
  BY DEF Claims, AllEffects, Effects, Targets
<1> QED  BY <1>2, <1>3, <1>4

LEMMA ClaimedKept ==
  ASSUME Claimed, UNCHANGED <<project, options>>, Halted => Halted',
         NEW f, \A x \in Places' : f[x] \in Places /\ NodeAt(x)' = NodeAt(f[x]),
         Waits /\ ~Halted' => \A x \in Places' : Under(x)' =>
            /\ Under(f[x])
            /\ \A s \in Claims(NodeAt(f[x])) : dag.state[s] = "executing" => dag'.state[s] = "executing"
  PROVE  Claimed'
<1> SUFFICES ASSUME Waits, ~Halted', NEW x \in Places', Under(x)'
             PROVE  \A s \in Claims(NodeAt(x))' : dag'.state[s] = "executing"
  BY DEF Claimed, Waits
<1>1. Claims(NodeAt(x))' = Claims(NodeAt(f[x]))
  BY DEF Claims, AllEffects, Effects, Targets
<1> QED  BY <1>1 DEF Claimed

\* Where the tasks are taken from; nothing is taken twice, and what is in gone
\* ends in this step.
Moves(f, gone) ==
    /\ \A x \in Places' : f[x] \in Places \ gone /\ NodeAt(x)' = NodeAt(f[x]) /\ (Under(x)' => Under(f[x]))
    /\ \A x, y \in Places' : x # y => f[x] # f[y]

\* No place but some of the old ones, with the same tasks.
LEMMA PlacesStay ==
  ASSUME NEW gone, Places' \subseteq Places \ gone, UNCHANGED <<project, options>>,
         \A x \in Places' : NodeAt(x)' = NodeAt(x) /\ (Under(x)' => Under(x))
  PROVE  \E f : Moves(f, gone)
<1> DEFINE f == [x \in Places' |-> x]
<1>1. Moves(f, gone)
  BY DEF Moves
<1> QED  BY <1>1

LEMMA MovesNothing ==
  ASSUME UNCHANGED <<project, options, requestQ, resultsQ, worker, pc, task, raised>>, dag'.state = dag.state
  PROVE  \E f : Moves(f, {})
<1>1. Places' = Places
  BY DEF Places, RunningWorkers
<1>2. \A x : NodeAt(x)' = NodeAt(x) /\ (Under(x)' => Under(x))
  BY DEF NodeAt, Under, NeedsExecute
<1> QED  BY <1>1, <1>2, PlacesStay

\* The main thread's task ends, or there is none.
LEMMA MovesTaskAway ==
  ASSUME UNCHANGED <<project, options, requestQ, resultsQ, worker>>, pc' \notin {"prepare", "executed", "failed"}
  PROVE  \E f : Moves(f, {<<"task", 1>>})
<1>1. Places' \subseteq Places \ {<<"task", 1>>}
  BY DEF Places, RunningWorkers
<1>2. \A x \in Places' : x[1] # "task" /\ x[1] \in {"request", "result", "worker"}
  BY DEF Places
<1>3. \A x \in Places' : NodeAt(x)' = NodeAt(x) /\ (Under(x)' => Under(x))
  BY <1>2 DEF NodeAt, Under
<1> QED  BY <1>1, <1>3, PlacesStay

LEMMA MovesResultAway ==
  ASSUME Types, UNCHANGED <<project, options, requestQ, worker>>, resultsQ # <<>>, resultsQ' = Tail(resultsQ),
         pc' \notin {"prepare", "executed", "failed"}
  PROVE  \E f : Moves(f, {<<"result", 1>>})
<1> DEFINE f == [x \in Places' |-> IF x[1] = "result" THEN <<"result", x[2] + 1>> ELSE x]
<1>1. \A i \in DOMAIN resultsQ' : i \in Nat /\ i + 1 \in DOMAIN resultsQ /\ i + 1 # 1 /\ resultsQ'[i] = resultsQ[i + 1]
  BY DEF Types
<1>2. ASSUME NEW x \in Places'
      PROVE  \/ \E i \in DOMAIN requestQ : x = <<"request", i>>
             \/ \E i \in DOMAIN resultsQ' : x = <<"result", i>>
             \/ \E w \in RunningWorkers : x = <<"worker", w>>
  BY DEF Places, RunningWorkers
<1>3. \A x \in Places' : f[x] = IF x[1] = "result" THEN <<"result", x[2] + 1>> ELSE x
  OBVIOUS
<1> HIDE DEF f
<1>4. ASSUME NEW x \in Places'
      PROVE  f[x] \in Places \ {<<"result", 1>>} /\ NodeAt(x)' = NodeAt(f[x]) /\ f[x][1] # "task"
  <2>1. CASE \E i \in DOMAIN requestQ : x = <<"request", i>>
    <3>1. PICK i \in DOMAIN requestQ : x = <<"request", i>>
      BY <2>1
    <3>2. f[x] = x
      BY <1>3, <3>1
    <3> QED  BY <3>1, <3>2, PlaceKinds, NodesAt
  <2>2. CASE \E i \in DOMAIN resultsQ' : x = <<"result", i>>
    <3>1. PICK i \in DOMAIN resultsQ' : x = <<"result", i>>
      BY <2>2
    <3>2. f[x] = <<"result", i + 1>> /\ i + 1 # 1
      BY <1>1, <1>3, <3>1
    <3> QED  BY <1>1, <3>1, <3>2, PlaceKinds, NodesAt
  <2>3. CASE \E w \in RunningWorkers : x = <<"worker", w>>
    <3>1. PICK w \in RunningWorkers : x = <<"worker", w>>
      BY <2>3
    <3>2. f[x] = x
      BY <1>3, <3>1
    <3> QED  BY <3>1, <3>2, PlaceKinds, NodesAt
  <2> QED  BY <1>2, <2>1, <2>2, <2>3
<1>5. ASSUME NEW x \in Places', NEW y \in Places', f[x] = f[y]
      PROVE  x = y
  <2>1. \A z \in Places' : z[1] # "result" => f[z] = z
    BY <1>3
  <2>2. ASSUME NEW z \in Places', z[1] = "result"
        PROVE  z[2] \in Nat /\ z = <<"result", z[2]>> /\ f[z] = <<"result", z[2] + 1>>
    <3>1. PICK i \in DOMAIN resultsQ' : z = <<"result", i>>
      BY <1>2, <2>2
    <3> QED  BY <1>1, <1>3, <2>2, <3>1
  <2> QED  BY <1>5, <2>1, <2>2
<1>6. Moves(f, {<<"result", 1>>})
  BY <1>4, <1>5 DEF Moves, Under
<1> QED  BY <1>6

\* The head of the queue goes to a worker that was idle.
LEMMA MovesTaken ==
  ASSUME Types, NEW w \in Worker, Take(w)
  PROVE  \E f : Moves(f, {})
<1> DEFINE f == [x \in Places' |-> IF x = <<"worker", w>> THEN <<"request", 1>>
                                  ELSE IF x[1] = "request" THEN <<"request", x[2] + 1>> ELSE x]
<1>1. /\ requestQ # <<>> /\ requestQ' = Tail(requestQ) /\ worker[w].does = "idle"
      /\ worker' = [worker EXCEPT ![w] = Run(Head(requestQ), interrupted)]
      /\ UNCHANGED <<project, options, pc, task, raised, resultsQ>>
  BY DEF Take, Idle
<1>2. /\ \A i \in DOMAIN requestQ' : i \in Nat /\ i + 1 \in DOMAIN requestQ /\ i + 1 # 1 /\ requestQ'[i] = requestQ[i + 1]
      /\ 1 \in DOMAIN requestQ /\ Head(requestQ) = requestQ[1]
  BY <1>1 DEF Types
<1>3. /\ RunningWorkers' = RunningWorkers \cup {w} /\ w \notin RunningWorkers
      /\ worker'[w].node = requestQ[1] /\ \A v \in RunningWorkers : worker'[v] = worker[v]
  BY <1>1, <1>2 DEF Types, Run, RunningWorkers
<1>4. dag'.state = dag.state
  <2>1. Head(requestQ) \in Node /\ (UNCHANGED dag \/ Execute(Head(requestQ)))
    BY <1>1 DEF Take, Types
  <2> QED  BY <2>1, ExecuteWalk
<1>5. ASSUME NEW x \in Places'
      PROVE  \/ \E i \in DOMAIN requestQ' : x = <<"request", i>>
             \/ \E i \in DOMAIN resultsQ : x = <<"result", i>>
             \/ x = <<"worker", w>>
             \/ \E v \in RunningWorkers : x = <<"worker", v>> /\ v # w
             \/ x = <<"task", 1>> /\ pc \in {"prepare", "executed", "failed"}
  BY <1>1, <1>3 DEF Places
<1>6. \A x \in Places' : f[x] = IF x = <<"worker", w>> THEN <<"request", 1>>
                                ELSE IF x[1] = "request" THEN <<"request", x[2] + 1>> ELSE x
  OBVIOUS
<1> HIDE DEF f
<1>7. \A x \in Places' : x[1] = "task" => (Under(x)' => Under(x))
  BY <1>1, <1>4 DEF Under, NeedsExecute
<1>8. ASSUME NEW x \in Places'
      PROVE  f[x] \in Places /\ NodeAt(x)' = NodeAt(f[x]) /\ (Under(x)' => Under(f[x]))
  <2>1. CASE \E i \in DOMAIN requestQ' : x = <<"request", i>>
    <3>1. PICK i \in DOMAIN requestQ' : x = <<"request", i>>
      BY <2>1
    <3>2. f[x] = <<"request", i + 1>>
      BY <1>6, <3>1
    <3>3. f[x][1] # "task"
      BY ONLY <3>2
    <3> QED  BY <1>2, <3>1, <3>2, <3>3, PlaceKinds, NodesAt DEF Under
  <2>2. CASE \E i \in DOMAIN resultsQ : x = <<"result", i>>
    <3>1. PICK i \in DOMAIN resultsQ : x = <<"result", i>>
      BY <2>2
    <3>2. f[x] = x /\ x[1] # "task"
      BY <1>6, <3>1
    <3> QED  BY <1>1, <3>1, <3>2, PlaceKinds, NodesAt DEF Under
  <2>3. CASE x = <<"worker", w>>
    <3>1. f[x] = <<"request", 1>>
      BY <1>6, <2>3
    <3>2. f[x][1] # "task"
      BY ONLY <3>1
    <3> QED  BY <1>2, <1>3, <2>3, <3>1, <3>2, PlaceKinds, NodesAt DEF Under
  <2>4. CASE \E v \in RunningWorkers : x = <<"worker", v>> /\ v # w
    <3>1. PICK v \in RunningWorkers : x = <<"worker", v>> /\ v # w
      BY <2>4
    <3>2. f[x] = x /\ x[1] # "task"
      BY <1>6, <3>1
    <3> QED  BY <1>3, <3>1, <3>2, PlaceKinds, NodesAt DEF Under
  <2>5. CASE x = <<"task", 1>> /\ pc \in {"prepare", "executed", "failed"}
    <3>1. f[x] = x
      BY <1>6, <2>5
    <3> QED  BY <1>1, <1>7, <2>5, <3>1, PlaceKinds, NodesAt
  <2> QED  BY <1>5, <2>1, <2>2, <2>3, <2>4, <2>5
<1>9. ASSUME NEW x \in Places', NEW y \in Places', f[x] = f[y]
      PROVE  x = y
  <2>1. \A z \in Places' : z[1] # "request" /\ z # <<"worker", w>> => f[z] = z
    BY <1>6
  <2>2. ASSUME NEW z \in Places', z[1] = "request"
        PROVE  z[2] \in Nat /\ z[2] + 1 # 1 /\ z = <<"request", z[2]>> /\ f[z] = <<"request", z[2] + 1>>
    <3>1. PICK i \in DOMAIN requestQ' : z = <<"request", i>>
      BY <1>5, <2>2
    <3> QED  BY <1>2, <1>6, <2>2, <3>1
  <2>3. \A z \in Places' : z = <<"worker", w>> => f[z] = <<"request", 1>>
    BY <1>6
  <2> QED  BY <1>9, <2>1, <2>2, <2>3
<1>10. Moves(f, {})
  BY <1>8, <1>9 DEF Moves
<1> QED  BY <1>10

\* A worker puts its task at the end of the results.
LEMMA MovesDelivered ==
  ASSUME Types, NEW w \in Worker, Deliver(w)
  PROVE  \E f : Moves(f, {})
<1>0. PICK k : k = Len(resultsQ) + 1
  OBVIOUS
<1> DEFINE last == <<"result", k>>
           f    == [x \in Places' |-> IF x = last THEN <<"worker", w>> ELSE x]
<1>1. PICK ok \in BOOLEAN : resultsQ' = Append(resultsQ, [node |-> worker[w].node, ok |-> ok])
  BY DEF Deliver
<1>2. /\ worker[w].does = "run" /\ worker' = [worker EXCEPT ![w] = Idle]
      /\ UNCHANGED <<project, options, dag, pc, task, raised, requestQ>>
  BY DEF Deliver, walk
<1>3. /\ Len(resultsQ) \in Nat /\ DOMAIN resultsQ = 1..Len(resultsQ)
      /\ DOMAIN resultsQ' = 1..k /\ resultsQ'[k].node = worker[w].node
      /\ \A i \in DOMAIN resultsQ : resultsQ'[i] = resultsQ[i] /\ i # k
  BY <1>0, <1>1 DEF Types
<1>4. w \in RunningWorkers /\ RunningWorkers' = RunningWorkers \ {w} /\ \A v \in RunningWorkers' : worker'[v] = worker[v]
  BY <1>2 DEF Types, Idle, RunningWorkers
<1>5. ASSUME NEW x \in Places'
      PROVE  \/ \E i \in DOMAIN requestQ : x = <<"request", i>>
             \/ \E i \in DOMAIN resultsQ : x = <<"result", i>>
             \/ x = last
             \/ \E v \in RunningWorkers' : x = <<"worker", v>>
             \/ x = <<"task", 1>> /\ pc \in {"prepare", "executed", "failed"}
  BY <1>0, <1>2, <1>3 DEF Places
<1>6. \A x \in Places' : f[x] = IF x = last THEN <<"worker", w>> ELSE x
  OBVIOUS
<1>7. \A i \in DOMAIN resultsQ : <<"result", i>> # last
  BY <1>3
<1>8. last[1] = "result" /\ NodeAt(last)' = worker[w].node
  BY <1>3, NodesAt
<1> HIDE DEF f, last
<1>9. ASSUME NEW x \in Places'
      PROVE  f[x] \in Places /\ NodeAt(x)' = NodeAt(f[x]) /\ (Under(x)' => Under(f[x]))
  <2>1. CASE x = last
    <3>1. f[x] = <<"worker", w>>
      BY <1>6, <2>1
    <3>2. f[x][1] # "task"
      BY ONLY <3>1
    <3> QED  BY <1>4, <1>8, <2>1, <3>1, <3>2, PlaceKinds, NodesAt DEF Under
  <2>2. CASE x # last
    <3>1. f[x] = x /\ (Under(x)' => Under(x))
      BY <1>2, <1>6, <2>2 DEF Under, NeedsExecute
    <3>2. x \in Places
      BY <1>4, <1>5, <2>2, PlaceKinds
    <3>3. NodeAt(x)' = NodeAt(x)
      BY <1>2, <1>3, <1>4, <1>5, <2>2, NodesAt
    <3> QED  BY <3>1, <3>2, <3>3
  <2> QED  BY <2>1, <2>2
<1>10. ASSUME NEW x \in Places', NEW y \in Places', f[x] = f[y]
      PROVE  x = y
  <2>1. <<"worker", w>> \notin Places'
    <3>1. \A i : <<"worker", w>> # <<"request", i>> /\ <<"worker", w>> # <<"result", i>> /\ <<"worker", w>> # <<"task", 1>>
      OBVIOUS
    <3> QED  BY <1>4, <1>5, <1>8, <3>1
  <2> QED  BY <1>6, <1>10, <2>1
<1>11. Moves(f, {})
  BY <1>9, <1>10 DEF Moves
<1> QED  BY <1>11

\* The main thread puts its task at the end of the queue.
LEMMA MovesDispatched ==
  ASSUME Types, Dispatch
  PROVE  \E f : Moves(f, {})
<1>0. PICK k : k = Len(requestQ) + 1
  OBVIOUS
<1> DEFINE last == <<"request", k>>
           f    == [x \in Places' |-> IF x = last THEN <<"task", 1>> ELSE x]
<1>1. /\ requestQ' = Append(requestQ, task) /\ pc = "prepare" /\ pc' \in {"next", "wait"}
      /\ UNCHANGED <<project, options, dag, resultsQ, worker>>
      /\ NeedsExecute /\ (options.class = "build" => ~raised)
  BY DEF Dispatch, Prepared
<1>2. /\ Len(requestQ) \in Nat /\ DOMAIN requestQ = 1..Len(requestQ)
      /\ DOMAIN requestQ' = 1..k /\ requestQ'[k] = task
      /\ \A i \in DOMAIN requestQ : requestQ'[i] = requestQ[i] /\ i # k
  BY <1>0, <1>1 DEF Types
<1>3. ASSUME NEW x \in Places'
      PROVE  \/ \E i \in DOMAIN requestQ : x = <<"request", i>>
             \/ \E i \in DOMAIN resultsQ : x = <<"result", i>>
             \/ x = last
             \/ \E v \in RunningWorkers : x = <<"worker", v>>
  BY <1>0, <1>1, <1>2 DEF Places, RunningWorkers
<1>4. \A x \in Places' : f[x] = IF x = last THEN <<"task", 1>> ELSE x
  OBVIOUS
<1>5. last[1] = "request" /\ NodeAt(last)' = task
  BY <1>2, NodesAt
<1> HIDE DEF f, last
<1>6. ASSUME NEW x \in Places'
      PROVE  f[x] \in Places /\ NodeAt(x)' = NodeAt(f[x]) /\ (Under(x)' => Under(f[x]))
  <2>1. CASE x = last
    <3>1. f[x] = <<"task", 1>> /\ Under(<<"task", 1>>)
      BY <1>1, <1>4, <2>1 DEF Under
    <3> QED  BY <1>1, <1>5, <2>1, <3>1, PlaceKinds, NodesAt
  <2>2. CASE x # last
    <3>1. f[x] = x /\ Under(x)
      BY <1>3, <1>4, <2>2 DEF Under
    <3>2. x \in Places
      BY <1>3, <2>2, PlaceKinds
    <3>3. NodeAt(x)' = NodeAt(x)
      BY <1>1, <1>2, <1>3, <2>2, NodesAt
    <3> QED  BY <3>1, <3>2, <3>3
  <2> QED  BY <2>1, <2>2
<1>7. ASSUME NEW x \in Places', NEW y \in Places', f[x] = f[y]
      PROVE  x = y
  <2>1. <<"task", 1>> \notin Places'
    <3>1. \A i : <<"task", 1>> # <<"request", i>> /\ <<"task", 1>> # <<"result", i>> /\ <<"task", 1>> # <<"worker", i>>
      OBVIOUS
    <3> QED  BY <1>3, <1>5, <3>1
  <2> QED  BY <1>4, <1>7, <2>1
<1>8. Moves(f, {})
  BY <1>6, <1>7 DEF Moves
<1> QED  BY <1>8

\* No file of E is looked at or waits, or will be.
Clear(d, E) ==
    /\ ToSet(d.cand) \cap E = {} /\ ToSet(d.topLeft) \cap E = {}
    /\ \A n \in Node : /\ d.wp[n] \cap E = {} /\ d.wse[n] \cap E = {}
                       /\ d.implicit[n] = NotScanned \/ d.implicit[n] \cap E = {}
NoneWaits == Waits /\ Policy = "keep_going" /\ ~Halted => Clear(dag, AllEffects)

LEMMA AllEffectsPlain ==
  ASSUME Types
  PROVE  /\ AllEffects \subseteq Node \ project.builder
         /\ \A T \in SUBSET Node : Effects(project, T) \subseteq AllEffects
BY ProjectSane, EffectsPlain DEF AllEffects, Effects

\* The end of a task touches no file that another one claims.
LEMMA EndsClaims ==
  ASSUME Types, dag.currentTop \in Node, NoneWaits, Waits, NEW n \in Node, Complete(n) \/ Fail(n), ~dag'.stopped,
         NEW s \in AllEffects \ Claims(n)
  PROVE  dag'.state[s] = dag.state[s]
<1> DEFINE T == Targets(project, n)
           m == GivenUp(dag, T)
<1>1. PICK after, over : Ends(n, after, over) /\ dag' \in Postprocessed(project, after, over)
  BY TaskEnds
<1>2. Sane(project) /\ IsWalk(dag) /\ T \in SUBSET Node /\ s \in Node /\ s \notin T
  BY ProjectSane, TargetsAreNodes, AllEffectsPlain DEF Types, Claims
<1>3. IsWalk(after) /\ over \in SUBSET Node
  BY <1>1, EndsWalk
<1>4. s \notin Effects(project, T)
  BY DEF Claims
<1>5. IsFreed(project, after, over, dag')
  BY <1>1, <1>3, PostprocessedFields
<1>6. over = T => dag'.state[s] = after.state[s]
  BY <1>2, <1>4, <1>5 DEF IsFreed, Working
<1>7. dag'.stopped = after.stopped
  BY <1>5 DEF IsFreed
<1>8. Released(project, dag, T).state[s] = dag.state[s] /\ Executed(project, dag, T).state[s] = dag.state[s]
  <2> DEFINE r    == Released(project, dag, T)
             done == Working(dag, T)
  <2>1. r.state[s] = CASE s \in done -> "executed"
                       [] s \in Effects(project, done) \ done -> "no_state"
                       [] OTHER -> dag.state[s]
    BY <1>2, ReleasedFields
  <2>2. Executed(project, dag, T).state = r.state
    BY <1>2, ExecutedFields
  <2>3. s \notin done /\ s \notin Effects(project, done)
    BY <1>2, <1>4 DEF Working, Effects
  <2> HIDE DEF r, done
  <2>4. r.state[s] = dag.state[s]
    BY <2>1, <2>3
  <2> QED  BY <2>2, <2>4 DEF r
<1>9. IsWalk(m) /\ Stopped(m).stopped
  <2>1. IsWalk(m)
    BY <1>2, WillNotBuildWalk DEF Later, GivenUp
  <2> HIDE DEF m
  <2> QED  BY <2>1, StoppedFields
<1>10. Policy = "keep_going" /\ ~dag.stopped => m.state[s] = dag.state[s]
  <2> SUFFICES ASSUME Policy = "keep_going", ~dag.stopped PROVE m.state[s] = dag.state[s]
    OBVIOUS
  <2>1. \A c \in Node : dag.wp[c] \subseteq Node /\ dag.wp[c] \cap AllEffects = {}
    BY <1>2 DEF NoneWaits, Halted, Clear, IsWalk
  <2>2. T \cup (Node \ AllEffects) \subseteq Node
    BY <1>2
  <2>3. Closure(dag.wp, T) \subseteq T \cup (Node \ AllEffects)
    <3> DEFINE X == T \cup (Node \ AllEffects)
               w == dag.wp
    <3>1. T \subseteq X /\ \A c \in X : w[c] \subseteq X
      BY <2>1, <2>2
    <3> HIDE DEF X, w, T
    <3>2. Closure(w, T) \subseteq X
      BY <3>1, ClosureLeast
    <3> QED  BY <3>2 DEF X, w
  <2>4. s \notin Closure(dag.wp, T)
    BY <1>2, <2>3
  <2> QED  BY <1>2, <2>4, GivenUpFields
<1>11. dag.stopped => dag'.stopped
  BY FailWalk, CompleteWalk DEF Later
<1> HIDE DEF T, m
<1> QED  BY <1>1, <1>6, <1>7, <1>8, <1>9, <1>10, <1>11 DEF Ends, T, m, GivenUp

\* A task that ends takes its claims with it, and nothing of the others.
LEMMA EndsEffects ==
  ASSUME Types, Entered, NoneWaits, Apart, Claimed, UNCHANGED <<project, options>>, NEW x \in Places,
         Complete(NodeAt(x)) \/ Fail(NodeAt(x)), NodeAt(x) \in Node, dag.currentTop \in Node,
         pc' # "look", Halted => Halted', NEW f, Moves(f, {x})
  PROVE  Apart' /\ Claimed'
<1>1. Apart'
  BY ApartKept DEF Moves
<1>2. ~Halted' => ~dag'.stopped
  BY DEF Halted
<1>3. ASSUME Waits, ~Halted', NEW y \in Places', Under(y)'
      PROVE  /\ Under(f[y])
             /\ \A s \in Claims(NodeAt(f[y])) : dag.state[s] = "executing" => dag'.state[s] = "executing"
  <2>1. f[y] \in Places /\ f[y] # x /\ Under(f[y])
    BY <1>3 DEF Moves
  <2>2. Claims(NodeAt(f[y])) \cap Claims(NodeAt(x)) = {}
    BY <1>3, <2>1 DEF Apart
  <2>3. \A s \in Claims(NodeAt(f[y])) : s \in AllEffects \ Claims(NodeAt(x))
    BY <2>2 DEF Claims
  <2>4. \A s \in Claims(NodeAt(f[y])) : dag'.state[s] = dag.state[s]
    BY <1>2, <1>3, <2>3, EndsClaims
  <2> QED  BY <2>1, <2>4
<1>4. \A y \in Places' : f[y] \in Places /\ NodeAt(y)' = NodeAt(f[y])
  BY DEF Moves
<1>5. Claimed'
  BY <1>3, <1>4, ClaimedKept
<1> QED  BY <1>1, <1>5

\* A step that moves the tasks and begins nothing.
LEMMA MovedEffects ==
  ASSUME Apart, Claimed, UNCHANGED <<project, options>>, dag'.state = dag.state, Halted => Halted',
         NEW f, Moves(f, {})
  PROVE  Apart' /\ Claimed'
<1>1. Apart'
  BY ApartKept DEF Moves
<1>2. Claimed'
  BY ClaimedKept DEF Moves
<1> QED  BY <1>1, <1>2

\* What a look at a candidate leaves to those who write: while n is looked at
\* nobody claims it, and it is handed out only if nobody claims its side
\* effects.
LEMMA LooksClaims ==
  ASSUME Types, UNCHANGED <<project, options>>, PlainFiles(project), Waits, NEW d, IsWalk(d), NEW n \in Node,
         NEW kids \in SUBSET Node, NEW order \in PushOrders(d, kids), Looks(n, d, kids, order)
  PROVE  /\ \A s \in AllEffects \ {n} : d.state[s] = "executing" => dag'.state[s] = "executing"
         /\ \/ pc' = "next" /\ UNCHANGED <<task, raised>>
            \/ /\ pc' = "prepare" /\ task' = n
               /\ \A s \in Claims(n) \ {n} : d.state[s] # "executing"
               /\ (options.class = "build" => ~raised') /\ NeedsExecute' =>
                    \A s \in Claims(n) : dag'.state[s] = "executing"
<1> DEFINE T == Targets(project, n)
           E == AllEffects
<1>0. Sane(project) /\ options.class \in {"build", "clean"}
  BY ProjectSane, PolicyRange DEF Waits
<1>1. T \in SUBSET Node /\ n \in T /\ E \subseteq Node \ project.builder
  BY <1>0, TargetsAreNodes, EffectsPlain DEF AllEffects
<1>2. IF n \in project.builder THEN T \subseteq project.builder ELSE T = {n} /\ Effects(project, T) = {}
  BY <1>0 DEF PlainFiles, Effects, Sane
<1>3. \A s \in E : s \in T => s = n
  BY <1>1, <1>2
<1>4. ActionTargets(project, n) \subseteq T \cap project.builder
  BY <1>2 DEF ActionTargets
<1>5. Claims(n) \subseteq Effects(project, T) \cup T /\ Claims(n) \subseteq E
  BY DEF Claims
<1>6. BusyEffects(project, d, n) = {} => \A s \in Claims(n) \ {n} : d.state[s] # "executing"
  BY <1>2, <1>3, <1>5 DEF BusyEffects, ActionTargets
<1>7. CASE ChildFailed(d, kids)
  <2> DEFINE q == Push(d, order)
  <2>1. IsWalk(q) /\ q.state = d.state
    BY <1>0, PushWalk DEF Later
  <2>2. dag' = GiveUp(project, q, n) /\ pc' = "next" /\ UNCHANGED <<task, raised>>
    BY <1>7 DEF Looks
  <2> HIDE DEF q
  <2>3. \A t \in Node : dag'.state[t] = IF t \in ActionTargets(project, n) THEN "failed" ELSE d.state[t]
    BY <2>1, <2>2, GiveUpFields
  <2> QED  BY <1>1, <1>4, <2>2, <2>3
<1>8. CASE ~ChildFailed(d, kids) /\ NotReady(d, kids) # {}
  <2> DEFINE c == Push(d, order).cand
  <2>1. dag' = Waiting(d, n, kids, c) /\ pc' = "next" /\ UNCHANGED <<task, raised>>
    BY <1>8 DEF Looks
  <2> HIDE DEF c
  <2>2. dag'.state = d.state
    BY <2>1, WaitForFields
  <2> QED  BY <2>1, <2>2
<1>9. CASE ~ChildFailed(d, kids) /\ NotReady(d, kids) = {} /\ BusyEffects(project, d, n) # {}
  <2>1. dag' = WaitForEffects(project, d, n) /\ pc' = "next" /\ UNCHANGED <<task, raised>>
    BY <1>9 DEF Looks
  <2>2. dag'.state = d.state
    BY <2>1, WaitForEffectsFields
  <2> QED  BY <2>1, <2>2
<1>10. CASE /\ ~ChildFailed(d, kids) /\ NotReady(d, kids) = {} /\ BusyEffects(project, d, n) = {}
            /\ dag' \in Ready(project, d, n) /\ pc' = "prepare" /\ task' = n /\ raised' = FALSE
  <2>1. CASE dag' = UpToDate(d, T) /\ options.class # "clean"
    <3>1. \A s \in Node : dag'.state[s] = IF s \in T THEN "up_to_date" ELSE d.state[s]
      BY <2>1, UpToDateFields
    <3>2. Head(project.targets[n]) \in T
      <4>1. project.targets[n] \in Seq(Node) /\ project.targets[n] # <<>>
        BY <1>0, <1>1 DEF Targets, ToSet, Sane
      <4>2. 1 \in DOMAIN project.targets[n] /\ Head(project.targets[n]) = project.targets[n][1]
        BY <4>1
      <4> QED  BY <4>2 DEF Targets, ToSet
    <3>3. dag'.state[Head(project.targets[n])] = "up_to_date"
      BY <1>1, <3>1, <3>2
    <3>4. ~NeedsExecute'
      BY <1>0, <1>10, <2>1, <3>3 DEF NeedsExecute
    <3> QED  BY <1>1, <1>3, <1>6, <1>10, <3>1, <3>4
  <2>2. CASE dag' = Marked(project, d, T)
    <3>1. \A s \in Node : dag'.state[s] = IF s \in T \cup Effects(project, T) THEN "executing" ELSE d.state[s]
      BY <2>2, MarkedFields
    <3> QED  BY <1>1, <1>5, <1>6, <1>10, <3>1
  <2> QED  BY <1>10, <2>1, <2>2 DEF Ready
<1>11. CASE /\ ~ChildFailed(d, kids) /\ NotReady(d, kids) = {} /\ BusyEffects(project, d, n) = {}
            /\ CannotTell /\ dag' = d /\ pc' = "prepare" /\ task' = n /\ raised' = TRUE
  BY <1>0, <1>6, <1>11 DEF CannotTell
<1> QED  BY <1>7, <1>8, <1>9, <1>10, <1>11 DEF Looks

\* A look at a candidate: what is handed out has nothing in common with what
\* is under way.
LEMMA ExamineEffects ==
  ASSUME Types, Entered, Examine, PlainFiles(project), Apart, Claimed
  PROVE  Apart' /\ Claimed'
<1> SUFFICES ASSUME Waits PROVE Apart' /\ Claimed'
  <2>1. UNCHANGED <<project, options>>
    BY ExamineLooks
  <2> QED  BY <2>1 DEF Apart, Claimed, Waits
<1>1. PICK n \in Node : n = Candidate(dag) /\ dag.state[n] \notin Handled
  BY ExamineLooks
<1>2. /\ ~Halted /\ pc = "look" /\ Candidates
      /\ UNCHANGED <<project, options, requestQ, resultsQ, worker>>
  BY ExamineLooks DEF Examine, Candidates, Halted, pool
<1>3. PICK fresh : \E order \in PushOrders(Seen(n, fresh), Children(project, Seen(n, fresh), n)) :
                       Looks(n, Seen(n, fresh), Children(project, Seen(n, fresh), n), order)
  BY <1>1, ExamineLooks
<1> DEFINE d == Seen(n, fresh)
<1>4. IsWalk(d) /\ Children(project, d, n) \in SUBSET Node
      /\ \A s \in Node : s # n => d.state[s] = dag.state[s]
  BY <1>1, <1>2, SeenFields DEF Children, IsWalk
<1>5. PICK order \in PushOrders(d, Children(project, d, n)) : Looks(n, d, Children(project, d, n), order)
  BY <1>3
<1> HIDE DEF d
<1>6. /\ \A s \in AllEffects \ {n} : d.state[s] = "executing" => dag'.state[s] = "executing"
      /\ \/ pc' = "next" /\ UNCHANGED <<task, raised>>
         \/ /\ pc' = "prepare" /\ task' = n
            /\ \A s \in Claims(n) \ {n} : d.state[s] # "executing"
            /\ (options.class = "build" => ~raised') /\ NeedsExecute' =>
                 \A s \in Claims(n) : dag'.state[s] = "executing"
  BY <1>2, <1>4, <1>5, LooksClaims
<1>7. AllEffects \subseteq Node /\ n \notin {s \in Node : dag.state[s] = "executing"}
  BY <1>1, AllEffectsPlain DEF Handled, NodeState
<1>8. ASSUME NEW x \in Places
      PROVE  /\ x[1] # "task" /\ Under(x) /\ NodeAt(x)' = NodeAt(x)
             /\ \A s \in Claims(NodeAt(x)) : s # n /\ d.state[s] = "executing" /\ dag'.state[s] = "executing"
  <2>1. x[1] \in {"request", "result", "worker"} /\ x[1] # "task"
    BY <1>2 DEF Places
  <2>2. Under(x) /\ NodeAt(x)' = NodeAt(x)
    BY <1>2, <2>1 DEF Under, NodeAt
  <2>3. \A s \in Claims(NodeAt(x)) : s \in AllEffects /\ dag.state[s] = "executing"
    BY <1>2, <2>2 DEF Claimed, Claims
  <2> QED  BY <1>4, <1>6, <1>7, <2>1, <2>2, <2>3
<1>9. \A m : Claims(m)' = Claims(m)
  BY <1>2 DEF Claims, AllEffects, Effects, Targets
<1>10. ASSUME NEW x \in Places' PROVE x \in Places \/ (x = <<"task", 1>> /\ pc' = "prepare" /\ task' = n)
  <2>1. Places' = Places \cup {<<"task", i>> : i \in IF pc' \in {"prepare", "executed", "failed"} THEN {1} ELSE {}}
    BY <1>2 DEF Places, RunningWorkers
  <2> QED  BY <1>2, <1>6, <2>1
<1>11. NodeAt(<<"task", 1>>)' = task'
  BY NodesAt
<1>12. ASSUME NEW x \in Places', x \in Places
       PROVE  Claims(NodeAt(x))' = Claims(NodeAt(x))
  <2>1. NodeAt(x)' = NodeAt(x)
    BY <1>8, <1>12
  <2> QED  BY <1>2, <2>1 DEF Claims, AllEffects, Effects, Targets
<1>13. ASSUME NEW x \in Places', x = <<"task", 1>>, pc' = "prepare", task' = n
       PROVE  Claims(NodeAt(x))' = Claims(n)
  <2>1. NodeAt(x)' = n
    BY <1>11, <1>13
  <2> QED  BY <1>2, <2>1 DEF Claims, AllEffects, Effects, Targets
<1>14. pc' = "prepare" => \A s \in Claims(n) : s = n \/ d.state[s] # "executing"
  BY <1>2, <1>6
<1>15. Apart'
  <2> SUFFICES ASSUME NEW x \in Places', NEW y \in Places', x # y
               PROVE  Claims(NodeAt(x))' \cap Claims(NodeAt(y))' = {}
    BY DEF Apart
  <2>1. CASE x \in Places /\ y \in Places
    BY <1>12, <2>1 DEF Apart
  <2>2. CASE x \in Places /\ y \notin Places
    BY <1>8, <1>10, <1>12, <1>13, <1>14, <2>2
  <2>3. CASE x \notin Places /\ y \in Places
    BY <1>8, <1>10, <1>12, <1>13, <1>14, <2>3
  <2>4. CASE x \notin Places /\ y \notin Places
    BY <1>10, <2>4
  <2> QED  BY <2>1, <2>2, <2>3, <2>4
<1>16. Claimed'
  <2> SUFFICES ASSUME NEW x \in Places', Under(x)'
               PROVE  \A s \in Claims(NodeAt(x))' : dag'.state[s] = "executing"
    BY DEF Claimed
  <2>1. CASE x \in Places
    BY <1>8, <1>12, <2>1
  <2>2. CASE x \notin Places
    <3>1. x = <<"task", 1>> /\ pc' = "prepare" /\ task' = n
      BY <1>10, <2>2
    <3>2. x[1] = "task"
      BY ONLY <3>1
    <3>3. (options.class = "build" => ~raised') /\ NeedsExecute'
      BY <1>2, <3>1, <3>2 DEF Under
    <3> QED  BY <1>2, <1>6, <1>13, <3>1, <3>3
  <2> QED  BY <2>1, <2>2
<1> QED  BY <1>15, <1>16

----------------------------------------------------------------------------
(* With -k, what is written on the side never waits.                       *)

LEMMA ConcatSet ==
  ASSUME NEW S, NEW s \in Seq(S), NEW t \in Seq(S)
  PROVE  ToSet(s \o t) = ToSet(s) \cup ToSet(t)
<1>1. ToSet(s \o t) \subseteq ToSet(s) \cup ToSet(t)
  BY DEF ToSet
<1>2. ASSUME NEW i \in DOMAIN s PROVE s[i] \in ToSet(s \o t)
  <2>1. i \in DOMAIN (s \o t) /\ (s \o t)[i] = s[i]
    OBVIOUS
  <2> QED  BY <2>1 DEF ToSet
<1>3. ASSUME NEW i \in DOMAIN t PROVE t[i] \in ToSet(s \o t)
  <2>1. Len(s) + i \in DOMAIN (s \o t) /\ (s \o t)[Len(s) + i] = t[i]
    OBVIOUS
  <2> QED  BY <2>1 DEF ToSet
<1> QED  BY <1>1, <1>2, <1>3 DEF ToSet

\* All orders of a set of nodes are sequences of its members.
LEMMA SeqsOfMembers ==
  ASSUME NEW S \in SUBSET Node, NEW s \in SetToSeqs(S)
  PROVE  s \in Seq(Node) /\ ToSet(s) \subseteq S
<1>1. s \in Seq(Node)
  BY SeqsOfNodes
<1>2. Cardinality(S) \in Nat
  BY NodesFinite, FS_Subset, FS_CardinalityType
<1>3. s \in [1..Cardinality(S) -> S]
  BY DEF SetToSeqs
<1>4. \A i \in DOMAIN s : s[i] \in S
  BY <1>2, <1>3
<1> QED  BY <1>1, <1>4 DEF ToSet

LEMMA WithoutCandidateClear ==
  ASSUME NEW d, IsWalk(d), NEW E, Clear(d, E), HasCandidate(d)
  PROVE  Clear(WithoutCandidate(d), E) /\ Candidate(d) \notin E
<1> DEFINE e == WithoutCandidate(d)
<1>1. ASSUME NEW s \in Seq(Node), s # <<>>
      PROVE  Last(s) \in ToSet(s) /\ ToSet(Front(s)) \subseteq ToSet(s)
  <2>1. Len(s) \in DOMAIN s /\ Last(s) = s[Len(s)]
    BY <1>1 DEF Last
  <2>2. DOMAIN Front(s) \subseteq DOMAIN s /\ \A i \in DOMAIN Front(s) : Front(s)[i] = s[i]
    BY <1>1 DEF Front
  <2> QED  BY <2>1, <2>2 DEF ToSet
<1>2. /\ e.cand = IF d.cand # <<>> THEN Front(d.cand) ELSE d.cand
      /\ e.topLeft = IF d.cand # <<>> THEN d.topLeft ELSE Front(d.topLeft)
  BY DEF WithoutCandidate, IsWalk
<1>3. e.wp = d.wp /\ e.wse = d.wse /\ e.implicit = d.implicit
  BY WithoutCandidateFields
<1> HIDE DEF e
<1>4. ToSet(e.cand) \subseteq ToSet(d.cand) /\ ToSet(e.topLeft) \subseteq ToSet(d.topLeft)
  BY <1>1, <1>2 DEF IsWalk, HasCandidate
<1>5. Candidate(d) \in ToSet(d.cand) \cup ToSet(d.topLeft)
  BY <1>1 DEF Candidate, IsWalk, HasCandidate
<1>6. Clear(e, E)
  BY <1>3, <1>4 DEF Clear
<1> QED  BY <1>5, <1>6 DEF Clear, e

LEMMA VisitedClear ==
  ASSUME NEW d, IsWalk(d), NEW E, Clear(d, E), NEW n \in Node
  PROVE  Clear(Visited(d, n), E)
<1> DEFINE e == Visited(d, n)
<1>1. e.topLeft = d.topLeft
  BY DEF Visited, IsWalk
<1> HIDE DEF e
<1>2. e.wp = d.wp /\ e.wse = d.wse /\ e.cand = d.cand /\ e.implicit = d.implicit
  BY VisitedFields DEF e
<1>3. Clear(e, E)
  BY <1>1, <1>2 DEF Clear
<1> QED  BY <1>3 DEF e

LEMMA FoundClear ==
  ASSUME NEW p, Sane(p), NEW d, NEW fresh, NEW n \in Node, NEW E, NotUsed(p, E)
  PROVE  Found(p, d, fresh, n) \cap E = {}
<1> DEFINE shown == [f \in Node |-> Shows(p, d, fresh, f)]
           S == UNION {shown[s] : s \in Sources(p, n)}
           X == Node \ E
<1>1. Found(p, d, fresh, n) = Closure(shown, S)
  BY DEF Found
<1>2. \A f \in Node : shown[f] \subseteq X
  BY DEF Shows, NotUsed, Sane
<1>3. S \subseteq X /\ \A f \in X : shown[f] \subseteq X
  BY <1>2, SourcesAreNodes
<1> HIDE DEF shown, S, X
<1>4. Closure(shown, S) \subseteq X
  BY <1>3, ClosureLeast
<1> QED  BY <1>1, <1>4 DEF X

\* ... so it is no child of anybody.
LEMMA ScannedClear ==
  ASSUME NEW p, Sane(p), NEW d, IsWalk(d), NEW fresh, NEW n \in Node, NEW E, NotUsed(p, E), Clear(d, E),
         n \notin p.builder => Targets(p, n) = {n}
  PROVE  Clear(Scanned(p, d, fresh, n), E) /\ Children(p, Scanned(p, d, fresh, n), n) \cap E = {}
<1> DEFINE e     == Scanned(p, d, fresh, n)
           T     == Targets(p, n) \cap p.builder
           found == IF n \in p.builder THEN Found(p, d, fresh, n) ELSE {}
           again == \E t \in T : d.implicit[t] = NotScanned
<1>1. e.topLeft = d.topLeft
  BY DEF Scanned, IsWalk
<1>2. /\ e.implicit = [t \in Node |->
            CASE t \in T /\ again -> IF d.implicit[t] = NotScanned THEN found ELSE d.implicit[t] \cup found
              [] t = n /\ T = {} -> {}
              [] OTHER -> d.implicit[t]]
      /\ e.wp = d.wp /\ e.wse = d.wse /\ e.cand = d.cand
  BY ScannedFields
<1>3. found \cap E = {}
  BY FoundClear
<1>4. Targets(p, n) \subseteq Node /\ n \in Targets(p, n) /\ (n \in p.builder => Targets(p, n) \subseteq p.builder)
  BY TargetsAreNodes DEF Sane
<1>5. \A t \in Node : d.implicit[t] = NotScanned \/ d.implicit[t] \cap E = {}
  BY DEF Clear
<1> HIDE DEF e, found
<1>6. ASSUME NEW t \in Node
      PROVE  e.implicit[t] = NotScanned \/ e.implicit[t] \cap E = {}
  <2>1. CASE t \in T /\ again
    <3>1. e.implicit[t] = IF d.implicit[t] = NotScanned THEN found ELSE d.implicit[t] \cup found
      BY <1>2, <2>1
    <3> QED  BY <1>3, <1>5, <3>1
  <2>2. CASE ~(t \in T /\ again) /\ t = n /\ T = {}
    BY <1>2, <2>2
  <2>3. CASE ~(t \in T /\ again) /\ ~(t = n /\ T = {})
    BY <1>2, <1>5, <2>3
  <2> QED  BY <2>1, <2>2, <2>3
<1>7. ASSUME NEW t \in Targets(p, n)
      PROVE  e.implicit[t] \cap E = {}
  <2>1. CASE n \in p.builder /\ again
    <3>1. e.implicit[t] = IF d.implicit[t] = NotScanned THEN found ELSE d.implicit[t] \cup found
      BY <1>2, <1>4, <2>1
    <3> QED  BY <1>3, <1>4, <1>5, <3>1
  <2>2. CASE n \in p.builder /\ ~again
    <3>1. e.implicit[t] = d.implicit[t]
      BY <1>2, <1>4, <2>2
    <3>2. d.implicit[t] # NotScanned
      BY <1>4, <2>2
    <3> QED  BY <1>4, <1>5, <3>1, <3>2
  <2>3. CASE n \notin p.builder
    <3>1. t = n /\ T = {}
      BY <2>3
    <3> QED  BY <1>2, <3>1
  <2> QED  BY <2>1, <2>2, <2>3
<1>8. Sources(p, n) \cap E = {}
  BY <1>4 DEF Sources, NotUsed
<1>9. (UNION {ToSet(p.prereqs[t]) : t \in ActionTargets(p, n)}) \cap E = {}
  BY <1>4 DEF ActionTargets, NotUsed
<1>10. (UNION {e.implicit[t] : t \in Targets(p, n)}) \cap E = {}
  BY <1>7
<1>11. Clear(e, E)
  BY <1>1, <1>2, <1>6 DEF Clear
<1>12. Children(p, e, n) \cap E = {}
  BY <1>8, <1>9, <1>10 DEF Children
<1> QED  BY <1>11, <1>12 DEF e

LEMMA PushClear ==
  ASSUME NEW d, IsWalk(d), NEW E, Clear(d, E), NEW kids \in SUBSET Node, kids \cap E = {},
         NEW order \in PushOrders(d, kids)
  PROVE  Clear(Push(d, order), E)
<1> DEFINE e == Push(d, order)
<1>1. e.topLeft = d.topLeft
  BY DEF Push, IsWalk
<1>2. e.cand = d.cand \o order /\ e.wp = d.wp /\ e.wse = d.wse /\ e.implicit = d.implicit
  BY PushFields
<1>3. order \in Seq(Node) /\ ToSet(order) \subseteq kids
  BY SeqsOfMembers DEF PushOrders
<1>4. ToSet(d.cand \o order) = ToSet(d.cand) \cup ToSet(order)
  BY <1>3, ConcatSet DEF IsWalk
<1> HIDE DEF e
<1>5. Clear(e, E)
  BY <1>1, <1>2, <1>3, <1>4 DEF Clear
<1> QED  BY <1>5 DEF e

\* What a walk has waiting stays clear if nothing joins it.
LEMMA SameClear ==
  ASSUME NEW d, NEW e, NEW E, Clear(d, E), e.cand = d.cand, e.topLeft = d.topLeft, e.wp = d.wp,
         e.wse = d.wse, e.implicit = d.implicit
  PROVE  Clear(e, E)
BY DEF Clear

LEMMA ReadyClear ==
  ASSUME NEW d, IsWalk(d), NEW E, Clear(d, E), NEW n \in Node, NEW e \in Ready(project, d, n)
  PROVE  Clear(e, E)
<1> DEFINE T == Targets(project, n)
           m == Marked(project, d, T)
           u == UpToDate(d, T)
<1>1. e \in {m, u}
  BY DEF Ready
<1>2. m.topLeft = d.topLeft /\ u.topLeft = d.topLeft
  BY DEF Marked, UpToDate, IsWalk
<1>3. m.wp = d.wp /\ m.wse = d.wse /\ m.cand = d.cand /\ m.implicit = d.implicit
  BY MarkedFields
<1>4. u.wp = d.wp /\ u.wse = d.wse /\ u.cand = d.cand /\ u.implicit = d.implicit
  BY UpToDateFields
<1> HIDE DEF m, u
<1> QED  BY <1>1, <1>2, <1>3, <1>4 DEF Clear

LEMMA LooksClear ==
  ASSUME Sane(project), NEW d, IsWalk(d), NEW E, Clear(d, E), NEW n \in Node, n \notin E,
         NEW kids \in SUBSET Node, kids \cap E = {}, NEW order \in PushOrders(d, kids),
         Looks(n, d, kids, order)
  PROVE  Clear(dag', E)
<1> DEFINE q == Push(d, order)
<1>1. IsWalk(q) /\ Clear(q, E) /\ q.cand = d.cand \o order
  BY PushWalk, PushClear, PushFields DEF Later
<1> HIDE DEF q
<1>2. CASE dag' = GiveUp(project, q, n)
  <2>1. GiveUp(project, q, n).topLeft = q.topLeft
    BY <1>1 DEF GiveUp, IsWalk
  <2> QED  BY <1>1, <1>2, <2>1, GiveUpFields, SameClear
<1>3. CASE dag' = Waiting(d, n, kids, q.cand)
  <2> DEFINE c == q.cand
             e == Waiting(d, n, kids, c)
  <2>1. e.topLeft = d.topLeft
    BY DEF Waiting, WaitFor, IsWalk
  <2> HIDE DEF c
  <2> DEFINE slow == NotReady(d, kids)
  <2>4. /\ \A k \in Node : e.wp[k] = IF k \in slow THEN d.wp[k] \cup {n} ELSE d.wp[k]
        /\ e.wse = d.wse /\ e.cand = c /\ e.implicit = d.implicit
    BY WaitForFields
  <2> HIDE DEF e, slow
  <2>2. /\ \A k \in Node : e.wp[k] = d.wp[k] \/ e.wp[k] = d.wp[k] \cup {n}
        /\ e.wse = d.wse /\ e.cand = c /\ e.implicit = d.implicit
    BY <2>4
  <2>3. Clear(e, E)
    BY <1>1, <2>1, <2>2 DEF Clear, c
  <2> QED  BY <1>3, <2>3 DEF c, e
<1>4. CASE dag' = WaitForEffects(project, d, n)
  <2> DEFINE e == WaitForEffects(project, d, n)
  <2>1. e.topLeft = d.topLeft /\ \A s \in Node : e.wse[s] = d.wse[s] \/ e.wse[s] = d.wse[s] \cup {n}
    BY DEF WaitForEffects, IsWalk
  <2>2. e.wp = d.wp /\ e.cand = d.cand /\ e.implicit = d.implicit
    BY WaitForEffectsFields
  <2> HIDE DEF e
  <2>3. Clear(e, E)
    BY <2>1, <2>2 DEF Clear
  <2> QED  BY <1>4, <2>3 DEF e
<1>5. CASE dag' \in Ready(project, d, n)
  BY <1>5, ReadyClear
<1> QED  BY <1>2, <1>3, <1>4, <1>5 DEF Looks, q

LEMMA ExamineClear ==
  ASSUME Types, Entered, Examine, PlainFiles(project), NEW E, Clear(dag, E), NotUsed(project, E),
         options.class # "clean"
  PROVE  Clear(dag', E)
<1>0. Sane(project) /\ IsWalk(dag) /\ HasCandidate(dag) /\ Candidates /\ OnDisk = project
  BY ProjectSane, OnDiskSane DEF Types, Examine, Candidates
<1>1. PICK n \in Node : n = Candidate(dag)
  BY ExamineLooks
<1>2. PICK fresh : \E order \in PushOrders(Seen(n, fresh), Children(project, Seen(n, fresh), n)) :
                       Looks(n, Seen(n, fresh), Children(project, Seen(n, fresh), n), order)
  BY <1>1, ExamineLooks
<1> DEFINE w == WithoutCandidate(dag)
           b == Visited(w, n)
           d == Scanned(project, b, fresh, n)
<1>3. d = Seen(n, fresh)
  BY <1>0 DEF Seen, Begin
<1>4. PICK order \in PushOrders(d, Children(project, d, n)) : Looks(n, d, Children(project, d, n), order)
  BY <1>2, <1>3
<1>5. IsWalk(w) /\ Clear(w, E) /\ n \notin E
  BY <1>0, <1>1, WithoutCandidateWalk, WithoutCandidateClear DEF Later
<1> HIDE DEF w
<1>6. IsWalk(b) /\ Clear(b, E)
  BY <1>0, <1>5, VisitedWalk, VisitedClear DEF Later
<1> HIDE DEF b
<1>7. n \notin project.builder => Targets(project, n) = {n}
  BY DEF PlainFiles
<1>8. IsWalk(d) /\ Clear(d, E) /\ Children(project, d, n) \cap E = {}
  BY <1>0, <1>6, <1>7, ScannedWalk, ScannedClear DEF Later
<1> HIDE DEF d
<1>9. Children(project, d, n) \in SUBSET Node
  BY DEF Children
<1> QED  BY <1>0, <1>4, <1>5, <1>8, <1>9, LooksClear

LEMMA PostprocessedClear ==
  ASSUME NEW p, Sane(p), NEW d, IsWalk(d), NEW T \in SUBSET Node, NEW e \in Postprocessed(p, d, T),
         NEW E, Clear(d, E)
  PROVE  Clear(e, E)
<1> DEFINE held    == {s \in Effects(p, T) : d.state[s] = "executing"}
           counted == T \cup held
           ref     == [n \in Node |-> d.ref[n] - Cardinality({c \in counted : n \in d.wp[c]})]
           queued  == {n \in UNION {d.wse[s] : s \in Effects(p, T)} : d.ref[n] = 0}
           freed   == {n \in UNION {d.wp[c] : c \in counted} : ref[n] = 0}
           orders  == {both[1] \o both[2] : both \in SetToSeqs(queued) \X SetToSeqs(freed)}
<1>1. PICK order \in orders :
        e = [d EXCEPT
               !.state   = [n \in Node |-> IF n \in held THEN "no_state" ELSE @[n]],
               !.ref     = ref,
               !.wp      = [n \in Node |-> IF n \in T THEN {} ELSE @[n]],
               !.pending = @ \ {t \in T : d.wp[t] # {}},
               !.cand    = @ \o order]
  BY Zenon DEF Postprocessed
<1>2. Effects(p, T) \subseteq Node
  BY EffectsPlain
<1>3. queued \subseteq Node \ E /\ freed \subseteq Node \ E
  BY <1>2 DEF IsWalk, Clear
<1>4. order \in Seq(Node) /\ ToSet(order) \cap E = {}
  <2> HIDE DEF queued, freed
  <2>1. PICK a \in SetToSeqs(queued), b \in SetToSeqs(freed) : order = a \o b
    BY <1>1
  <2>2. queued \in SUBSET Node /\ freed \in SUBSET Node
    BY <1>3
  <2>3. a \in Seq(Node) /\ b \in Seq(Node) /\ ToSet(a) \subseteq queued /\ ToSet(b) \subseteq freed
    BY <2>2, SeqsOfMembers
  <2>4. ToSet(a \o b) = ToSet(a) \cup ToSet(b)
    BY <2>3, ConcatSet
  <2> QED  BY <1>3, <2>1, <2>3, <2>4
<1> HIDE DEF held, counted, ref, queued, freed, orders
<1>5. /\ e.wp = [n \in Node |-> IF n \in T THEN {} ELSE d.wp[n]]
      /\ e.cand = d.cand \o order
      /\ e.wse = d.wse /\ e.topLeft = d.topLeft /\ e.implicit = d.implicit
  BY <1>1 DEF IsWalk
<1>6. ToSet(d.cand \o order) = ToSet(d.cand) \cup ToSet(order)
  BY <1>4, ConcatSet DEF IsWalk
<1> QED  BY <1>4, <1>5, <1>6 DEF Clear

\* With -k: a task is executed or given up.
LEMMA EndsClear ==
  ASSUME Types, dag.currentTop \in Node, NEW n \in Node, Complete(n) \/ Fail(n), Policy = "keep_going",
         NEW E, Clear(dag, E)
  PROVE  Clear(dag', E)
<1> DEFINE T == Targets(project, n)
           x == Executed(project, dag, T)
           g == GivenUp(dag, T)
<1>0. Sane(project) /\ IsWalk(dag) /\ T \in SUBSET Node
  BY ProjectSane, TargetsAreNodes DEF Types
<1>1. dag' \in Postprocessed(project, x, T) \/ dag' \in Postprocessed(project, g, T)
  <2>1. options.class = "build"
    BY DEF Policy
  <2> QED  BY <2>1 DEF Complete, Fail, GivenUp
<1>2. IsWalk(x) /\ IsWalk(g)
  BY <1>0, ExecutedWalk, WillNotBuildWalk DEF Later, GivenUp
<1>3. Clear(x, E)
  <2>1. x.topLeft = dag.topLeft
    BY <1>0 DEF Executed, Released, IsWalk
  <2> HIDE DEF T
  <2>2. x.wp = dag.wp /\ x.wse = dag.wse /\ x.cand = dag.cand /\ x.implicit = Rescans(dag, Working(dag, T))
    BY <1>0, ExecutedFields
  <2> HIDE DEF x
  <2> QED  BY <2>1, <2>2 DEF Clear, Rescans
<1>4. Clear(g, E)
  <2> DEFINE gone == Closure(dag.wp, T)
  <2>1. g.topLeft = dag.topLeft
    <3> HIDE DEF gone, T
    <3> QED  BY <1>0 DEF GivenUp, WillNotBuild, IsWalk
  <2> HIDE DEF T
  <2>2. /\ \A c \in Node : g.wp[c] = IF c \in gone THEN {} ELSE dag.wp[c]
        /\ g.wse = dag.wse /\ g.cand = dag.cand /\ g.implicit = dag.implicit
    BY <1>0, GivenUpFields
  <2> HIDE DEF g, gone
  <2> QED  BY <2>1, <2>2 DEF Clear
<1> HIDE DEF x, g
<1> QED  BY <1>0, <1>1, <1>2, <1>3, <1>4, PostprocessedClear

LEMMA SideFilesStay == [Next]_vars /\ SideFiles => SideFiles'
<1>1. [Next]_vars => UNCHANGED <<project, options>>
  BY DEF Next, MainStep, WorkerStep, Over, vars, TakeCandidate, SkipHandled, Examine, ScanRaises, Hand, NoTaskLeft, PrepareFails,
         SkipCurrent, Dispatch, ExecuteSerially, ConcludeSerially, Take, Deliver, Quit, GetResult, PostSentinels,
         Cleanup, Signal
<1> QED  BY <1>1 DEF SideFiles, Policy, AllEffects

\* What waits is clear after every step.
LEMMA ClearStep ==
  ASSUME Types, Entered, SideFiles, NoneWaits, [Next]_vars
  PROVE  NoneWaits'
<1>1. /\ UNCHANGED <<project, options>> /\ Later(project, dag, dag')
  BY StepOnward DEF Onward
<1>a. Halted => Halted'
  BY StaysHalted
<1>2. AllEffects' = AllEffects
  BY <1>1 DEF AllEffects, Effects
<1> SUFFICES ASSUME Waits, Policy = "keep_going", ~Halted'
             PROVE  Clear(dag', AllEffects)
  BY <1>1, <1>2 DEF NoneWaits, Waits, Policy
<1>3. /\ Clear(dag, AllEffects) /\ ~Halted /\ options.class = "build"
      /\ PlainFiles(project) /\ NotUsed(project, AllEffects)
  BY <1>1, <1>a DEF NoneWaits, SideFiles, Policy
<1>4. IsWalk(dag)
  BY DEF Types
<1>5. CASE SkipHandled
  BY <1>3, <1>4, <1>5, WithoutCandidateClear DEF SkipHandled, Candidates
<1>6. CASE Examine
  BY <1>3, <1>6, ExamineClear
<1>7. CASE ScanRaises
  BY <1>7 DEF ScanRaises, Waits
<1>8. ASSUME NEW n \in Node, dag.currentTop \in Node, Complete(n) \/ Fail(n)
      PROVE  Clear(dag', AllEffects)
  BY <1>3, <1>8, EndsClear
<1>9. CASE PrepareFails \/ SkipCurrent \/ ConcludeSerially
  <2>1. task \in Node /\ dag.currentTop \in Node /\ (Complete(task) \/ Fail(task))
    BY <1>9, TaskEntered DEF PrepareFails, SkipCurrent, ConcludeSerially, Prepared, Types
  <2> QED  BY <1>8, <2>1
<1>10. CASE GetResult
  <2>1. resultsQ # <<>> /\ (Complete(Head(resultsQ).node) \/ Fail(Head(resultsQ).node))
    BY <1>10 DEF GetResult
  <2>2. Head(resultsQ).node \in Node /\ dag.currentTop \in Node
    <3>1. dag.currentTop \in Node
      BY <2>1, TaskEntered
    <3>2. Head(resultsQ) \in Result
      BY <2>1 DEF Types
    <3> QED  BY <3>1, <3>2 DEF Result
  <2> QED  BY <1>8, <2>1, <2>2
<1>11. CASE dag' = dag
  BY <1>3, <1>11
<1>12. CASE dag' = Stopped(dag)
  <2> DEFINE e == Stopped(dag)
  <2>1. e.topLeft = dag.topLeft
    BY <1>4 DEF Stopped, IsWalk
  <2> HIDE DEF e
  <2>2. e.wp = dag.wp /\ e.wse = dag.wse /\ e.cand = dag.cand /\ e.implicit = dag.implicit
    BY <1>4, StoppedFields DEF e
  <2>3. Clear(e, AllEffects)
    BY <1>3, <2>1, <2>2 DEF Clear
  <2> QED  BY <1>12, <2>3 DEF e
<1>13. TakeCandidate \/ Dispatch \/ PostSentinels \/ Cleanup \/ UNCHANGED vars => dag' = dag
  BY DEF TakeCandidate, Dispatch, PostSentinels, Cleanup, vars, walk
<1>14. NoTaskLeft => dag' = dag
  BY <1>3 DEF NoTaskLeft, Halted
<1>15. ExecuteSerially \/ (\E w \in Worker : WorkerStep(w)) \/ Signal => dag' = dag \/ dag' = Stopped(dag)
  <2>1. ASSUME NEW w \in Worker, WorkerStep(w)
        PROVE  dag' = dag \/ dag' = Stopped(dag)
    BY <2>1 DEF WorkerStep, Take, Execute, Deliver, Quit, walk
  <2> QED  BY <2>1 DEF ExecuteSerially, Execute, Signal
<1> QED  BY <1>5, <1>6, <1>7, <1>9, <1>10, <1>11, <1>12, <1>13, <1>14, <1>15 DEF Next, MainStep, Over

\* The main thread's task is executed.
LEMMA SeriallyEffects ==
  ASSUME Types, Apart, Claimed, ExecuteSerially
  PROVE  Apart' /\ Claimed'
<1>1. /\ UNCHANGED <<project, options, task, requestQ, resultsQ, worker>> /\ pc = "prepare"
      /\ pc' \in {"executed", "failed"} /\ (options.class = "build" => ~raised) /\ NeedsExecute
      /\ task \in Node /\ Execute(task)
  BY DEF ExecuteSerially, Prepared, pool, Types
<1>2. dag'.state = dag.state /\ (Halted => Halted')
  BY <1>1, ExecuteWalk DEF Later, Halted
<1>3. Places' \subseteq Places \ {}
  BY <1>1 DEF Places, RunningWorkers
<1>4. \A x \in Places' : NodeAt(x)' = NodeAt(x) /\ (Under(x)' => Under(x))
  BY <1>1 DEF NodeAt, Under
<1>5. PICK f : Moves(f, {})
  BY <1>1, <1>3, <1>4, PlacesStay
<1> QED  BY <1>1, <1>2, <1>5, MovedEffects

LEMMA EffectsStep ==
  ASSUME Types, Entered, SideFiles, NoneWaits, Apart, Claimed, [Next]_vars
  PROVE  Apart' /\ Claimed'
<1>1. UNCHANGED <<project, options>> /\ (Halted => Halted') /\ IsWalk(dag) /\ Sane(project)
  BY StepOnward, StaysHalted, ProjectSane DEF Onward, Types
<1>2. ASSUME UNCHANGED <<requestQ, resultsQ, worker, pc, task, raised>>, dag'.state = dag.state
      PROVE  Apart' /\ Claimed'
  <2>1. PICK f : Moves(f, {})
    BY <1>1, <1>2, MovesNothing
  <2> QED  BY <1>1, <1>2, <2>1, MovedEffects
<1>3. ASSUME UNCHANGED <<requestQ, resultsQ, worker>>, pc' \notin {"prepare", "executed", "failed"},
             dag'.state = dag.state
      PROVE  Apart' /\ Claimed'
  <2>1. PICK f : Moves(f, {<<"task", 1>>})
    BY <1>1, <1>3, MovesTaskAway
  <2>2. Moves(f, {})
    BY <2>1 DEF Moves
  <2> QED  BY <1>1, <1>3, <2>2, MovedEffects
<1>4. CASE TakeCandidate \/ SkipHandled
  <2>1. dag'.state = dag.state
    BY <1>1, <1>4, WithoutCandidateFields DEF TakeCandidate, SkipHandled
  <2> QED  BY <1>3, <1>4, <2>1 DEF TakeCandidate, SkipHandled, pool
<1>5. CASE Examine
  BY <1>5, ExamineEffects DEF SideFiles
<1>6. CASE ScanRaises
  BY <1>1, <1>6 DEF ScanRaises, Apart, Claimed, Waits
<1>7. CASE NoTaskLeft
  <2>1. dag'.state = dag.state
    <3>1. Drained(dag).state = dag.state
      <4> DEFINE S == ToSet(dag.cand)
                 w == WillNotBuild(dag, S, FALSE)
      <4>1. \A n \in Node : w.state[n] = dag.state[n]
        <5> DEFINE gone == Closure(dag.wp, S)
        <5> HIDE DEF S
        <5>0. PICK no \in BOOLEAN : no = FALSE
          OBVIOUS
        <5>1. \A n \in Node : WillNotBuild(dag, S, no).state[n] = IF no /\ n \in gone THEN "failed" ELSE dag.state[n]
          BY <1>1, WillNotBuildFields
        <5>2. \A n \in Node : WillNotBuild(dag, S, no).state[n] = dag.state[n]
          <6> HIDE DEF gone
          <6> QED  BY <5>0, <5>1
        <5> QED  BY <5>0, <5>2
      <4>2. IsWalk(w)
        BY <1>1, WillNotBuildWalk DEF Later
      <4> HIDE DEF w
      <4>3. w.state = dag.state
        BY <1>1, <4>1, <4>2 DEF IsWalk
      <4> QED  BY <1>1, <4>3, DrainedFields DEF w
    <3> QED  BY <1>7, <3>1 DEF NoTaskLeft
  <2>2. pc' \in {"cleanup", "wait", "join"} /\ UNCHANGED <<requestQ, resultsQ, worker>>
    BY <1>7 DEF NoTaskLeft, pool
  <2> QED  BY <1>3, <2>1, <2>2
<1>8. CASE PrepareFails \/ SkipCurrent \/ ConcludeSerially
  <2>1. /\ pc' = "next" /\ UNCHANGED <<requestQ, resultsQ, worker>> /\ pc \in {"prepare", "executed", "failed"}
        /\ Complete(task) \/ Fail(task)
    BY <1>8 DEF PrepareFails, SkipCurrent, ConcludeSerially, Prepared, pool
  <2>2. task \in Node /\ dag.currentTop \in Node
    BY <2>1, TaskEntered DEF Types
  <2>3. PICK x : x = <<"task", 1>>
    OBVIOUS
  <2>4. x \in Places /\ NodeAt(x) = task
    BY <2>1, <2>3, PlaceKinds, NodesAt
  <2>5. PICK f : Moves(f, {x})
    BY <1>1, <2>1, <2>3, MovesTaskAway
  <2> QED  BY <1>1, <2>1, <2>2, <2>4, <2>5, EndsEffects
<1>9. CASE Dispatch
  <2>1. PICK f : Moves(f, {})
    BY <1>9, MovesDispatched
  <2> QED  BY <1>1, <1>9, <2>1, MovedEffects DEF Dispatch
<1>10. CASE ExecuteSerially
  BY <1>10, SeriallyEffects
<1>11. CASE GetResult
  <2>1. /\ resultsQ # <<>> /\ resultsQ' = Tail(resultsQ) /\ UNCHANGED <<requestQ, worker>>
        /\ pc' \in {"next", "wait"} /\ (Complete(resultsQ[1].node) \/ Fail(resultsQ[1].node))
    BY <1>11 DEF GetResult, Types
  <2>2. resultsQ[1].node \in Node /\ dag.currentTop \in Node /\ 1 \in DOMAIN resultsQ
    <3>1. dag.currentTop \in Node
      BY <2>1, TaskEntered
    <3>2. 1 \in DOMAIN resultsQ /\ resultsQ[1] \in Result
      BY <2>1 DEF Types
    <3> QED  BY <3>1, <3>2 DEF Result
  <2>3. PICK x : x = <<"result", 1>>
    OBVIOUS
  <2>4. x \in Places /\ NodeAt(x) = resultsQ[1].node
    BY <2>2, <2>3, PlaceKinds, NodesAt
  <2>5. PICK f : Moves(f, {x})
    BY <1>1, <2>1, <2>3, MovesResultAway
  <2> QED  BY <1>1, <2>1, <2>2, <2>4, <2>5, EndsEffects
<1>12. CASE PostSentinels \/ Cleanup
  <2>1. pc' \in {"cleanup", "done"} /\ UNCHANGED <<dag, requestQ, resultsQ, worker>>
    BY <1>12 DEF PostSentinels, Cleanup, pool
  <2> QED  BY <1>3, <2>1
<1>13. ASSUME NEW w \in Worker, Take(w)
       PROVE  Apart' /\ Claimed'
  <2>1. PICK f : Moves(f, {})
    BY <1>13, MovesTaken
  <2>2. Head(requestQ) \in Node /\ (UNCHANGED dag \/ Execute(Head(requestQ)))
    BY <1>13 DEF Take, Types
  <2>3. dag'.state = dag.state
    BY <2>2, ExecuteWalk
  <2> QED  BY <1>1, <2>1, <2>3, MovedEffects
<1>14. ASSUME NEW w \in Worker, Deliver(w)
       PROVE  Apart' /\ Claimed'
  <2>1. PICK f : Moves(f, {})
    BY <1>14, MovesDelivered
  <2> QED  BY <1>1, <1>14, <2>1, MovedEffects DEF Deliver, walk
<1>15. ASSUME NEW w \in Worker, Quit(w)
       PROVE  Apart' /\ Claimed'
  <2>1. /\ UNCHANGED <<dag, pc, task, raised, requestQ, resultsQ>>
        /\ RunningWorkers' = RunningWorkers /\ \A v \in RunningWorkers : worker'[v] = worker[v]
    BY <1>15 DEF Quit, walk, RunningWorkers, Types, Idle
  <2>2. Places' \subseteq Places \ {}
    BY <2>1 DEF Places
  <2>3. ASSUME NEW x \in Places' PROVE NodeAt(x)' = NodeAt(x)
    <3>1. \/ \E i \in DOMAIN requestQ : x = <<"request", i>>
          \/ \E i \in DOMAIN resultsQ : x = <<"result", i>>
          \/ \E v \in RunningWorkers : x = <<"worker", v>>
          \/ x = <<"task", 1>>
      BY <2>2, PlaceKinds
    <3> QED  BY <2>1, <3>1, NodesAt
  <2>4. \A x \in Places' : Under(x)' => Under(x)
    BY <1>1, <2>1 DEF Under, NeedsExecute
  <2>5. PICK f : Moves(f, {})
    BY <1>1, <2>2, <2>3, <2>4, PlacesStay
  <2> QED  BY <1>1, <2>1, <2>5, MovedEffects
<1>16. CASE Signal
  <2>1. dag'.state = dag.state
    BY <1>1, <1>16, StoppedFields DEF Signal
  <2> QED  BY <1>2, <1>16, <2>1 DEF Signal, pool
<1>17. CASE UNCHANGED vars
  BY <1>2, <1>17 DEF vars, walk, pool
<1> QED  BY <1>4, <1>5, <1>6, <1>7, <1>8, <1>9, <1>10, <1>11, <1>12, <1>13, <1>14, <1>15, <1>16, <1>17
         DEF Next, MainStep, WorkerStep, Over

\* Every task under way is at a place of its own.
LEMMA InFlightAt ==
  ASSUME Types, NEW n \in InFlight
  PROVE  \E x \in Places : NodeAt(x) = n
<1>1. CASE n \in Running
  <2>1. PICK w \in RunningWorkers : worker[w].node = n
    BY <1>1 DEF Running, RunningWorkers
  <2> QED  BY <2>1, PlaceKinds, NodesAt
<1>2. CASE n \in ToSet(requestQ)
  <2>1. PICK i \in DOMAIN requestQ : requestQ[i] = n
    BY <1>2 DEF ToSet
  <2> QED  BY <2>1, PlaceKinds, NodesAt
<1>3. CASE pc \in {"executed", "failed"} /\ n = task
  BY <1>3, PlaceKinds, NodesAt
<1> QED  BY <1>1, <1>2, <1>3 DEF InFlight

\* Two actions with a common side effect never run at the same time, whatever
\* fails and whoever stops the build.
THEOREM EffectsNeverShared == Spec /\ SideFiles => []EffectsExclusive
<1>1. Init => Apart /\ Claimed
  <2>1. Init => Places = {}
    <3> SUFFICES ASSUME Init PROVE Places = {}
      OBVIOUS
    <3>1. requestQ = <<>> /\ resultsQ = <<>> /\ pc = "next" /\ RunningWorkers = {}
      BY InitWalk DEF Init, RunningWorkers
    <3> QED  BY <3>1 DEF Places
  <2> QED  BY <2>1 DEF Apart, Claimed
<1>2. Init /\ SideFiles => NoneWaits
  <2> SUFFICES ASSUME Init, SideFiles, Policy = "keep_going" PROVE Clear(dag, AllEffects)
    BY DEF NoneWaits
  <2>1. project.top \in Seq(Node) /\ ToSet(project.top) \cap AllEffects = {}
    BY ProjectsSane DEF Init, Sane, SideFiles, NotUsed
  <2>2. ToSet(Reverse(project.top)) \subseteq ToSet(project.top)
    <3>1. DOMAIN Reverse(project.top) = DOMAIN project.top
          /\ \A i \in DOMAIN project.top : /\ Reverse(project.top)[i] = project.top[Len(project.top) - i + 1]
                                           /\ Len(project.top) - i + 1 \in DOMAIN project.top
      BY <2>1 DEF Reverse
    <3> QED  BY <3>1 DEF ToSet
  <2>3. /\ dag.cand = <<>> /\ dag.topLeft = Reverse(project.top)
        /\ \A n \in Node : dag.wp[n] = {} /\ dag.wse[n] = {} /\ dag.implicit[n] = NotScanned
    BY DEF Init, NewWalk
  <2>4. ToSet(<<>>) = {}
    BY DEF ToSet
  <2> QED  BY <2>1, <2>2, <2>3, <2>4 DEF Clear
<1>3. Types /\ Entered /\ SideFiles /\ NoneWaits /\ Apart /\ Claimed /\ [Next]_vars
        => NoneWaits' /\ Apart' /\ Claimed'
  BY ClearStep, EffectsStep
<1>4. Types /\ Apart => EffectsExclusive
  <2> SUFFICES ASSUME Types, Apart, Waits, NEW m \in InFlight, NEW n \in InFlight, m # n
               PROVE  Effects(project, Targets(project, m)) \cap Effects(project, Targets(project, n)) = {}
    BY DEF EffectsExclusive, Waits
  <2>1. PICK x \in Places, y \in Places : NodeAt(x) = m /\ NodeAt(y) = n
    BY InFlightAt
  <2>2. Claims(m) \cap Claims(n) = {}
    BY <2>1 DEF Apart
  <2>3. m \in Node /\ n \in Node
    BY DEF InFlight, Running, Types, ToSet
  <2>4. /\ Effects(project, Targets(project, m)) \subseteq AllEffects
        /\ Effects(project, Targets(project, n)) \subseteq AllEffects
    BY <2>3, AllEffectsPlain, ProjectSane, TargetsAreNodes
  <2> QED  BY <2>2, <2>4 DEF Claims
<1> QED  BY <1>1, <1>2, <1>3, <1>4, SideFilesStay, WalkTypes, PTL DEF Spec

----------------------------------------------------------------------------
(* Nobody is forgotten.                                                    *)

\* The children that m waits for, and the targets of the tasks of the nodes U.
WaitsFor(d, m) == {c \in Node : m \in d.wp[c]}
Covered(p, U)  == UNION {Targets(p, n) : n \in U}

\* Somebody will come back to c.
Cared(p, d, U, c) ==
    \/ d.state[c] = "no_state" /\ c \in ToSet(d.cand)
    \/ d.state[c] = "pending"
    \/ d.state[c] \in {"executing", "up_to_date"} /\ c \in Covered(p, U)

\* What the walk remembers while the tasks of U are under way and x is looked
\* at or is the node of the main thread's task.
Remembers(p, d, U, x) ==
    /\ Clear(d, Effects(p, Node)) /\ \A s \in Effects(p, Node) : d.wp[s] = {}
    /\ \A m \in Node : d.state[m] # "failed" /\ d.ref[m] = Cardinality(WaitsFor(d, m))
    /\ \A c \in Node : d.wp[c] # {} => Cared(p, d, U, c)
    /\ \A m \in Node : d.state[m] = "pending" =>
         \/ m \in ToSet(d.cand) \cup {x}
         \/ WaitsFor(d, m) # {}
         \/ \E s \in Effects(p, Node) : m \in d.wse[s] /\ d.state[s] = "executing"
    /\ \A c \in Node \ Effects(p, Node) : d.state[c] = "executing" => c \in Covered(p, U)

\* All orders of a set of nodes hold all of them.
LEMMA SeqsOfAll ==
  ASSUME NEW S \in SUBSET Node, NEW s \in SetToSeqs(S)
  PROVE  ToSet(s) = S
<1>1. IsFiniteSet(S) /\ Cardinality(S) \in Nat
  BY NodesCounted
<1> DEFINE D == 1..Cardinality(S)
<1>2. s \in [D -> S] /\ \A i, j \in D : i # j => s[i] # s[j]
  BY DEF SetToSeqs
<1>3. s \in Injection(D, S)
  BY <1>2 DEF Injection, IsInjective
<1>4. IsFiniteSet(D) /\ Cardinality(D) = Cardinality(S)
  BY <1>1, FS_Interval
<1> HIDE DEF D
<1>5. s \in Surjection(D, S)
  BY <1>1, <1>3, <1>4, FS_Injection
<1> QED  BY <1>2, <1>5 DEF Surjection, ToSet

LEMMA CountsAdd ==
  ASSUME NEW S \in SUBSET Node, NEW T \in SUBSET Node
  PROVE  /\ Cardinality(S \cup (T \ S)) = Cardinality(S) + Cardinality(T \ S)
         /\ Cardinality(S \ T) = Cardinality(S) - Cardinality(S \cap T)
         /\ Cardinality(S) \in Nat /\ Cardinality(S \cap T) \in Nat /\ (Cardinality(S) = 0 <=> S = {})
<1>1. /\ IsFiniteSet(S) /\ IsFiniteSet(T \ S) /\ IsFiniteSet(S \ T) /\ IsFiniteSet(S \cap T)
      /\ Cardinality(S) \in Nat /\ Cardinality(T \ S) \in Nat /\ Cardinality(S \ T) \in Nat
      /\ Cardinality(S \cap T) \in Nat
  BY NodesCounted
<1>2. Cardinality(S \cup (T \ S)) = Cardinality(S) + Cardinality(T \ S) - Cardinality(S \cap (T \ S))
  BY <1>1, FS_Union
<1>3. S \cap (T \ S) = {} /\ (S \ T) \cap (S \cap T) = {} /\ (S \ T) \cup (S \cap T) = S
  OBVIOUS
<1>4. Cardinality((S \ T) \cup (S \cap T)) = Cardinality(S \ T) + Cardinality(S \cap T) - Cardinality((S \ T) \cap (S \cap T))
  BY <1>1, FS_Union
<1>5. Cardinality(S) = 0 <=> S = {}
  BY <1>1, FS_EmptySet
<1>6. Cardinality(S) = Cardinality(S \ T) + Cardinality(S \cap T) - 0
  BY <1>3, <1>4, FS_EmptySet
<1>7. Cardinality(S \cup (T \ S)) = Cardinality(S) + Cardinality(T \ S) - 0
  BY <1>2, <1>3, FS_EmptySet
<1>8. Cardinality(S \ T) = Cardinality(S) - Cardinality(S \cap T)
  BY <1>1, <1>6
<1>9. Cardinality(S \cup (T \ S)) = Cardinality(S) + Cardinality(T \ S)
  BY <1>1, <1>7
<1> QED  BY <1>1, <1>5, <1>8, <1>9

\* A candidate is taken.
LEMMA TakenRemembers ==
  ASSUME NEW p, Sane(p), NEW d, IsWalk(d), HasCandidate(d), NEW U, NEW x, x \notin Node, Remembers(p, d, U, x)
  PROVE  LET n == Candidate(d)
             e == WithoutCandidate(d)
         IN  /\ ToSet(d.cand) \subseteq ToSet(e.cand) \cup {n} /\ n \notin Effects(p, Node)
             /\ d.state[n] \in Handled => Remembers(p, e, U, x)
             /\ d.state[n] \notin Handled => Remembers(p, Visited(e, n), U, n)
<1> DEFINE n == Candidate(d)
           e == WithoutCandidate(d)
           E == Effects(p, Node)
<1>1. n \in Node /\ IsWalk(e) /\ Clear(e, E) /\ n \notin E
  BY WithoutCandidateWalk, WithoutCandidateClear DEF Later, Remembers
<1>2. e.state = d.state /\ e.ref = d.ref /\ e.wp = d.wp /\ e.wse = d.wse
  BY WithoutCandidateFields
<1>3. ToSet(d.cand) \subseteq ToSet(e.cand) \cup {n}
  <2>1. CASE d.cand = <<>>
    BY <2>1 DEF ToSet
  <2>2. CASE d.cand # <<>>
    <3>1. e.cand = Front(d.cand) /\ n = Last(d.cand)
      BY <2>2 DEF WithoutCandidate, Candidate, IsWalk
    <3>2. ASSUME NEW i \in DOMAIN d.cand, i # Len(d.cand)
          PROVE  i \in DOMAIN Front(d.cand) /\ Front(d.cand)[i] = d.cand[i]
      BY <2>2, <3>2 DEF Front, IsWalk
    <3>3. n = d.cand[Len(d.cand)]
      BY <3>1 DEF Last
    <3> QED  BY <3>1, <3>2, <3>3 DEF ToSet
  <2> QED  BY <2>1, <2>2
<1>4. ASSUME d.state[n] \in Handled PROVE Remembers(p, e, U, x)
  <2>1. d.state[n] # "no_state" /\ d.state[n] # "pending"
    BY <1>4 DEF Handled
  <2>2. \A m \in Node : d.state[m] \in {"no_state", "pending"} /\ m \in ToSet(d.cand) => m \in ToSet(e.cand)
    BY <1>3, <2>1
  <2> HIDE DEF n, e
  <2>3. \A m : WaitsFor(e, m) = WaitsFor(d, m)
    BY <1>2 DEF WaitsFor
  <2>4. \A c \in Node : Cared(p, d, U, c) => Cared(p, e, U, c)
    BY <1>2, <2>2 DEF Cared
  <2> QED  BY <1>1, <1>2, <2>2, <2>3, <2>4 DEF Remembers
<1>5. ASSUME d.state[n] \notin Handled PROVE Remembers(p, Visited(e, n), U, n)
  <2> DEFINE v == Visited(e, n)
  <2>1. d.state[n] \in {"no_state", "pending"}
    BY <1>1, <1>5 DEF Handled, IsWalk
  <2> HIDE DEF n, e
  <2>2. Clear(v, E)
    BY <1>1, VisitedClear
  <2>3. /\ v.state = [d.state EXCEPT ![n] = IF d.state[n] = "no_state" THEN "pending" ELSE d.state[n]]
        /\ v.ref = d.ref /\ v.wp = d.wp /\ v.wse = d.wse /\ v.cand = e.cand
    BY <1>1, <1>2, VisitedFields
  <2> HIDE DEF v
  <2>4. v.state[n] = "pending" /\ \A m \in Node : m # n => v.state[m] = d.state[m]
    BY <1>1, <2>1, <2>3 DEF IsWalk
  <2>5. \A m : WaitsFor(v, m) = WaitsFor(d, m)
    BY <2>3 DEF WaitsFor
  <2>6. \A c \in Node : Cared(p, d, U, c) => Cared(p, v, U, c)
    BY <1>3, <2>3, <2>4 DEF Cared
  <2>7. E \subseteq Node
    BY EffectsPlain
  <2>8. ASSUME NEW m \in Node, v.state[m] = "pending", m # n
        PROVE  \/ m \in ToSet(v.cand)
               \/ WaitsFor(v, m) # {}
               \/ \E s \in E : m \in v.wse[s] /\ v.state[s] = "executing"
    <3>1. d.state[m] = "pending"
      BY <2>4, <2>8
    <3>2. \/ m \in ToSet(d.cand)
          \/ WaitsFor(d, m) # {}
          \/ \E s \in E : m \in d.wse[s] /\ d.state[s] = "executing"
      BY <3>1, <2>8 DEF Remembers
    <3>3. m \in ToSet(d.cand) => m \in ToSet(v.cand)
      BY <1>3, <2>3, <2>8
    <3> QED  BY <1>1, <2>3, <2>4, <2>5, <2>7, <3>2, <3>3
  <2>9. Remembers(p, v, U, n)
    BY <1>1, <2>1, <2>2, <2>3, <2>4, <2>5, <2>6, <2>8 DEF Remembers
  <2> QED  BY <2>9 DEF v
<1> QED  BY <1>1, <1>3, <1>4, <1>5

\* What changes nothing of what the walk remembers.
LEMMA SameRemembers ==
  ASSUME NEW p, NEW d, NEW e, NEW U, NEW x, Remembers(p, d, U, x), Clear(e, Effects(p, Node)),
         e.state = d.state, e.ref = d.ref, e.wp = d.wp, e.wse = d.wse, e.cand = d.cand
  PROVE  Remembers(p, e, U, x)
<1>1. \A m : WaitsFor(e, m) = WaitsFor(d, m)
  BY DEF WaitsFor
<1> QED  BY <1>1 DEF Remembers, Cared

\* n waits for children that are not ready.
LEMMA WaitForRemembers ==
  ASSUME NEW p, Sane(p), NEW d, IsWalk(d), Tracked(d), NEW n \in Node, n \notin Effects(p, Node), NEW U,
         NEW kids \in SUBSET Node, kids \cap Effects(p, Node) = {}, NEW order \in PushOrders(d, kids),
         Remembers(p, d, U, n), NotReady(d, kids) # {}, NEW x,
         NEW c, c = Push(d, order).cand, Clear(Waiting(d, n, kids, c), Effects(p, Node))
  PROVE  Remembers(p, Waiting(d, n, kids, c), U, x)
<1> DEFINE e    == Waiting(d, n, kids, c)
           slow == NotReady(d, kids)
           new  == NewFor(d, slow, n)
           E    == Effects(p, Node)
<1>1. /\ \A k \in Node : e.wp[k] = IF k \in slow THEN d.wp[k] \cup {n} ELSE d.wp[k]
      /\ e.state = d.state /\ e.wse = d.wse /\ e.cand = c
  BY WaitForFields
<1>2. e.ref = [d.ref EXCEPT ![n] = d.ref[n] + Cardinality(new)]
  BY WaitForCounts
<1>3. c = d.cand \o order /\ order \in Seq(Node) /\ ToSet(order) = {k \in kids : d.state[k] = "no_state"}
  BY PushFields, SeqsOfMembers, SeqsOfAll DEF PushOrders
<1>4. ToSet(c) = ToSet(d.cand) \cup {k \in kids : d.state[k] = "no_state"}
  BY <1>3, ConcatSet DEF IsWalk
<1>5. slow \subseteq Node \ E /\ \A k \in slow : k \in kids /\ d.state[k] \in {"no_state", "pending", "executing"}
  BY DEF NotReady, Unready
<1>6. Clear(e, E)
  OBVIOUS
<1>7. slow # {}
  OBVIOUS
<1> HIDE DEF e, slow
<1>8. ASSUME NEW m \in Node
      PROVE  WaitsFor(e, m) = IF m = n THEN WaitsFor(d, n) \cup slow ELSE WaitsFor(d, m)
  BY <1>1, <1>5 DEF WaitsFor
<1>9. ASSUME NEW m \in Node
      PROVE  e.ref[m] = Cardinality(WaitsFor(e, m))
  <2>1. CASE m = n
    <3>1. e.ref[n] = Cardinality(WaitsFor(d, n)) + Cardinality(new)
      BY <1>2 DEF Remembers, Tracked
    <3>2. new = slow \ WaitsFor(d, n) /\ WaitsFor(d, n) \in SUBSET Node /\ slow \in SUBSET Node
      BY <1>5 DEF NewFor, WaitsFor
    <3> HIDE DEF new
    <3>3. PICK W \in SUBSET Node : W = WaitsFor(d, n)
      BY <3>2
    <3>4. Cardinality(W \cup (slow \ W)) = Cardinality(W) + Cardinality(slow \ W)
      BY <3>2, CountsAdd
    <3>5. WaitsFor(e, m) = W \cup (slow \ W)
      BY <1>8, <2>1, <3>3
    <3> QED  BY <2>1, <3>1, <3>2, <3>3, <3>4, <3>5
  <2>2. CASE m # n
    <3>1. e.ref[m] = d.ref[m]
      BY <1>2, <2>2 DEF Tracked
    <3> QED  BY <1>8, <2>2, <3>1 DEF Remembers
  <2> QED  BY <2>1, <2>2
<1>10. ASSUME NEW k \in Node, e.wp[k] # {}
       PROVE  Cared(p, e, U, k)
  <2>1. CASE k \notin slow
    <3>1. Cared(p, d, U, k)
      BY <1>1, <1>10, <2>1 DEF Remembers
    <3> QED  BY <1>1, <1>4, <3>1 DEF Cared
  <2>2. CASE k \in slow
    <3>1. d.state[k] = "executing" => k \in Covered(p, U)
      BY <1>5, <2>2 DEF Remembers
    <3> QED  BY <1>1, <1>4, <1>5, <2>2, <3>1 DEF Cared
  <2> QED  BY <2>1, <2>2
<1>11. ASSUME NEW m \in Node, e.state[m] = "pending"
       PROVE  \/ m \in ToSet(e.cand) \cup {x}
              \/ WaitsFor(e, m) # {}
              \/ \E s \in E : m \in e.wse[s] /\ e.state[s] = "executing"
  <2>1. CASE m = n
    BY <1>7, <1>8, <2>1
  <2>2. CASE m # n
    <3>1. \/ m \in ToSet(d.cand)
          \/ WaitsFor(d, m) # {}
          \/ \E s \in E : m \in d.wse[s] /\ d.state[s] = "executing"
      BY <1>1, <1>11, <2>2 DEF Remembers
    <3> QED  BY <1>1, <1>4, <1>8, <2>2, <3>1
  <2> QED  BY <2>1, <2>2
<1>12. \A s \in E : e.wp[s] = {}
  BY <1>1, <1>5, EffectsPlain DEF Remembers
<1>13. \A m \in Node : e.state[m] # "failed"
  BY <1>1 DEF Remembers
<1>14. \A k \in Node \ E : e.state[k] = "executing" => k \in Covered(p, U)
  BY <1>1 DEF Remembers
<1>15. Remembers(p, e, U, x)
  BY <1>6, <1>9, <1>10, <1>11, <1>12, <1>13, <1>14 DEF Remembers
<1> QED  BY <1>15 DEF e

\* n waits for a side effect in use.
LEMMA BusyRemembers ==
  ASSUME NEW p, Sane(p), NEW d, IsWalk(d), NEW n \in Node, NEW U, Remembers(p, d, U, n),
         BusyEffects(p, d, n) # {}, NEW x, Clear(WaitForEffects(p, d, n), Effects(p, Node))
  PROVE  Remembers(p, WaitForEffects(p, d, n), U, x)
<1> DEFINE e == WaitForEffects(p, d, n)
           B == BusyEffects(p, d, n)
           E == Effects(p, Node)
<1>1. e.wse = [s \in Node |-> IF s \in B THEN d.wse[s] \cup {n} ELSE d.wse[s]]
  BY DEF WaitForEffects, IsWalk
<1>2. e.state = d.state /\ e.ref = d.ref /\ e.wp = d.wp /\ e.cand = d.cand
  BY WaitForEffectsFields
<1>3. B \subseteq E /\ E \subseteq Node /\ B # {} /\ \A s \in B : d.state[s] = "executing"
  BY EffectsPlain, TargetsAreNodes DEF BusyEffects, Effects, ActionTargets
<1>4. Clear(e, E)
  OBVIOUS
<1> HIDE DEF e, B
<1>5. \A m : WaitsFor(e, m) = WaitsFor(d, m)
  BY <1>2 DEF WaitsFor
<1>6. \A c \in Node : Cared(p, d, U, c) => Cared(p, e, U, c)
  BY <1>2 DEF Cared
<1>7. \E s \in E : n \in e.wse[s] /\ e.state[s] = "executing"
  BY <1>1, <1>2, <1>3
<1>8. \A s \in E : d.wse[s] \subseteq e.wse[s]
  BY <1>1, <1>3
<1>9. Remembers(p, e, U, x)
  BY <1>2, <1>4, <1>5, <1>6, <1>7, <1>8 DEF Remembers
<1> QED  BY <1>9 DEF e

\* The targets T agree in one of the states S; e leaves all but the targets of
\* n and what is written on the side as they are in d.
Agree(e, T, S)     == \E st \in S : \A t \in T : e.state[t] = st
OthersAs(d, e, n)  == \A m \in Node \ AllEffects : m \notin Targets(project, n) => e.state[m] = d.state[m]
Begins             == {"executing", "up_to_date"}

\* n is handed out.
LEMMA ReadyRemembers ==
  ASSUME Sane(project), PlainFiles(project), NEW d, IsWalk(d), NEW n \in Node, n \notin AllEffects, NEW U,
         Remembers(project, d, U, n), NEW e \in Ready(project, d, n)
  PROVE  /\ Remembers(project, e, U \cup {n}, n)
         /\ Agree(e, Targets(project, n), Begins) /\ OthersAs(d, e, n)
<1> DEFINE T == Targets(project, n)
           E == AllEffects
           V == U \cup {n}
<1>1. T \in SUBSET Node /\ n \in T /\ E \subseteq Node /\ Effects(project, T) \subseteq E
  BY TargetsAreNodes, EffectsPlain DEF AllEffects, Effects
<1>2. T \cap E = {}
  <2>1. n \notin project.builder => T = {n}
    BY DEF PlainFiles
  <2>2. n \in project.builder => T \subseteq project.builder
    BY DEF Sane
  <2> QED  BY <2>1, <2>2, EffectsPlain DEF AllEffects
<1>3. PICK st \in {"executing", "up_to_date"} :
        /\ e.wp = d.wp /\ e.wse = d.wse /\ e.cand = d.cand /\ e.ref = d.ref
        /\ \A m \in Node : \/ m \in T /\ e.state[m] = st
                           \/ m \in E \ T /\ e.state[m] = "executing"
                           \/ m \notin T /\ e.state[m] = d.state[m]
  <2>1. CASE e = UpToDate(d, T)
    <3>1. /\ \A m \in Node : e.state[m] = IF m \in T THEN "up_to_date" ELSE d.state[m]
          /\ e.wp = d.wp /\ e.wse = d.wse /\ e.cand = d.cand /\ e.ref = d.ref
      BY <2>1, UpToDateFields
    <3> QED  BY <3>1
  <2>2. CASE e = Marked(project, d, T)
    <3> HIDE DEF T
    <3>1. /\ \A m \in Node : e.state[m] = IF m \in T \cup Effects(project, T) THEN "executing" ELSE d.state[m]
          /\ e.wp = d.wp /\ e.wse = d.wse /\ e.cand = d.cand /\ e.ref = d.ref
      BY <2>2, MarkedFields
    <3>2. \A m \in Node : \/ m \in T /\ e.state[m] = "executing"
                          \/ m \in E \ T /\ e.state[m] = "executing"
                          \/ m \notin T /\ e.state[m] = d.state[m]
      BY <1>1, <3>1
    <3> QED  BY <3>1, <3>2
  <2> QED  BY <2>1, <2>2 DEF Ready
<1>4. Clear(e, E)
  BY ReadyClear DEF Remembers, AllEffects
<1>5. \A m : WaitsFor(e, m) = WaitsFor(d, m)
  BY <1>3 DEF WaitsFor
<1>6. T \subseteq Covered(project, V) /\ Covered(project, U) \subseteq Covered(project, V)
  BY DEF Covered
<1> HIDE DEF T, V
<1>7. ASSUME NEW c \in Node, e.wp[c] # {}
      PROVE  Cared(project, e, V, c)
  <2>1. Cared(project, d, U, c) /\ c \notin E
    BY <1>3, <1>7 DEF Remembers, AllEffects
  <2>2. CASE c \in T
    BY <1>3, <1>6, <2>2 DEF Cared
  <2>3. CASE c \notin T
    BY <1>3, <1>6, <2>1, <2>3 DEF Cared
  <2> QED  BY <2>2, <2>3
<1>8. ASSUME NEW m \in Node, e.state[m] = "pending"
      PROVE  \/ m \in ToSet(e.cand) \cup {n}
             \/ WaitsFor(e, m) # {}
             \/ \E s \in E : m \in e.wse[s] /\ e.state[s] = "executing"
  <2>1. d.state[m] = "pending"
    BY <1>3, <1>8
  <2>2. \/ m \in ToSet(d.cand) \cup {n}
        \/ WaitsFor(d, m) # {}
        \/ \E s \in E : m \in d.wse[s] /\ d.state[s] = "executing"
    BY <2>1 DEF Remembers, AllEffects
  <2>3. \A s \in E : d.state[s] = "executing" => e.state[s] = "executing"
    BY <1>1, <1>2, <1>3
  <2> QED  BY <1>3, <1>5, <2>2, <2>3
<1>9. \A c \in Node \ E : e.state[c] = "executing" => c \in Covered(project, V)
  BY <1>3, <1>6 DEF Remembers, AllEffects
<1>10. \A m \in Node : e.state[m] # "failed" /\ e.ref[m] = Cardinality(WaitsFor(e, m))
  BY <1>3, <1>5 DEF Remembers
<1>11. \A s \in E : e.wp[s] = {}
  BY <1>3 DEF Remembers, AllEffects
<1>12. Remembers(project, e, V, n)
  BY <1>4, <1>7, <1>8, <1>9, <1>10, <1>11 DEF Remembers, AllEffects
<1> QED  BY <1>1, <1>2, <1>3, <1>12 DEF V, T, Agree, Begins, OthersAs

\* A look at a candidate n.
LEMMA LooksRemembers ==
  ASSUME Sane(project), PlainFiles(project), NEW d, IsWalk(d), Tracked(d), NEW n \in Node, n \notin AllEffects,
         NEW kids \in SUBSET Node, kids \cap AllEffects = {}, NEW order \in PushOrders(d, kids),
         Looks(n, d, kids, order), NEW U, NEW x, Remembers(project, d, U, n)
  PROVE  /\ OthersAs(d, dag', n)
         /\ \/ pc' = "next" /\ UNCHANGED <<task, raised>> /\ Remembers(project, dag', U, x)
            \/ /\ pc' = "prepare" /\ task' = n /\ Remembers(project, dag', U \cup {n}, n)
               /\ \/ raised'
                  \/ Agree(dag', Targets(project, n), Begins)
<1>0. Clear(dag', AllEffects) /\ Clear(d, AllEffects)
  BY LooksClear DEF Remembers, AllEffects
<1>1. ~ChildFailed(d, kids)
  BY DEF ChildFailed, Remembers
<1>2. CASE NotReady(d, kids) # {}
  <2>1. PICK c : c = Push(d, order).cand
    OBVIOUS
  <2>2. dag' = Waiting(d, n, kids, c) /\ pc' = "next" /\ UNCHANGED <<task, raised>>
    BY <1>1, <1>2, <2>1 DEF Looks
  <2>3. Remembers(project, Waiting(d, n, kids, c), U, x)
    BY <1>0, <1>2, <2>1, <2>2, WaitForRemembers DEF AllEffects
  <2>4. Waiting(d, n, kids, c).state = d.state
    BY WaitForFields
  <2> QED  BY <2>2, <2>3, <2>4 DEF OthersAs
<1>3. CASE NotReady(d, kids) = {} /\ BusyEffects(project, d, n) # {}
  <2>1. dag' = WaitForEffects(project, d, n) /\ pc' = "next" /\ UNCHANGED <<task, raised>>
    BY <1>1, <1>3 DEF Looks
  <2>2. Remembers(project, WaitForEffects(project, d, n), U, x)
    BY <1>0, <1>3, <2>1, BusyRemembers DEF AllEffects
  <2>3. WaitForEffects(project, d, n).state = d.state
    BY WaitForEffectsFields
  <2> QED  BY <2>1, <2>2, <2>3 DEF OthersAs
<1>4. CASE NotReady(d, kids) = {} /\ BusyEffects(project, d, n) = {} /\ dag' \in Ready(project, d, n)
           /\ pc' = "prepare" /\ task' = n
  <2>1. PICK e : e = dag'
    OBVIOUS
  <2>2. e \in Ready(project, d, n)
    BY <1>4, <2>1
  <2>3. /\ Remembers(project, e, U \cup {n}, n)
        /\ Agree(e, Targets(project, n), Begins) /\ OthersAs(d, e, n)
    BY <2>2, ReadyRemembers
  <2> QED  BY <1>4, <2>1, <2>3
<1>5. CASE NotReady(d, kids) = {} /\ BusyEffects(project, d, n) = {} /\ dag' = d
           /\ pc' = "prepare" /\ task' = n /\ raised' = TRUE
  <2>1. Covered(project, U) \subseteq Covered(project, U \cup {n})
    BY DEF Covered
  <2>2. Remembers(project, d, U \cup {n}, n)
    BY <2>1 DEF Remembers, Cared
  <2> QED  BY <1>5, <2>2 DEF OthersAs
<1>6. \/ NotReady(d, kids) # {}
      \/ NotReady(d, kids) = {} /\ BusyEffects(project, d, n) # {}
      \/ NotReady(d, kids) = {} /\ BusyEffects(project, d, n) = {} /\ dag' \in Ready(project, d, n)
           /\ pc' = "prepare" /\ task' = n
      \/ NotReady(d, kids) = {} /\ BusyEffects(project, d, n) = {} /\ dag' = d
           /\ pc' = "prepare" /\ task' = n /\ raised' = TRUE
  BY <1>1 DEF Looks
<1> QED  BY <1>2, <1>3, <1>4, <1>5, <1>6

\* What is used by nobody is used by nobody when everything is cleaned.
LEMMA OnDiskNotUsed ==
  ASSUME Types, NEW E, NotUsed(project, E)
  PROVE  NotUsed(OnDisk, E) /\ \A d, n : Children(OnDisk, d, n) = Children(project, d, n)
<1>1. CASE options.class # "clean"
  BY <1>1, OnDiskSane
<1>2. CASE options.class = "clean"
  <2> DEFINE i == [f \in Node |-> IF f \in project.builder THEN {} ELSE project.includes[f]]
  <2>1. OnDisk = [project EXCEPT !.includes = i]
    BY <1>2 DEF OnDisk
  <2>2. \A f \in Node : i[f] \subseteq project.includes[f]
    BY ProjectSane DEF Sane
  <2> HIDE DEF i
  <2>3. /\ OnDisk.targets = project.targets /\ OnDisk.sources = project.sources
        /\ OnDisk.prereqs = project.prereqs /\ OnDisk.top = project.top /\ OnDisk.includes = i
        /\ OnDisk.before = project.before /\ OnDisk.builder = project.builder
    <3>1. project \in [targets  : [Node -> Seq(Node)],    sources : [Node -> Seq(Node)],
                       prereqs  : [Node -> Seq(Node)],    top     : Seq(Node),
                       includes : [Node -> SUBSET Node],  before  : [Node -> SUBSET Node],
                       effects  : [Node -> SUBSET Node],  builder : SUBSET Node, missing : SUBSET Node]
      BY ProjectAssumption DEF Types
    <3> QED  BY <2>1, <3>1
  <2>4. NotUsed(OnDisk, E)
    BY <2>2, <2>3 DEF NotUsed
  <2>5. ASSUME NEW d, NEW n
        PROVE  Children(OnDisk, d, n) = Children(project, d, n)
    BY <2>3 DEF Children, Sources, Targets, ActionTargets
  <2> QED  BY <2>4, <2>5
<1> QED  BY <1>1, <1>2

\* The hypothesis: only what is built writes on the side, and what is written
\* on the side is used by nobody.
UnusedEffects == PlainFiles(project) /\ NotUsed(project, AllEffects)

LEMMA ExamineRemembers ==
  ASSUME Types, Entered, Tracked(dag), Examine, UnusedEffects, NEW U, NEW x,
         Remembers(project, dag, U, NoTask)
  PROVE  LET n == Candidate(dag)
         IN  /\ n \in Node \ AllEffects /\ dag.state[n] \notin Handled
             /\ OthersAs(dag, dag', n)
             /\ \/ pc' = "next" /\ UNCHANGED <<task, raised>> /\ Remembers(project, dag', U, x)
                \/ /\ pc' = "prepare" /\ task' = n /\ Remembers(project, dag', U \cup {n}, n)
                   /\ \/ raised'
                      \/ Agree(dag', Targets(project, n), Begins)
<1>0. /\ Sane(project) /\ IsWalk(dag) /\ HasCandidate(dag) /\ Candidates
      /\ Sane(OnDisk) /\ NotUsed(OnDisk, AllEffects) /\ OnDisk.builder = project.builder
      /\ \A m : Targets(OnDisk, m) = Targets(project, m)
  BY ProjectSane, OnDiskSane, OnDiskNotUsed DEF Types, Examine, Candidates, UnusedEffects
<1>1. PICK n \in Node : n = Candidate(dag) /\ dag.state[n] \notin Handled
  BY ExamineLooks
<1>2. PICK fresh : \E order \in PushOrders(Seen(n, fresh), Children(project, Seen(n, fresh), n)) :
                       Looks(n, Seen(n, fresh), Children(project, Seen(n, fresh), n), order)
  BY <1>1, ExamineLooks
<1> DEFINE w == WithoutCandidate(dag)
           b == Visited(w, n)
           d == Scanned(OnDisk, b, fresh, n)
<1>3. d = Seen(n, fresh)
  BY DEF Seen, Begin
<1>4. PICK order \in PushOrders(d, Children(project, d, n)) : Looks(n, d, Children(project, d, n), order)
  BY <1>2, <1>3
<1>5. IsWalk(w) /\ n \notin AllEffects /\ Remembers(project, b, U, n)
  BY <1>0, <1>1, TaskNode, WithoutCandidateWalk, TakenRemembers DEF Later, AllEffects
<1>6. w.state = dag.state /\ w.ref = dag.ref /\ w.implicit = dag.implicit /\ w.pending = dag.pending
  BY <1>0, WithoutCandidateFields
<1> HIDE DEF w
<1>7. IsWalk(b)
  BY <1>0, <1>5, VisitedWalk DEF Later
<1>8. b.ref = dag.ref /\ b.implicit = dag.implicit /\ b.pending = dag.pending
      /\ b.state = [dag.state EXCEPT ![n] = IF dag.state[n] = "no_state" THEN "pending" ELSE dag.state[n]]
  BY <1>5, <1>6, VisitedFields
<1> HIDE DEF b
<1>9. Tracked(b)
  BY <1>8, TrackedSame
<1>10. n \notin project.builder => Targets(project, n) = {n}
  BY DEF UnusedEffects, PlainFiles
<1>11. Clear(b, AllEffects)
  BY <1>5 DEF Remembers, AllEffects
<1>12. IsWalk(d) /\ Clear(d, AllEffects) /\ Children(OnDisk, d, n) \cap AllEffects = {}
  BY <1>0, <1>7, <1>10, <1>11, ScannedWalk, ScannedClear DEF Later
<1>13. Tracked(d)
  BY <1>0, <1>7, <1>9, ScannedTracked
<1>14. d.state = b.state /\ d.ref = b.ref /\ d.wp = b.wp /\ d.wse = b.wse /\ d.cand = b.cand
  <2>1. PICK q : q = OnDisk
    OBVIOUS
  <2> DEFINE e     == Scanned(q, b, fresh, n)
             T     == Targets(q, n) \cap q.builder
             found == IF n \in q.builder THEN Found(q, b, fresh, n) ELSE {}
             again == \E t \in T : b.implicit[t] = NotScanned
  <2>2. /\ e.implicit = [t \in Node |->
               CASE t \in T /\ again -> IF b.implicit[t] = NotScanned THEN found ELSE b.implicit[t] \cup found
                 [] t = n /\ T = {} -> {}
                 [] OTHER -> b.implicit[t]]
        /\ e.state = b.state /\ e.ref = b.ref /\ e.wp = b.wp /\ e.wse = b.wse /\ e.cand = b.cand
    BY ONLY IsWalk(b), n \in Node, <1>7, ScannedFields
  <2>3. e = d
    BY <2>1
  <2> HIDE DEF e
  <2> QED  BY <2>2, <2>3
<1> HIDE DEF d
<1>15. Remembers(project, d, U, n)
  BY <1>5, <1>12, <1>14, SameRemembers DEF AllEffects
<1>16. Children(project, d, n) \in SUBSET Node /\ Children(project, d, n) \cap AllEffects = {}
  BY <1>12, OnDiskNotUsed DEF Children, UnusedEffects
<1>17. /\ OthersAs(d, dag', n)
       /\ \/ pc' = "next" /\ UNCHANGED <<task, raised>> /\ Remembers(project, dag', U, x)
          \/ /\ pc' = "prepare" /\ task' = n /\ Remembers(project, dag', U \cup {n}, n)
             /\ \/ raised'
                \/ Agree(dag', Targets(project, n), Begins)
  <2>1. PICK kids \in SUBSET Node : kids = Children(project, d, n)
    BY <1>16
  <2> QED  BY <1>0, <1>4, <1>5, <1>12, <1>13, <1>15, <1>16, <2>1, LooksRemembers DEF UnusedEffects
<1>18. \A m \in Node : m \notin Targets(project, n) => d.state[m] = dag.state[m]
  BY <1>0, <1>8, <1>14, TargetsAreNodes
<1>19. OthersAs(dag, dag', n)
  BY <1>17, <1>18 DEF OthersAs
<1> QED  BY <1>1, <1>5, <1>17, <1>19

\* postprocess puts back those who wait for a released side effect and have no
\* child left, and those whose last child is done.
LEMMA PostprocessedPutsBack ==
  ASSUME NEW p, Sane(p), NEW d, IsWalk(d), NEW T \in SUBSET Node, NEW e \in Postprocessed(p, d, T)
  PROVE  /\ ToSet(d.cand) \subseteq ToSet(e.cand)
         /\ \A s \in Effects(p, T) : \A m \in d.wse[s] : d.ref[m] = 0 => m \in ToSet(e.cand)
         /\ \A c \in T : \A m \in d.wp[c] : e.ref[m] = 0 => m \in ToSet(e.cand)
<1> DEFINE held    == {s \in Effects(p, T) : d.state[s] = "executing"}
           counted == T \cup held
           ref     == [n \in Node |-> d.ref[n] - Cardinality({c \in counted : n \in d.wp[c]})]
           queued  == {n \in UNION {d.wse[s] : s \in Effects(p, T)} : d.ref[n] = 0}
           freed   == {n \in UNION {d.wp[c] : c \in counted} : ref[n] = 0}
           orders  == {both[1] \o both[2] : both \in SetToSeqs(queued) \X SetToSeqs(freed)}
<1>1. PICK order \in orders :
        e = [d EXCEPT
               !.state   = [n \in Node |-> IF n \in held THEN "no_state" ELSE @[n]],
               !.ref     = ref,
               !.wp      = [n \in Node |-> IF n \in T THEN {} ELSE @[n]],
               !.pending = @ \ {t \in T : d.wp[t] # {}},
               !.cand    = @ \o order]
  BY Zenon DEF Postprocessed
<1>2. Effects(p, T) \subseteq Node
  BY EffectsPlain
<1>3. queued \subseteq Node /\ freed \subseteq Node
  BY <1>2 DEF IsWalk
<1>4. order \in Seq(Node) /\ ToSet(order) = queued \cup freed
  <2> HIDE DEF queued, freed
  <2>1. PICK a \in SetToSeqs(queued), b \in SetToSeqs(freed) : order = a \o b
    BY <1>1
  <2>2. queued \in SUBSET Node /\ freed \in SUBSET Node
    BY <1>3
  <2>3. a \in Seq(Node) /\ b \in Seq(Node) /\ ToSet(a) = queued /\ ToSet(b) = freed
    BY <2>2, SeqsOfAll, SeqsOfMembers
  <2>4. ToSet(a \o b) = ToSet(a) \cup ToSet(b)
    BY <2>3, ConcatSet
  <2> QED  BY <2>1, <2>3, <2>4
<1>5. \A c \in T : \A m \in d.wp[c] : ref[m] = 0 => m \in freed
  OBVIOUS
<1>6. \A s \in Effects(p, T) : \A m \in d.wse[s] : d.ref[m] = 0 => m \in queued
  OBVIOUS
<1> HIDE DEF held, counted, ref, queued, freed, orders
<1>7. e.cand = d.cand \o order /\ e.ref = ref
  BY <1>1 DEF IsWalk
<1>8. ToSet(d.cand \o order) = ToSet(d.cand) \cup ToSet(order)
  BY <1>4, ConcatSet DEF IsWalk
<1> QED  BY <1>4, <1>5, <1>6, <1>7, <1>8

\* A task of n is over.  a is the walk before postprocess: executed, released,
\* or with -q as it was.
Concluded(p, d, a, T) ==
    \/ a \in {Executed(p, d, T), Released(p, d, T)} /\ Agree(d, T, {"executing", "up_to_date", "executed"})
    \/ a = d /\ Agree(d, T, {"up_to_date"})

\* What the end of a task does to states and lists.
LEMMA ConcludedFields ==
  ASSUME Sane(project), PlainFiles(project), NEW d, IsWalk(d), NEW n \in Node, n \notin AllEffects,
         NEW a, Concluded(project, d, a, Targets(project, n)), Clear(d, AllEffects),
         NEW e \in Postprocessed(project, a, Targets(project, n))
  PROVE  LET T == Targets(project, n)
         IN  /\ T \in SUBSET Node /\ n \in T /\ T \cap AllEffects = {} /\ IsWalk(a) /\ Clear(e, AllEffects)
             /\ a.ref = d.ref /\ a.wp = d.wp /\ a.wse = d.wse /\ a.cand = d.cand /\ e.wse = d.wse
             /\ \A c \in T : e.state[c] \in {"executed", "up_to_date"}
             /\ \A c \in T : e.state[c] = IF d.state[c] = "executing" THEN "executed" ELSE d.state[c]
             /\ \A c \in Node : c \notin T /\ c \notin AllEffects => e.state[c] = d.state[c]
             /\ \A s \in AllEffects : \/ e.state[s] = d.state[s]
                                      \/ s \in Effects(project, T) /\ e.state[s] = "no_state"
             /\ \A c \in Node : e.wp[c] = IF c \in T THEN {} ELSE d.wp[c]
             /\ e.ref = CountedDown(d, CountedFor(project, a, T))
<1> DEFINE T == Targets(project, n)
           E == AllEffects
           done == Working(d, T)
<1>1. T \in SUBSET Node /\ n \in T /\ E \subseteq Node /\ Effects(project, T) \subseteq E
  BY TargetsAreNodes, EffectsPlain DEF AllEffects, Effects
<1>2. T \cap E = {}
  <2>1. n \notin project.builder => T = {n}
    BY DEF PlainFiles
  <2>2. n \in project.builder => T \subseteq project.builder
    BY DEF Sane
  <2> QED  BY <2>1, <2>2, EffectsPlain DEF AllEffects
<1>3. done \subseteq T /\ Effects(project, done) \subseteq Effects(project, T)
  BY DEF Working, Effects
<1> HIDE DEF T
<1>4. /\ a.ref = d.ref /\ a.wp = d.wp /\ a.wse = d.wse /\ a.cand = d.cand /\ IsWalk(a)
      /\ \A c \in T : a.state[c] = IF d.state[c] = "executing" THEN "executed" ELSE d.state[c]
      /\ \A c \in Node : c \notin T /\ c \notin E => a.state[c] = d.state[c]
      /\ \A s \in E : \/ a.state[s] = d.state[s]
                      \/ s \in Effects(project, T) /\ a.state[s] = "no_state"
      /\ a.topLeft = d.topLeft /\ \A c \in Node : a.implicit[c] \in {NotScanned, d.implicit[c]}
  <2>1. CASE a = d /\ Agree(d, T, {"up_to_date"})
    BY <2>1 DEF Agree
  <2> DEFINE r == Released(project, d, T)
             x == Executed(project, d, T)
  <2>2. /\ \A c \in Node : r.state[c] = CASE c \in done -> "executed"
                                         [] c \in Effects(project, done) \ done -> "no_state"
                                         [] OTHER -> d.state[c]
        /\ r.ref = d.ref /\ r.wp = d.wp /\ r.wse = d.wse /\ r.cand = d.cand /\ r.implicit = d.implicit
    BY ReleasedFields
  <2>3. x.state = r.state /\ x.implicit = Rescans(d, done)
        /\ x.ref = d.ref /\ x.wp = d.wp /\ x.wse = d.wse /\ x.cand = d.cand
    BY <1>1, ExecutedFields
  <2>4. IsWalk(r) /\ IsWalk(x)
    BY <1>1, ReleasedWalk, ExecutedWalk DEF Later
  <2>5. r.topLeft = d.topLeft /\ x.topLeft = d.topLeft
    BY DEF Executed, Released, IsWalk
  <2> HIDE DEF r, x, done
  <2>6. \A c \in Node : x.implicit[c] \in {NotScanned, d.implicit[c]}
    BY <2>3 DEF Rescans
  <2>7. /\ \A c \in T : r.state[c] = IF d.state[c] = "executing" THEN "executed" ELSE d.state[c]
        /\ \A c \in Node : c \notin T /\ c \notin E => r.state[c] = d.state[c]
        /\ \A s \in E : \/ r.state[s] = d.state[s]
                        \/ s \in Effects(project, T) /\ r.state[s] = "no_state"
    <3>1. ASSUME NEW c \in T
          PROVE  r.state[c] = IF d.state[c] = "executing" THEN "executed" ELSE d.state[c]
      <4>1. c \in done <=> d.state[c] = "executing"
        BY DEF done, Working
      <4>2. c \notin Effects(project, done)
        BY <1>1, <1>2, <1>3
      <4> QED  BY <1>1, <2>2, <4>1, <4>2
    <3>2. \A c \in Node : c \notin T /\ c \notin E => r.state[c] = d.state[c]
      BY <1>1, <1>3, <2>2
    <3>3. ASSUME NEW s \in E
          PROVE  \/ r.state[s] = d.state[s]
                 \/ s \in Effects(project, T) /\ r.state[s] = "no_state"
      BY <1>1, <1>2, <1>3, <2>2
    <3> QED  BY <3>1, <3>2, <3>3
  <2>8. CASE a = r
    BY <2>2, <2>4, <2>5, <2>7, <2>8
  <2>9. CASE a = x
    BY <2>3, <2>4, <2>5, <2>6, <2>7, <2>9
  <2> QED  BY <2>1, <2>8, <2>9 DEF Concluded, T, r, x
<1>5. Clear(a, E)
  BY <1>4 DEF Clear
<1>6. e \in Postprocessed(project, a, T)
  BY DEF T
<1>7. Clear(e, E)
  BY <1>1, <1>4, <1>5, <1>6, PostprocessedClear
<1>8. IsFreed(project, a, T, e)
  BY <1>4, <1>6, PostprocessedFields
<1>9. /\ \A c \in Node : c \notin Working(a, Effects(project, T)) => e.state[c] = a.state[c]
      /\ \A c \in Node : c \in Working(a, Effects(project, T)) => e.state[c] = "no_state"
      /\ e.ref = CountedDown(a, CountedFor(project, a, T))
      /\ \A c \in Node : e.wp[c] = IF c \in T THEN {} ELSE d.wp[c]
      /\ e.wse = d.wse
  BY <1>4, <1>8 DEF IsFreed
<1>10. CountedDown(a, CountedFor(project, a, T)) = CountedDown(d, CountedFor(project, a, T))
  BY <1>4 DEF CountedDown, Awaited
<1>11. Working(a, Effects(project, T)) \subseteq E /\ Working(a, Effects(project, T)) \subseteq Effects(project, T)
  BY <1>1 DEF Working
<1>12. \A c \in T : d.state[c] \in {"executing", "up_to_date", "executed"}
  BY DEF Concluded, Agree, T
<1>13. \A c \in T : e.state[c] = IF d.state[c] = "executing" THEN "executed" ELSE d.state[c]
  BY <1>1, <1>2, <1>4, <1>9, <1>11
<1>14. \A c \in Node : c \notin T /\ c \notin E => e.state[c] = d.state[c]
  BY <1>4, <1>9, <1>11
<1>15. \A s \in E : \/ e.state[s] = d.state[s]
                    \/ s \in Effects(project, T) /\ e.state[s] = "no_state"
  BY <1>1, <1>4, <1>9, <1>11
<1>16. \A c \in T : e.state[c] \in {"executed", "up_to_date"}
  BY <1>12, <1>13
<1> QED  BY <1>1, <1>2, <1>4, <1>7, <1>9, <1>10, <1>13, <1>14, <1>15, <1>16 DEF T

\* A task that is over lets everybody else be remembered without it.
LEMMA ConcludedRemembers ==
  ASSUME Sane(project), PlainFiles(project), NEW d, IsWalk(d), Tracked(d), NEW n \in Node, n \notin AllEffects,
         NEW a, Concluded(project, d, a, Targets(project, n)), NEW e \in Postprocessed(project, a, Targets(project, n)),
         NEW U, NEW x, x = n \/ x \notin Node, NEW y, Remembers(project, d, U, x)
  PROVE  Remembers(project, e, U \ {n}, y)
<1> DEFINE T == Targets(project, n)
           E == AllEffects
           V == U \ {n}
<1>1. /\ T \in SUBSET Node /\ n \in T /\ T \cap E = {} /\ IsWalk(a) /\ Clear(e, E)
      /\ a.ref = d.ref /\ a.wp = d.wp /\ a.wse = d.wse /\ a.cand = d.cand /\ e.wse = d.wse
      /\ \A c \in T : e.state[c] \in {"executed", "up_to_date"}
      /\ \A c \in T : e.state[c] = IF d.state[c] = "executing" THEN "executed" ELSE d.state[c]
      /\ \A c \in Node : c \notin T /\ c \notin E => e.state[c] = d.state[c]
      /\ \A s \in E : \/ e.state[s] = d.state[s]
                      \/ s \in Effects(project, T) /\ e.state[s] = "no_state"
      /\ \A c \in Node : e.wp[c] = IF c \in T THEN {} ELSE d.wp[c]
      /\ e.ref = CountedDown(d, CountedFor(project, a, T))
  BY ConcludedFields DEF Remembers, AllEffects
<1>2. /\ ToSet(d.cand) \subseteq ToSet(e.cand)
      /\ \A s \in Effects(project, T) : \A m \in d.wse[s] : d.ref[m] = 0 => m \in ToSet(e.cand)
      /\ \A c \in T : \A m \in d.wp[c] : e.ref[m] = 0 => m \in ToSet(e.cand)
  <2> HIDE DEF T
  <2>1. e \in Postprocessed(project, a, T)
    BY DEF T
  <2> QED  BY <1>1, <2>1, PostprocessedPutsBack
<1>3. Covered(project, U) \subseteq Covered(project, V) \cup T
  BY DEF Covered
<1>4. E \subseteq Node /\ E = Effects(project, Node) /\ \A s \in E : d.wp[s] = {}
  BY EffectsPlain DEF AllEffects, Remembers
<1>5. \A m : WaitsFor(e, m) = WaitsFor(d, m) \ T
  BY <1>1 DEF WaitsFor
<1> HIDE DEF T, V, E
<1>6. ASSUME NEW m \in Node
      PROVE  /\ e.ref[m] = Cardinality(WaitsFor(e, m)) /\ d.ref[m] = Cardinality(WaitsFor(d, m))
             /\ e.ref[m] = 0 <=> WaitsFor(e, m) = {}
             /\ d.ref[m] = 0 <=> WaitsFor(d, m) = {}
  <2>1. Awaited(d, CountedFor(project, a, T), m) = WaitsFor(d, m) \cap T
    <3>1. Effects(project, T) \subseteq E
      BY <1>1, <1>4 DEF Effects
    <3> QED  BY <1>1, <1>4, <3>1 DEF Awaited, CountedFor, Working, WaitsFor
  <2>2. e.ref[m] = d.ref[m] - Cardinality(WaitsFor(d, m) \cap T)
    <3>1. PICK S : S = CountedFor(project, a, T)
      OBVIOUS
    <3>2. e.ref[m] = d.ref[m] - Cardinality(Awaited(d, S, m))
      BY <1>1, <3>1 DEF CountedDown
    <3> QED  BY <2>1, <3>1, <3>2
  <2>3. d.ref[m] = Cardinality(WaitsFor(d, m)) /\ WaitsFor(d, m) \in SUBSET Node
    BY DEF Remembers, WaitsFor
  <2>4. /\ Cardinality(WaitsFor(d, m) \ T) = Cardinality(WaitsFor(d, m)) - Cardinality(WaitsFor(d, m) \cap T)
        /\ Cardinality(WaitsFor(d, m)) = 0 <=> WaitsFor(d, m) = {}
    BY <1>1, <2>3, CountsAdd
  <2>5. WaitsFor(d, m) \ T \in SUBSET Node
    BY <2>3
  <2>6. Cardinality(WaitsFor(d, m) \ T) = 0 <=> WaitsFor(d, m) \ T = {}
    BY <1>1, <2>5, CountsAdd
  <2> QED  BY <1>5, <2>2, <2>3, <2>4, <2>6
<1>7. ASSUME NEW c \in Node, e.wp[c] # {}
      PROVE  Cared(project, e, V, c)
  <2>1. c \notin T /\ d.wp[c] # {} /\ c \notin E
    BY <1>1, <1>4, <1>7
  <2>2. Cared(project, d, U, c)
    BY <2>1 DEF Remembers
  <2> QED  BY <1>1, <1>2, <1>3, <2>1, <2>2 DEF Cared
<1>8. ASSUME NEW m \in Node, e.state[m] = "pending"
      PROVE  \/ m \in ToSet(e.cand)
             \/ WaitsFor(e, m) # {}
             \/ \E s \in E : m \in e.wse[s] /\ e.state[s] = "executing"
  <2>1. d.state[m] = "pending" /\ m # n
    BY <1>1, <1>8
  <2>2. \/ m \in ToSet(d.cand)
        \/ WaitsFor(d, m) # {}
        \/ \E s \in E : m \in d.wse[s] /\ d.state[s] = "executing"
    BY <1>4, <2>1 DEF Remembers
  <2>3. CASE m \in ToSet(d.cand)
    BY <1>2, <2>3
  <2>4. ASSUME WaitsFor(d, m) # {}, WaitsFor(e, m) = {}
        PROVE  m \in ToSet(e.cand)
    <3>1. PICK c \in Node : m \in d.wp[c] /\ c \in T
      BY <1>5, <2>4 DEF WaitsFor
    <3>2. e.ref[m] = 0
      BY <1>6, <2>4
    <3> QED  BY <1>2, <3>1, <3>2
  <2>5. ASSUME NEW s \in E, m \in d.wse[s], d.state[s] = "executing", WaitsFor(d, m) = {}
        PROVE  m \in ToSet(e.cand) \/ (m \in e.wse[s] /\ e.state[s] = "executing")
    <3>1. CASE e.state[s] = d.state[s]
      BY <1>1, <2>5, <3>1
    <3>2. CASE s \in Effects(project, T)
      <4>1. d.ref[m] = 0
        BY <1>6, <2>5
      <4> QED  BY <1>2, <2>5, <3>2, <4>1
    <3> QED  BY <1>1, <3>1, <3>2
  <2> QED  BY <2>2, <2>3, <2>4, <2>5
<1>9. ASSUME NEW c \in Node \ E, e.state[c] = "executing"
      PROVE  c \in Covered(project, V)
  <2>1. c \notin T
    BY <1>1, <1>9
  <2>2. d.state[c] = "executing"
    BY <1>1, <1>9, <2>1
  <2> QED  BY <1>3, <1>4, <1>9, <2>1, <2>2 DEF Remembers
<1>10. ASSUME NEW m \in Node
       PROVE  e.state[m] # "failed"
  <2>1. d.state[m] # "failed"
    BY DEF Remembers
  <2> QED  BY <1>1, <2>1
<1>11. \A s \in E : e.wp[s] = {}
  BY <1>1, <1>4
<1>12. \A m \in Node : e.ref[m] = Cardinality(WaitsFor(e, m))
  BY <1>6
<1>13. Remembers(project, e, V, y)
  BY <1>1, <1>4, <1>7, <1>8, <1>9, <1>10, <1>11, <1>12 DEF Remembers
<1> QED  BY <1>13 DEF V

\* The walk goes on, and no failure was noted yet or passed over.
Walking == ~Swallowing /\ ~dag.stopped /\ broken = {}

\* The nodes whose tasks are not over, and those of them whose target -q has
\* looked at.
AtHand   == {task} \ {NoTask}
Brought  == {r.node : r \in ToSet(resultsQ)}
UnderWay == Running \cup ToSet(requestQ) \cup Brought \cup AtHand
Answered == Running \cup Brought \cup (IF pc \in {"executed", "failed"} THEN AtHand ELSE {})

\* The states of the targets of a task, until it is over and after that.
Entering == {"executing", "up_to_date", "executed"}
Settled ==
    Walking =>
      /\ raised => pc = "prepare" /\ options.class = "build" /\ Policy # "ignore"
      /\ \A n \in UnderWay : /\ n \in Node \ AllEffects
                             /\ (raised /\ n = task) \/ Agree(dag, Targets(project, n), Entering)
      /\ options.class = "question" => \A n \in Answered : Agree(dag, Targets(project, n), {"up_to_date"})
Remembered == Walking => Remembers(project, dag, UnderWay, task)

LEMMA RemembersMore ==
  ASSUME NEW p, NEW d, NEW U, NEW V, U \subseteq V, NEW x, Remembers(p, d, U, x)
  PROVE  Remembers(p, d, V, x)
<1>1. Covered(p, U) \subseteq Covered(p, V)
  BY DEF Covered
<1> QED  BY <1>1 DEF Remembers, Cared

LEMMA RemembersOther ==
  ASSUME NEW p, NEW d, NEW U, NEW x, NEW y, Remembers(p, d, U, x), x \in Node => d.state[x] # "pending"
  PROVE  Remembers(p, d, U, y)
<1>1. ASSUME NEW m \in Node, d.state[m] = "pending"
      PROVE  \/ m \in ToSet(d.cand) \cup {y}
             \/ WaitsFor(d, m) # {}
             \/ \E s \in Effects(p, Node) : m \in d.wse[s] /\ d.state[s] = "executing"
  <2>1. m # x
    BY <1>1
  <2>2. \/ m \in ToSet(d.cand) \cup {x}
        \/ WaitsFor(d, m) # {}
        \/ \E s \in Effects(p, Node) : m \in d.wse[s] /\ d.state[s] = "executing"
    BY <1>1 DEF Remembers
  <2> QED  BY <2>1, <2>2
<1> QED  BY <1>1 DEF Remembers

\* Two nodes share all their targets or none, and what is built is not written
\* on the side.
LEMMA TargetsApart ==
  ASSUME Sane(project), PlainFiles(project), NEW m \in Node \ AllEffects, NEW n \in Node
  PROVE  /\ Targets(project, m) \cap AllEffects = {} /\ Targets(project, m) \subseteq Node
         /\ Targets(project, m) = Targets(project, n) \/ Targets(project, m) \cap Targets(project, n) = {}
<1>1. ASSUME NEW t \in Targets(project, m), t \in Targets(project, n)
      PROVE  Targets(project, m) = Targets(project, n)
  <2>1. project.targets[t] = project.targets[m] /\ project.targets[t] = project.targets[n]
    BY <1>1 DEF Sane
  <2> QED  BY <2>1 DEF Targets
<1>2. m \notin project.builder => Targets(project, m) = {m}
  BY DEF PlainFiles
<1>3. m \in project.builder => Targets(project, m) \subseteq project.builder
  BY DEF Sane
<1>4. AllEffects \subseteq Node \ project.builder
  BY EffectsPlain DEF AllEffects
<1> QED  BY <1>1, <1>2, <1>3, <1>4, TargetsAreNodes

\* A look at a node that is not handled leaves the targets of others alone.
LEMMA OthersAgree ==
  ASSUME Sane(project), PlainFiles(project), NEW d, NEW e, NEW n \in Node, d.state[n] \notin Handled,
         OthersAs(d, e, n), NEW m \in Node \ AllEffects, NEW S, S \subseteq Entering,
         Agree(d, Targets(project, m), S)
  PROVE  Agree(e, Targets(project, m), S)
<1>1. PICK st \in S : \A t \in Targets(project, m) : d.state[t] = st
  BY DEF Agree
<1>2. n \in Targets(project, n)
  BY DEF Sane
<1>3. st \in Handled
  BY DEF Entering, Handled, NodeState
<1>4. Targets(project, m) \cap Targets(project, n) = {}
  BY <1>1, <1>2, <1>3, TargetsApart
<1>5. \A t \in Targets(project, m) : e.state[t] = d.state[t]
  BY <1>4, TargetsApart DEF OthersAs
<1> QED  BY <1>1, <1>5 DEF Agree

\* The end of a task n that is no failure, or an ignored one.
LEMMA EndsConcluded ==
  ASSUME Types, Walking, broken' = {}, NEW n \in Node, Complete(n) \/ Fail(n),
         Agree(dag, Targets(project, n), Entering),
         options.class = "question" => Agree(dag, Targets(project, n), {"up_to_date"})
  PROVE  \E a : /\ Concluded(project, dag, a, Targets(project, n))
                /\ dag' \in Postprocessed(project, a, Targets(project, n))
                /\ options.class = "question" => a = dag
<1> DEFINE T == Targets(project, n)
<1>1. T # {}
  BY ProjectSane DEF Sane
<1> HIDE DEF T
<1>2. CASE Fail(n)
  <2>1. Policy = "ignore"
    BY <1>1, <1>2 DEF Fail, T
  <2>2. options.class = "build"
    BY <2>1 DEF Policy
  <2>3. dag' \in Postprocessed(project, Executed(project, dag, T), T)
    BY <1>2, <2>1 DEF Fail, T
  <2> QED  BY <2>2, <2>3 DEF Concluded, Entering, T
<1>3. CASE Complete(n) /\ ~Fail(n)
  <2> DEFINE after == CASE options.class = "build"    -> Executed(project, dag, T)
                        [] options.class = "clean"    -> Released(project, dag, T)
                        [] options.class = "question" -> dag
  <2>1. dag' \in Postprocessed(project, after, T)
    BY <1>3 DEF Complete, T
  <2>2. options.class \in {"build", "question", "clean"}
    BY PolicyRange
  <2>3. \/ options.class = "build" /\ after = Executed(project, dag, T)
        \/ options.class = "clean" /\ after = Released(project, dag, T)
        \/ options.class = "question" /\ after = dag
    BY <2>2
  <2> HIDE DEF after
  <2>4. Concluded(project, dag, after, T)
    BY <2>3 DEF Concluded, Entering, T
  <2>5. options.class = "question" => after = dag
    BY <2>3
  <2> QED  BY <2>1, <2>4, <2>5 DEF T
<1> QED  BY <1>2, <1>3

LEMMA EndsRemembers ==
  ASSUME Types, Tracked(dag), UnusedEffects, Walking, broken' = {}, NEW n \in Node \ AllEffects,
         Complete(n) \/ Fail(n), Agree(dag, Targets(project, n), Entering),
         options.class = "question" => Agree(dag, Targets(project, n), {"up_to_date"}),
         NEW U, NEW x, x = n \/ x \notin Node, Remembers(project, dag, U, x), NEW y
  PROVE  /\ Remembers(project, dag', U \ {n}, y)
         /\ \A m \in Node \ AllEffects : \A S \in {Entering, {"up_to_date"}} :
              Agree(dag, Targets(project, m), S) => Agree(dag', Targets(project, m), S)
<1>1. PICK a : Concluded(project, dag, a, Targets(project, n)) /\ dag' \in Postprocessed(project, a, Targets(project, n))
  BY EndsConcluded
<1>2. Sane(project) /\ IsWalk(dag) /\ PlainFiles(project)
  BY ProjectSane DEF Types, UnusedEffects
<1>3. PICK e : e = dag'
  OBVIOUS
<1>4. e \in Postprocessed(project, a, Targets(project, n))
  BY <1>1, <1>3
<1>5. Remembers(project, e, U \ {n}, y)
  BY <1>1, <1>2, <1>4, ConcludedRemembers
<1>6. Clear(dag, AllEffects)
  BY DEF Remembers, AllEffects
<1>7. /\ \A c \in Targets(project, n) : e.state[c] = IF dag.state[c] = "executing" THEN "executed" ELSE dag.state[c]
      /\ \A c \in Node : c \notin Targets(project, n) /\ c \notin AllEffects => e.state[c] = dag.state[c]
  BY <1>1, <1>2, <1>4, <1>6, ConcludedFields
<1>8. ASSUME NEW m \in Node \ AllEffects, NEW S \in {Entering, {"up_to_date"}}, Agree(dag, Targets(project, m), S)
      PROVE  Agree(e, Targets(project, m), S)
  <2>1. PICK st \in S : \A t \in Targets(project, m) : dag.state[t] = st
    BY <1>8 DEF Agree
  <2>2. CASE Targets(project, m) = Targets(project, n)
    <3>1. PICK new : new = IF st = "executing" THEN "executed" ELSE st
      OBVIOUS
    <3>2. new \in S
      BY <3>1 DEF Entering
    <3>3. \A t \in Targets(project, m) : e.state[t] = new
      BY <1>7, <2>1, <2>2, <3>1
    <3> QED  BY <3>2, <3>3 DEF Agree
  <2>3. CASE Targets(project, m) \cap Targets(project, n) = {}
    <3>1. \A t \in Targets(project, m) : e.state[t] = dag.state[t]
      BY <1>2, <1>7, <2>3, TargetsApart
    <3> QED  BY <2>1, <3>1 DEF Agree
  <2> QED  BY <1>2, <2>2, <2>3, TargetsApart
<1> QED  BY <1>3, <1>5, <1>8

LEMMA TailSet ==
  ASSUME NEW S, NEW q \in Seq(S), q # <<>>
  PROVE  ToSet(q) = {Head(q)} \cup ToSet(Tail(q)) /\ Head(q) \in S /\ Tail(q) \in Seq(S)
<1>1. Head(q) = q[1] /\ 1 \in DOMAIN q /\ Tail(q) \in Seq(S) /\ Head(q) \in S
  OBVIOUS
<1>2. \A i \in DOMAIN Tail(q) : i + 1 \in DOMAIN q /\ Tail(q)[i] = q[i + 1]
  OBVIOUS
<1>3. \A i \in DOMAIN q : i # 1 => i - 1 \in DOMAIN Tail(q) /\ Tail(q)[i - 1] = q[i]
  OBVIOUS
<1>4. ToSet(q) \subseteq {Head(q)} \cup ToSet(Tail(q))
  BY <1>1, <1>3 DEF ToSet
<1>5. {Head(q)} \cup ToSet(Tail(q)) \subseteq ToSet(q)
  BY <1>1, <1>2 DEF ToSet
<1> QED  BY <1>1, <1>4, <1>5

LEMMA AppendSet ==
  ASSUME NEW S, NEW q \in Seq(S), NEW x \in S
  PROVE  ToSet(Append(q, x)) = ToSet(q) \cup {x}
<1>1. /\ DOMAIN Append(q, x) = DOMAIN q \cup {Len(q) + 1} /\ Append(q, x)[Len(q) + 1] = x
      /\ \A i \in DOMAIN q : Append(q, x)[i] = q[i]
  OBVIOUS
<1> HIDE DEF ToSet
<1>2. ToSet(Append(q, x)) \subseteq ToSet(q) \cup {x}
  BY <1>1 DEF ToSet
<1>3. ToSet(q) \cup {x} \subseteq ToSet(Append(q, x))
  BY <1>1 DEF ToSet
<1> QED  BY <1>2, <1>3

\* What is to be shown of a step.
LEMMA Settle ==
  ASSUME UNCHANGED <<project, options>>,
         Walking' =>
           /\ raised' => pc' = "prepare" /\ options.class = "build" /\ Policy # "ignore"
           /\ \A n \in UnderWay' : /\ n \in Node \ AllEffects
                                   /\ (raised' /\ n = task') \/ Agree(dag', Targets(project, n), Entering)
           /\ options.class = "question" => \A n \in Answered' : Agree(dag', Targets(project, n), {"up_to_date"})
           /\ Remembers(project, dag', UnderWay', task')
  PROVE  Settled' /\ Remembered'
<1>1. AllEffects' = AllEffects /\ Policy' = Policy
  BY DEF AllEffects, Effects, Policy
<1>2. Settled'
  <2> SUFFICES ASSUME Walking'
               PROVE  /\ raised' => pc' = "prepare" /\ options'.class = "build" /\ Policy' # "ignore"
                      /\ \A n \in UnderWay' : /\ n \in Node \ AllEffects'
                                              /\ (raised' /\ n = task') \/ Agree(dag', Targets(project', n), Entering)
                      /\ options'.class = "question" => \A n \in Answered' : Agree(dag', Targets(project', n), {"up_to_date"})
    BY DEF Settled, Entering
  <2>1. project' = project /\ options' = options
    OBVIOUS
  <2> QED  BY <1>1, <2>1
<1>3. Remembered'
  <2> SUFFICES ASSUME Walking' PROVE Remembers(project', dag', UnderWay', task')
    BY DEF Remembered
  <2>1. project' = project
    OBVIOUS
  <2> QED  BY <2>1
<1> QED  BY <1>2, <1>3

\* The targets that -q did not look at yet.
Unanswered == ToSet(requestQ) \cup (IF pc = "prepare" THEN AtHand ELSE {})

\* A step that leaves the walk and the tasks under way alone.
Staying ==
    /\ UNCHANGED dag /\ UnderWay' = UnderWay /\ (task' = task \/ task' \notin Node)
    /\ UNCHANGED <<pc, task, raised>> \/ (~raised /\ ~raised')
    /\ options.class = "question" =>
          /\ \A n \in Answered' : n \in Answered \/ Agree(dag, Targets(project, n), {"up_to_date"})
          /\ \A n \in Unanswered : n \in Unanswered' \/ ~(n \in Top /\ Absent(n))

LEMMA StillSettled ==
  ASSUME Types, Settled, Remembered, Walking, UNCHANGED <<project, options>>, Staying
  PROVE  Settled' /\ Remembered'
<1>1. /\ raised => pc = "prepare" /\ options.class = "build" /\ Policy # "ignore"
      /\ \A n \in UnderWay : /\ n \in Node \ AllEffects
                             /\ (raised /\ n = task) \/ Agree(dag, Targets(project, n), Entering)
      /\ options.class = "question" => \A n \in Answered : Agree(dag, Targets(project, n), {"up_to_date"})
      /\ Remembers(project, dag, UnderWay, task)
  BY DEF Settled, Remembered
<1>2. /\ raised' => pc' = "prepare" /\ options.class = "build" /\ Policy # "ignore"
      /\ \A n \in UnderWay' : /\ n \in Node \ AllEffects
                              /\ (raised' /\ n = task') \/ Agree(dag', Targets(project, n), Entering)
  BY <1>1 DEF Staying
<1>3. options.class = "question" => \A n \in Answered' : Agree(dag', Targets(project, n), {"up_to_date"})
  BY <1>1 DEF Staying
<1>4. Remembers(project, dag, UnderWay, task')
  <2>1. CASE task' = task
    BY <1>1, <2>1
  <2>2. CASE task' # task /\ task \notin Node
    BY <1>1, <2>2, RemembersOther
  <2>3. CASE task' # task /\ task \in Node
    <3>1. task \in UnderWay /\ ~raised
      BY <2>3, TaskNode DEF UnderWay, AtHand, Staying
    <3>2. Agree(dag, Targets(project, task), Entering)
      BY <1>1, <3>1
    <3>3. dag.state[task] # "pending"
      BY <2>3, <3>2, ProjectSane DEF Agree, Entering, Sane
    <3> QED  BY <1>1, <3>3, RemembersOther
  <2> QED  BY <2>1, <2>2, <2>3 DEF Staying
<1>5. Remembers(project, dag', UnderWay', task')
  BY <1>4 DEF Staying
<1> QED  BY <1>2, <1>3, <1>5, Settle

\* A look at a candidate n.
LEMMA LookedSettled ==
  ASSUME Types, UnusedEffects, Settled, Walking, pc = "look",
         UNCHANGED <<project, options, requestQ, resultsQ, worker>>,
         NEW n \in Node \ AllEffects, dag.state[n] \notin Handled, OthersAs(dag, dag', n),
         \/ pc' = "next" /\ UNCHANGED <<task, raised>> /\ Remembers(project, dag', UnderWay, task)
         \/ /\ pc' = "prepare" /\ task' = n /\ Remembers(project, dag', UnderWay \cup {n}, n)
            /\ raised' \/ Agree(dag', Targets(project, n), Begins)
            /\ raised' => options.class = "build" /\ Policy # "ignore"
  PROVE  Settled' /\ Remembered'
<1>1. /\ ~raised
      /\ \A m \in UnderWay : m \in Node \ AllEffects /\ Agree(dag, Targets(project, m), Entering)
      /\ options.class = "question" => \A m \in Answered : Agree(dag, Targets(project, m), {"up_to_date"})
  BY DEF Settled
<1>2. task \notin Node /\ AtHand = {}
  BY DEF Types, AtHand
<1>3. Sane(project) /\ PlainFiles(project) /\ Answered \subseteq UnderWay
  BY ProjectSane DEF UnusedEffects, Answered, UnderWay
<1>4. /\ \A m \in UnderWay : m \in Node \ AllEffects /\ Agree(dag', Targets(project, m), Entering)
      /\ options.class = "question" => \A m \in Answered : Agree(dag', Targets(project, m), {"up_to_date"})
  <2>1. {"up_to_date"} \subseteq Entering
    BY DEF Entering
  <2>2. PICK e : e = dag'
    OBVIOUS
  <2>3. \A m \in Node \ AllEffects : \A S : S \subseteq Entering /\ Agree(dag, Targets(project, m), S) => Agree(e, Targets(project, m), S)
    BY <1>3, <2>2, OthersAgree
  <2> QED  BY <1>1, <1>3, <2>1, <2>2, <2>3
<1>5. Running' = Running /\ Brought' = Brought
  BY DEF Running, Brought
<1>6. CASE pc' = "next" /\ UNCHANGED <<task, raised>> /\ Remembers(project, dag', UnderWay, task)
  <2>1. UnderWay' = UnderWay /\ Answered' = Answered
    BY <1>5, <1>6 DEF UnderWay, Answered, AtHand
  <2> QED  BY <1>1, <1>4, <1>6, <2>1, Settle
<1>7. CASE /\ pc' = "prepare" /\ task' = n /\ Remembers(project, dag', UnderWay \cup {n}, n)
           /\ raised' \/ Agree(dag', Targets(project, n), Begins)
           /\ raised' => options.class = "build" /\ Policy # "ignore"
  <2>1. UnderWay' = UnderWay \cup {n} /\ Answered' \subseteq Answered
    BY <1>2, <1>5, <1>7, TaskNode DEF UnderWay, Answered, AtHand
  <2>2. Agree(dag', Targets(project, n), Begins) => Agree(dag', Targets(project, n), Entering)
    BY DEF Agree, Begins, Entering
  <2> QED  BY <1>1, <1>4, <1>7, <2>1, <2>2, Settle
<1> QED  BY <1>6, <1>7

\* The task of n ends: the main thread's, or one that a worker has delivered.
Ending(n) ==
    /\ n \in UnderWay /\ (Complete(n) \/ Fail(n)) /\ (options.class = "question" => n \in Answered)
    /\ ~raised /\ ~raised' /\ (task = n \/ task \notin Node) /\ pc' \in {"next", "wait"}
    /\ requestQ' = requestQ /\ (options.class = "question" => pc # "prepare")
    /\ UnderWay \ {n} \subseteq UnderWay' /\ UnderWay' \subseteq UnderWay /\ Answered' \subseteq Answered

LEMMA EndsSettled ==
  ASSUME Types, Tracked(dag), UnusedEffects, Settled, Remembered, Walking, UNCHANGED <<project, options>>,
         NEW n, Ending(n)
  PROVE  Settled' /\ Remembered'
<1> SUFFICES ASSUME Walking' PROVE Settled' /\ Remembered'
  BY DEF Settled, Remembered
<1>1. /\ \A m \in UnderWay : m \in Node \ AllEffects /\ ((raised /\ m = task) \/ Agree(dag, Targets(project, m), Entering))
      /\ options.class = "question" => \A m \in Answered : Agree(dag, Targets(project, m), {"up_to_date"})
      /\ Remembers(project, dag, UnderWay, task) /\ broken' = {}
  BY DEF Settled, Remembered, Walking
<1>2. \A m \in UnderWay : Agree(dag, Targets(project, m), Entering)
  BY <1>1 DEF Ending
<1>3. /\ Remembers(project, dag', UnderWay \ {n}, task')
      /\ \A m \in Node \ AllEffects : \A S \in {Entering, {"up_to_date"}} :
           Agree(dag, Targets(project, m), S) => Agree(dag', Targets(project, m), S)
  BY <1>1, <1>2, EndsRemembers DEF Ending
<1>4. Remembers(project, dag', UnderWay', task')
  BY <1>3, RemembersMore DEF Ending
<1>5. Answered \subseteq UnderWay
  BY DEF Answered, UnderWay
<1> QED  BY <1>1, <1>2, <1>3, <1>4, <1>5, Settle DEF Ending

InterruptStops == interrupted => dag.stopped

LEMMA WalkingBefore ==
  ASSUME Types, Entered, [Next]_vars
  PROVE  /\ UNCHANGED <<project, options>> /\ (Walking' => Walking) /\ (InterruptStops => InterruptStops')
<1>1. UNCHANGED <<project, options>> /\ (dag.stopped => dag'.stopped)
  BY StepOnward DEF Onward, Later
<1>2. broken \subseteq broken'
  <2>1. ASSUME NEW n, Complete(n) \/ Fail(n) PROVE broken \subseteq broken'
    BY <2>1 DEF Complete, Fail
  <2>2. PrepareFails \/ SkipCurrent \/ ConcludeSerially \/ GetResult => broken \subseteq broken'
    BY <2>1 DEF PrepareFails, SkipCurrent, ConcludeSerially, GetResult
  <2>3. CASE Examine
    BY <2>3, ExamineLooks DEF ended
  <2> QED  BY <2>2, <2>3 DEF Next, MainStep, WorkerStep, Over, vars, ended, TakeCandidate, SkipHandled, ScanRaises, Hand, NoTaskLeft,
                   Dispatch, ExecuteSerially, Take, Deliver, Quit, PostSentinels, Cleanup, Signal
<1>3. interrupted' = interrupted \/ Signal
  <2>1. CASE Examine
    BY <2>1, ExamineLooks DEF ended
  <2> QED  BY <2>1 DEF Next, MainStep, WorkerStep, Over, vars, ended, TakeCandidate, SkipHandled, ScanRaises, Hand, NoTaskLeft,
                   PrepareFails, SkipCurrent, ConcludeSerially, GetResult,
                   Dispatch, ExecuteSerially, Take, Deliver, Quit, PostSentinels, Cleanup
<1>4. Signal => dag'.stopped
  BY StoppedFields DEF Signal, Types
<1>5. Swallowing' = Swallowing
  BY <1>1 DEF Swallowing, Policy
<1> QED  BY <1>1, <1>2, <1>3, <1>4, <1>5 DEF Walking, InterruptStops

LEMMA SkippedSettled ==
  ASSUME Types, Settled, Remembered, Walking, UnusedEffects, SkipHandled
  PROVE  Settled' /\ Remembered'
<1>1. /\ IsWalk(dag) /\ HasCandidate(dag) /\ pc = "look" /\ pc' = "next" /\ task \notin Node /\ Sane(project)
      /\ dag.state[Candidate(dag)] \in Handled /\ UNCHANGED <<project, options, task, raised, requestQ, resultsQ, worker>>
  BY ProjectSane DEF SkipHandled, Candidates, Types, pool
<1>2. PICK e : e = dag' /\ e = WithoutCandidate(dag)
  BY DEF SkipHandled
<1>3. Remembers(project, dag, UnderWay, task)
  BY DEF Remembered
<1>4. Remembers(project, WithoutCandidate(dag), UnderWay, task)
  BY <1>1, <1>3, TakenRemembers
<1>5. e.state = dag.state
  BY <1>1, <1>2, WithoutCandidateFields
<1>6. UnderWay' = UnderWay /\ Answered' = Answered
  BY <1>1 DEF UnderWay, Answered, Running, Brought, AtHand
<1>7. \A T, S : Agree(e, T, S) = Agree(dag, T, S)
  BY <1>5 DEF Agree
<1>8. /\ raised => pc = "prepare" /\ options.class = "build" /\ Policy # "ignore"
      /\ \A n \in UnderWay : /\ n \in Node \ AllEffects
                             /\ (raised /\ n = task) \/ Agree(e, Targets(project, n), Entering)
      /\ options.class = "question" => \A n \in Answered : Agree(e, Targets(project, n), {"up_to_date"})
  BY <1>7 DEF Settled
<1> QED  BY <1>1, <1>2, <1>4, <1>6, <1>8, Settle

LEMMA ExaminedSettled ==
  ASSUME Types, Entered, Tracked(dag), Settled, Remembered, Walking, UnusedEffects, Examine
  PROVE  Settled' /\ Remembered'
<1>1. /\ pc = "look" /\ task = NoTask /\ UNCHANGED <<project, options, requestQ, resultsQ, worker>>
  BY ExamineLooks DEF Examine, Candidates, Types, pool
<1>2. Remembers(project, dag, UnderWay, NoTask)
  BY <1>1 DEF Remembered
<1>3. raised' => CannotTell \/ (pc' = "next" /\ UNCHANGED <<task, raised>>)
  <2>1. PICK fresh :
          \E order \in PushOrders(Seen(Candidate(dag), fresh), Children(project, Seen(Candidate(dag), fresh), Candidate(dag))) :
              Looks(Candidate(dag), Seen(Candidate(dag), fresh),
                    Children(project, Seen(Candidate(dag), fresh), Candidate(dag)), order)
    BY ExamineLooks
  <2> QED  BY <2>1 DEF Looks
<1>4. CannotTell => options.class = "build" /\ Policy # "ignore"
  BY DEF CannotTell, Walking, Swallowing
<1>5. PICK n : n = Candidate(dag)
  OBVIOUS
<1>6. /\ n \in Node \ AllEffects /\ dag.state[n] \notin Handled
      /\ OthersAs(dag, dag', n)
      /\ \/ pc' = "next" /\ UNCHANGED <<task, raised>> /\ Remembers(project, dag', UnderWay, NoTask)
         \/ /\ pc' = "prepare" /\ task' = n /\ Remembers(project, dag', UnderWay \cup {n}, n)
            /\ \/ raised'
               \/ Agree(dag', Targets(project, n), Begins)
  BY <1>2, <1>5, ExamineRemembers
<1> QED  BY <1>1, <1>3, <1>4, <1>6, LookedSettled

LEMMA RaisedSettled ==
  ASSUME Types, Entered, Settled, Remembered, Walking, UnusedEffects, ScanRaises
  PROVE  Settled' /\ Remembered'
<1>1. /\ pc = "look" /\ task = NoTask /\ HasCandidate(dag) /\ IsWalk(dag) /\ Sane(project) /\ PlainFiles(project)
  BY ProjectSane DEF ScanRaises, Candidates, Types, UnusedEffects
<1>2. Remembers(project, dag, UnderWay, NoTask)
  BY <1>1 DEF Remembered
<1>3. PICK n \in Node :
         /\ n = Candidate(dag) /\ dag.state[n] \notin Handled /\ "scan" \in options.faults
         /\ UNCHANGED <<project, options, pool, ended>> /\ pc' = "prepare" /\ task' = n /\ raised' = TRUE
         /\ dag' \in Ready(project, Begin(n), n) \/ (CannotTell /\ dag' = Begin(n))
  BY ScanRaisesLooks
<1>4. options.class = "build" /\ Policy # "ignore"
  BY <1>3 DEF Walking, Swallowing
<1>5. PICK b : b = Begin(n)
  OBVIOUS
<1>6. /\ IsWalk(b)
      /\ b.state = [dag.state EXCEPT ![n] = IF dag.state[n] = "no_state" THEN "pending" ELSE dag.state[n]]
  <2>1. Candidates
    BY DEF ScanRaises
  <2> QED  BY <1>3, <1>5, <2>1, BeginFields
<1>7. n \notin AllEffects /\ Remembers(project, b, UnderWay, n)
  BY <1>1, <1>2, <1>3, <1>5, TaskNode, TakenRemembers DEF Begin, AllEffects
<1>8. n \in Targets(project, n)
  BY <1>1 DEF Sane
<1>9. PICK e : e = dag'
  OBVIOUS
<1>10. OthersAs(b, e, n) /\ Remembers(project, e, UnderWay \cup {n}, n)
  <2>1. CASE e \in Ready(project, b, n)
    BY <1>1, <1>6, <1>7, <2>1, ReadyRemembers
  <2>2. CASE e = b
    BY <1>7, <2>2, RemembersMore DEF OthersAs
  <2> QED  BY <1>3, <1>5, <1>9, <2>1, <2>2
<1>11. OthersAs(dag, e, n)
  <2>1. \A m \in Node : m \notin Targets(project, n) => b.state[m] = dag.state[m]
    BY <1>1, <1>6, <1>8 DEF IsWalk
  <2> QED  BY <1>10, <2>1 DEF OthersAs
<1>12. OthersAs(dag, dag', n) /\ Remembers(project, dag', UnderWay \cup {n}, n)
  BY <1>9, <1>10, <1>11
<1> QED  BY <1>1, <1>3, <1>4, <1>7, <1>12, LookedSettled DEF pool

\* -q looked at a target and does not stop: it is up to date.
LEMMA ExecuteAnswers ==
  ASSUME Types, NEW n \in Node, Execute(n), ~dag'.stopped
  PROVE  /\ UNCHANGED dag
         /\ options.class = "question" =>
              /\ Agree(dag, Targets(project, n), Entering) => Agree(dag, Targets(project, n), {"up_to_date"})
              /\ ~(n \in Top /\ Absent(n))
<1>1. CASE options.class = "question"
  <2>1. ~NotCurrent(n) /\ UNCHANGED dag
    BY <1>1, StoppedFields DEF Execute, Types
  <2>2. dag.state[Head(project.targets[n])] = "up_to_date" /\ ~(n \in Top /\ Absent(n))
    BY <2>1 DEF NotCurrent
  <2>3. Head(project.targets[n]) \in Targets(project, n)
    <3>1. project.targets[n] \in Seq(Node) /\ n \in Targets(project, n)
      BY ProjectSane DEF Sane
    <3>2. project.targets[n] # <<>>
      BY <3>1 DEF Targets, ToSet
    <3> QED  BY <3>1, <3>2, TailSet DEF Targets
  <2> QED  BY <2>1, <2>2, <2>3 DEF Agree
<1>2. CASE options.class # "question"
  BY <1>2 DEF Execute
<1> QED  BY <1>1, <1>2

LEMMA WorkersStay ==
  ASSUME Types, Settled, Walking, Walking', InterruptStops, NEW w \in Worker, WorkerStep(w)
  PROVE  Staying
<1>1. CASE Take(w)
  <2>1. /\ worker[w] = Idle /\ requestQ # <<>> /\ requestQ' = Tail(requestQ)
        /\ worker' = [worker EXCEPT ![w] = Run(Head(requestQ), interrupted)]
        /\ UNCHANGED <<pc, task, raised, resultsQ>>
    BY <1>1 DEF Take
  <2>2. PICK h \in Node : h = Head(requestQ)
    BY <2>1 DEF Types
  <2>3. ToSet(requestQ) = {h} \cup ToSet(requestQ') /\ h \in ToSet(requestQ)
    BY <2>1, <2>2, TailSet DEF Types
  <2>4. Running' = Running \cup {h}
    <3>1. worker'[w].does = "run" /\ worker'[w].node = h
      BY <2>1, <2>2 DEF Types, Run
    <3>2. worker[w].does # "run"
      BY <2>1 DEF Idle
    <3>3. \A v \in Worker \ {w} : worker'[v] = worker[v]
      BY <2>1 DEF Types
    <3> QED  BY <3>1, <3>2, <3>3 DEF Running
  <2>5. Brought' = Brought /\ AtHand' = AtHand
    BY <2>1 DEF Brought, AtHand
  <2>6. UnderWay' = UnderWay /\ h \in UnderWay
    BY <2>3, <2>4, <2>5 DEF UnderWay
  <2>7. ~interrupted /\ Execute(h) /\ ~dag'.stopped
    <3>1. ~dag'.stopped /\ ~dag.stopped
      BY DEF Walking
    <3> QED  BY <1>1, <2>2, <3>1 DEF Take, InterruptStops
  <2>8. /\ UNCHANGED dag
        /\ options.class = "question" =>
             /\ Agree(dag, Targets(project, h), Entering) => Agree(dag, Targets(project, h), {"up_to_date"})
             /\ ~(h \in Top /\ Absent(h))
    BY <2>7, ExecuteAnswers
  <2>9. options.class = "question" => Agree(dag, Targets(project, h), {"up_to_date"})
    BY <2>6, <2>8 DEF Settled
  <2>10. Answered' \subseteq Answered \cup {h} /\ Unanswered \subseteq Unanswered' \cup {h}
    BY <2>1, <2>3, <2>4, <2>5 DEF Answered, Unanswered
  <2> QED  BY <2>1, <2>6, <2>8, <2>9, <2>10 DEF Staying
<1>2. CASE Deliver(w)
  <2>1. /\ worker[w].does = "run" /\ worker' = [worker EXCEPT ![w] = Idle]
        /\ UNCHANGED <<dag, pc, task, raised, requestQ>>
    BY <1>2 DEF Deliver, walk
  <2>2. PICK ok \in BOOLEAN : resultsQ' = Append(resultsQ, [node |-> worker[w].node, ok |-> ok])
    BY <1>2 DEF Deliver
  <2>3. PICK n \in Node : n = worker[w].node
    BY <2>1 DEF Types
  <2>4. PICK r : r = [node |-> n, ok |-> ok]
    OBVIOUS
  <2>5. ToSet(resultsQ') = ToSet(resultsQ) \cup {r}
    <3>1. r \in Result
      BY <2>4 DEF Result
    <3> QED  BY <2>2, <2>3, <2>4, <3>1, AppendSet DEF Types
  <2>6. Brought' = Brought \cup {n}
    <3>1. r.node = n
      BY <2>4
    <3> QED  BY <2>5, <3>1 DEF Brought
  <2>7. Running \cup {n} = Running' \cup {n} /\ n \in Running /\ Running' \subseteq Running
    <3>1. worker'[w].does # "run" /\ \A v \in Worker \ {w} : worker'[v] = worker[v]
      BY <2>1 DEF Types, Idle
    <3> QED  BY <2>1, <2>3, <3>1 DEF Running
  <2>8. UnderWay' = UnderWay /\ Answered' \subseteq Answered /\ Unanswered' = Unanswered
    BY <2>1, <2>6, <2>7 DEF UnderWay, Answered, AtHand, Unanswered
  <2> QED  BY <2>1, <2>8 DEF Staying
<1>3. CASE Quit(w)
  <2>1. /\ worker[w] = Idle /\ worker' = [worker EXCEPT ![w].does = "quit"]
        /\ UNCHANGED <<dag, pc, task, raised, requestQ, resultsQ>>
    BY <1>3 DEF Quit, walk
  <2>2. Running' = Running
    <3>1. worker'[w].does # "run" /\ worker[w].does # "run" /\ \A v \in Worker \ {w} : worker'[v] = worker[v]
      BY <2>1 DEF Types, Idle
    <3> QED  BY <3>1 DEF Running
  <2>3. UnderWay' = UnderWay /\ Answered' = Answered /\ Unanswered' = Unanswered
    BY <2>1, <2>2 DEF UnderWay, Answered, AtHand, Brought, Unanswered
  <2> QED  BY <2>1, <2>3 DEF Staying
<1> QED  BY <1>1, <1>2, <1>3 DEF WorkerStep

\* The main thread dispatches a task, or executes it.
LEMMA TasksStay ==
  ASSUME Types, Settled, Walking, Walking', Dispatch \/ ExecuteSerially
  PROVE  Staying
<1>1. task \in Node /\ AtHand = {task} /\ task \in UnderWay
  BY TaskNode DEF Dispatch, ExecuteSerially, Prepared, Types, AtHand, UnderWay
<1>2. /\ raised => pc = "prepare" /\ options.class = "build"
      /\ (raised /\ task = task) \/ Agree(dag, Targets(project, task), Entering)
      /\ ~dag'.stopped
  BY <1>1 DEF Settled, Walking
<1>3. CASE Dispatch
  <2>1. /\ requestQ' = Append(requestQ, task) /\ pc' \in {"next", "wait"} /\ task' = NoTask /\ raised' = FALSE
        /\ UNCHANGED <<dag, resultsQ, worker>> /\ pc = "prepare" /\ (options.class = "build" => ~raised)
    BY <1>3 DEF Dispatch, Prepared
  <2>2. ToSet(requestQ') = ToSet(requestQ) \cup {task}
    BY <1>1, <2>1, AppendSet DEF Types
  <2>3. Running' = Running /\ Brought' = Brought /\ AtHand' = {}
    BY <2>1 DEF Running, Brought, AtHand
  <2>4. UnderWay' = UnderWay /\ Answered' = Answered /\ Unanswered \subseteq Unanswered'
    BY <1>1, <2>1, <2>2, <2>3 DEF UnderWay, Answered, Unanswered
  <2> QED  BY <1>2, <2>1, <2>4, TaskNode DEF Staying
<1>4. CASE ExecuteSerially
  <2>1. /\ Execute(task) /\ pc' \in {"executed", "failed"} /\ UNCHANGED <<task, raised, requestQ, resultsQ, worker>>
        /\ pc = "prepare" /\ (options.class = "build" => ~raised)
    BY <1>4 DEF ExecuteSerially, Prepared, pool
  <2>2. /\ UNCHANGED dag
        /\ options.class = "question" =>
             /\ Agree(dag, Targets(project, task), {"up_to_date"})
             /\ ~(task \in Top /\ Absent(task))
    BY <1>1, <1>2, <2>1, ExecuteAnswers
  <2>3. Running' = Running /\ Brought' = Brought /\ AtHand' = AtHand
    BY <2>1 DEF Running, Brought, AtHand
  <2>4. UnderWay' = UnderWay /\ Answered' \subseteq Answered \cup {task} /\ Unanswered \subseteq Unanswered' \cup {task}
    BY <1>1, <2>1, <2>3 DEF UnderWay, Answered, Unanswered
  <2> QED  BY <1>2, <2>1, <2>2, <2>4 DEF Staying
<1> QED  BY <1>3, <1>4

\* The main thread has no task.
LEMMA OthersStay ==
  ASSUME Types, Settled, Walking, TakeCandidate \/ NoTaskLeft \/ PostSentinels \/ Cleanup \/ UNCHANGED vars
  PROVE  Staying
<1>1. /\ UNCHANGED <<dag, requestQ, resultsQ, worker>>
      /\ \/ UNCHANGED <<pc, task, raised>>
         \/ /\ pc \in {"next", "join", "cleanup"} /\ pc' \in {"look", "wait", "join", "cleanup", "done"}
            /\ raised' \in {raised, FALSE} /\ task' \in {task, NoTask}
  BY DEF TakeCandidate, NoTaskLeft, PostSentinels, Cleanup, vars, walk, pool, Walking
<1>2. ~raised \/ UNCHANGED <<pc, task, raised>>
  BY <1>1 DEF Settled
<1>3. task' = task
  BY <1>1 DEF Types
<1>4. UnderWay' = UnderWay /\ Answered' \subseteq Answered /\ Unanswered' = Unanswered
  BY <1>1, <1>3 DEF UnderWay, Answered, Running, Brought, AtHand, Unanswered
<1>5. UNCHANGED <<pc, task, raised>> \/ (~raised /\ ~raised')
  BY <1>1, <1>2
<1>6. UNCHANGED dag
  BY <1>1
<1> QED  BY <1>3, <1>4, <1>5, <1>6 DEF Staying

LEMMA TasksEnd ==
  ASSUME Types, Settled, Walking, Walking', PrepareFails \/ SkipCurrent \/ ConcludeSerially \/ GetResult
  PROVE  \E n : Ending(n)
<1>1. CASE PrepareFails \/ SkipCurrent \/ ConcludeSerially
  <2>1. task \in Node /\ AtHand = {task} /\ task \in UnderWay
    BY <1>1, TaskNode DEF PrepareFails, SkipCurrent, ConcludeSerially, Prepared, Types, AtHand, UnderWay
  <2>2. /\ Complete(task) \/ Fail(task)
        /\ task' = NoTask /\ raised' = FALSE /\ pc' = "next" /\ UNCHANGED <<requestQ, resultsQ, worker>>
    BY <1>1 DEF PrepareFails, SkipCurrent, ConcludeSerially, pool
  <2>3. ~raised
    <3>1. raised => pc = "prepare" /\ options.class = "build" /\ Policy # "ignore"
      BY DEF Settled
    <3>2. ASSUME PrepareFails, raised PROVE FALSE
      <4>1. broken' = broken \cup Targets(project, task)
        BY <3>1, <3>2 DEF PrepareFails, Fail
      <4>2. broken' = {}
        BY DEF Walking
      <4> QED  BY <2>1, <4>1, <4>2, ProjectSane DEF Sane
    <3> QED  BY <1>1, <3>1, <3>2 DEF SkipCurrent, ConcludeSerially, Prepared
  <2>4. options.class = "question" => task \in Answered /\ pc # "prepare"
    <3>1. PrepareFails \/ SkipCurrent => options.class = "build"
      BY DEF PrepareFails, SkipCurrent, NeedsExecute
    <3> QED  BY <1>1, <2>1, <3>1 DEF ConcludeSerially, Answered
  <2>5. Running' = Running /\ Brought' = Brought /\ AtHand' = {}
    BY <2>2 DEF Running, Brought, AtHand
  <2>6. UnderWay \ {task} \subseteq UnderWay' /\ UnderWay' \subseteq UnderWay /\ Answered' \subseteq Answered
    BY <2>1, <2>2, <2>5 DEF UnderWay, Answered
  <2> QED  BY <2>1, <2>2, <2>3, <2>4, <2>6 DEF Ending
<1>2. CASE GetResult
  <2>1. /\ pc = "wait" /\ resultsQ # <<>> /\ resultsQ' = Tail(resultsQ) /\ pc' \in {"next", "wait"}
        /\ UNCHANGED <<project, options, task, raised, requestQ, worker>>
    BY <1>2 DEF GetResult
  <2>2. ~raised /\ task \notin Node
    BY <2>1 DEF Settled, Types
  <2>3. PICK n : n = Head(resultsQ).node
    OBVIOUS
  <2>4. Complete(n) \/ Fail(n)
    BY <1>2, <2>3 DEF GetResult
  <2>5. /\ ToSet(resultsQ) = {Head(resultsQ)} \cup ToSet(resultsQ')
        /\ Head(resultsQ) \in Result
    BY <2>1, TailSet DEF Types
  <2>6. Brought = {n} \cup Brought'
    BY <2>3, <2>5 DEF Brought
  <2>7. Running' = Running /\ AtHand' = AtHand
    BY <2>1 DEF Running, AtHand
  <2>8. /\ UnderWay \ {n} \subseteq UnderWay' /\ UnderWay' \subseteq UnderWay /\ Answered' \subseteq Answered
        /\ n \in UnderWay /\ n \in Answered
    BY <2>1, <2>6, <2>7 DEF UnderWay, Answered
  <2> QED  BY <2>1, <2>2, <2>4, <2>8 DEF Ending
<1> QED  BY <1>1, <1>2

\* Every step stays, looks at a candidate or ends a task.
LEMMA WalkSteps ==
  ASSUME Types, Entered, Settled, InterruptStops, Walking, Walking', [Next]_vars
  PROVE  Staying \/ SkipHandled \/ Examine \/ ScanRaises \/ \E n : Ending(n)
<1>1. CASE TakeCandidate \/ NoTaskLeft \/ PostSentinels \/ Cleanup \/ UNCHANGED vars
  BY <1>1, OthersStay
<1>2. CASE Dispatch \/ ExecuteSerially
  BY <1>2, TasksStay
<1>3. CASE PrepareFails \/ SkipCurrent \/ ConcludeSerially \/ GetResult
  BY <1>3, TasksEnd
<1>4. CASE \E w \in Worker : WorkerStep(w)
  BY <1>4, WorkersStay
<1>5. CASE Signal
  <2>1. dag'.stopped
    BY <1>5, StoppedFields DEF Signal, Types
  <2> QED  BY <2>1 DEF Walking
<1> QED  BY <1>1, <1>2, <1>3, <1>4, <1>5 DEF Next, MainStep, Over

LEMMA SettledStep ==
  ASSUME Types, Entered, Tracked(dag), UnusedEffects, Settled, Remembered, InterruptStops, [Next]_vars
  PROVE  Settled' /\ Remembered'
<1> SUFFICES ASSUME Walking' PROVE Settled' /\ Remembered'
  BY DEF Settled, Remembered
<1>1. Walking /\ UNCHANGED <<project, options>>
  BY WalkingBefore
<1>2. CASE SkipHandled
  BY <1>1, <1>2, SkippedSettled
<1>3. CASE Examine
  BY <1>1, <1>3, ExaminedSettled
<1>4. CASE ScanRaises
  BY <1>1, <1>4, RaisedSettled
<1>5. CASE Staying
  BY <1>1, <1>5, StillSettled
<1>6. CASE \E n : Ending(n)
  BY <1>1, <1>6, EndsSettled
<1> QED  BY <1>1, <1>2, <1>3, <1>4, <1>5, <1>6, WalkSteps

LEMMA UnusedStays == [Next]_vars /\ UnusedEffects => UnusedEffects'
<1>1. [Next]_vars => UNCHANGED <<project, options>>
  BY DEF Next, MainStep, WorkerStep, Over, vars, TakeCandidate, SkipHandled, Examine, ScanRaises, Hand, NoTaskLeft, PrepareFails,
         SkipCurrent, Dispatch, ExecuteSerially, ConcludeSerially, Take, Deliver, Quit, GetResult, PostSentinels,
         Cleanup, Signal
<1> QED  BY <1>1 DEF UnusedEffects, AllEffects

LEMMA InitSettled ==
  ASSUME Init, UnusedEffects
  PROVE  Settled /\ Remembered /\ InterruptStops
<1>1. /\ Types /\ requestQ = <<>> /\ resultsQ = <<>> /\ task = NoTask /\ raised = FALSE /\ interrupted = FALSE
      /\ pc = "next" /\ \A w \in Worker : worker[w].does # "run"
  BY InitWalk DEF Init
<1>2. UnderWay = {} /\ Answered = {}
  <2>1. ToSet(<<>>) = {}
    BY DEF ToSet
  <2> QED  BY <1>1, <2>1 DEF UnderWay, Answered, Running, Brought, AtHand
<1>3. Settled /\ InterruptStops
  BY <1>1, <1>2 DEF Settled, InterruptStops
<1>4. /\ dag.cand = <<>> /\ dag.topLeft = Reverse(project.top)
      /\ \A n \in Node : /\ dag.wp[n] = {} /\ dag.wse[n] = {} /\ dag.implicit[n] = NotScanned
                         /\ dag.state[n] = "no_state" /\ dag.ref[n] = 0
  BY DEF Init, NewWalk
<1>5. Sane(project) /\ project.top \in Seq(Node) /\ ToSet(project.top) \cap AllEffects = {}
  BY <1>1, ProjectSane DEF Sane, UnusedEffects, NotUsed
<1>6. ToSet(Reverse(project.top)) \subseteq ToSet(project.top)
  <2>1. DOMAIN Reverse(project.top) = DOMAIN project.top
        /\ \A i \in DOMAIN project.top : /\ Reverse(project.top)[i] = project.top[Len(project.top) - i + 1]
                                         /\ Len(project.top) - i + 1 \in DOMAIN project.top
    BY <1>5 DEF Reverse
  <2> QED  BY <2>1 DEF ToSet
<1>7. Clear(dag, AllEffects)
  <2>1. ToSet(<<>>) = {}
    BY DEF ToSet
  <2> QED  BY <1>4, <1>5, <1>6, <2>1 DEF Clear
<1>8. \A m \in Node : WaitsFor(dag, m) = {} /\ dag.ref[m] = Cardinality(WaitsFor(dag, m))
  <2>1. Cardinality({}) = 0
    BY FS_EmptySet
  <2>2. \A m \in Node : WaitsFor(dag, m) = {}
    BY <1>4 DEF WaitsFor
  <2> QED  BY <1>4, <2>1, <2>2
<1>9. AllEffects = Effects(project, Node) /\ AllEffects \subseteq Node
  BY <1>5, EffectsPlain DEF AllEffects
<1>10. Remembers(project, dag, {}, task)
  BY <1>4, <1>7, <1>8, <1>9 DEF Remembers
<1> QED  BY <1>2, <1>3, <1>10 DEF Remembered

\* Nobody that waits is forgotten, for any finite project, if what is written
\* on the side is used by nobody.
THEOREM EverybodyRemembered == Spec /\ UnusedEffects => []NobodyForgotten
<1>1. Init /\ UnusedEffects => Settled /\ Remembered /\ InterruptStops
  BY InitSettled
<1>2. Types /\ Entered /\ Bounded /\ UnusedEffects /\ Settled /\ Remembered /\ InterruptStops /\ [Next]_vars
        => Settled' /\ Remembered' /\ InterruptStops'
  BY SettledStep, WalkingBefore DEF Bounded
<1>3. Types /\ Remembered => NobodyForgotten
  <2> SUFFICES ASSUME Types, Walking, Remembers(project, dag, UnderWay, task), NEW n \in Node, dag.state[n] = "pending"
               PROVE  LET children == {c \in Node : n \in dag.wp[c]}
                      IN  \/ n \in ToSet(dag.cand) \cup {task}
                          \/ /\ children # {} /\ dag.ref[n] = Cardinality(children)
                             /\ \A c \in children : Attended(c)
                          \/ \E s \in Node : n \in dag.wse[s] /\ dag.state[s] = "executing"
    BY DEF NobodyForgotten, Remembered, Walking
  <2>1. \/ n \in ToSet(dag.cand) \cup {task}
        \/ WaitsFor(dag, n) # {}
        \/ \E s \in Effects(project, Node) : n \in dag.wse[s] /\ dag.state[s] = "executing"
    BY DEF Remembers
  <2>2. Covered(project, UnderWay) \subseteq Held
    BY DEF Covered, UnderWay, Held, InFlight, Brought, AtHand
  <2>3. \A c \in WaitsFor(dag, n) : Attended(c)
    BY <2>2 DEF Remembers, Cared, Attended, WaitsFor
  <2>4. dag.ref[n] = Cardinality(WaitsFor(dag, n))
    BY DEF Remembers
  <2>5. Effects(project, Node) \subseteq Node
    BY ProjectSane, EffectsPlain
  <2> QED  BY <2>1, <2>3, <2>4, <2>5 DEF WaitsFor
<1> QED  BY <1>1, <1>2, <1>3, UnusedStays, WalkTypes, WalkBounded, PTL DEF Spec

----------------------------------------------------------------------------
(* Where a walk that was not stopped gets to.                              *)

\* What one step of the walk does to who waits for whom: one node at most
\* becomes pending, whoever begins to wait was looked at, and a child found
\* pending is remembered as long as somebody waits for it.
Advances(d, e) ==
    /\ \E x \in Node : \A c \in Node :
          e.state[c] = "pending" => d.state[c] = "pending" \/ (c = x /\ d.state[c] = "no_state")
    /\ \A c \in Node \ AllEffects : e.state[c] = "no_state" => d.state[c] = "no_state"
    /\ \A c \in Node : \A n \in e.wp[c] :
          \/ n \in d.wp[c]
          \/ e.state[n] # "no_state" /\ (e.state[c] = "pending" => c \in e.pending)
    /\ \A c \in d.pending : c \in e.pending \/ e.wp[c] = {}
    /\ \A c \in e.pending : e.wp[c] # {} \/ (c \in d.pending /\ d.wp[c] = {})
    /\ \A n \in ToSet(d.topLeft) : n \in ToSet(e.topLeft) \/ e.state[n] # "no_state"

\* The candidate's state once it was taken.
TakenStates(d, n) == [d.state EXCEPT ![n] = IF d.state[n] = "no_state" THEN "pending" ELSE d.state[n]]

LEMMA TakenTop ==
  ASSUME NEW d, IsWalk(d), HasCandidate(d)
  PROVE  \A m \in ToSet(d.topLeft) : m \in ToSet(WithoutCandidate(d).topLeft) \/ m = Candidate(d)
<1> DEFINE s == d.topLeft
           e == WithoutCandidate(d)
<1>1. e.topLeft = IF d.cand # <<>> THEN s ELSE Front(s)
  BY DEF WithoutCandidate, IsWalk
<1>2. CASE d.cand # <<>>
  BY <1>1, <1>2
<1>3. CASE d.cand = <<>>
  <2>1. s \in Seq(Node) /\ s # <<>> /\ Candidate(d) = s[Len(s)] /\ e.topLeft = Front(s)
    BY <1>1, <1>3 DEF IsWalk, HasCandidate, Candidate, Last
  <2> HIDE DEF s, e
  <2>2. ASSUME NEW i \in DOMAIN s
        PROVE  s[i] \in ToSet(Front(s)) \/ s[i] = s[Len(s)]
    <3>1. CASE i = Len(s)
      BY <3>1
    <3>2. CASE i # Len(s)
      <4>1. i \in DOMAIN Front(s) /\ Front(s)[i] = s[i]
        BY <2>1, <2>2, <3>2 DEF Front
      <4> QED  BY <4>1 DEF ToSet
    <3> QED  BY <3>1, <3>2
  <2>3. \A m \in ToSet(s) : m \in ToSet(Front(s)) \/ m = s[Len(s)]
    BY <2>2 DEF ToSet
  <2> QED  BY <2>1, <2>3 DEF s, e
<1> QED  BY <1>2, <1>3

LEMMA SkipAdvances ==
  ASSUME NEW d, IsWalk(d), Tracked(d), HasCandidate(d), d.state[Candidate(d)] \in Handled
  PROVE  Advances(d, WithoutCandidate(d))
<1>1. PICK e : e = WithoutCandidate(d)
  OBVIOUS
<1>2. /\ e.state = d.state /\ e.wp = d.wp /\ e.pending = d.pending
  BY <1>1, WithoutCandidateFields
<1>3. \A m \in ToSet(d.topLeft) : m \in ToSet(e.topLeft) \/ d.state[m] # "no_state"
  BY <1>1, TakenTop DEF Handled
<1>4. d.pending \subseteq Node /\ \A c \in d.pending : e.wp[c] # {} \/ d.wp[c] = {}
  BY <1>2 DEF Tracked
<1>5. \E x \in Node : \A c \in Node :
          e.state[c] = "pending" => d.state[c] = "pending" \/ (c = x /\ d.state[c] = "no_state")
  <2>1. Candidate(d) \in Node
    BY <1>2 DEF Candidate, HasCandidate, IsWalk, Last
  <2> QED  BY <1>2, <2>1
<1>6. Advances(d, e)
  BY <1>2, <1>3, <1>4, <1>5 DEF Advances
<1> QED  BY <1>1, <1>6

\* What a look at n does to the walk d: the targets are begun, the children
\* are waited for, or n waits for a side effect.
Reached(d, e, n) ==
    /\ e.topLeft = d.topLeft
    /\ \/ /\ e.wp = d.wp /\ e.pending = d.pending
          /\ \A c \in Node : e.state[c] = d.state[c] \/ e.state[c] \in Begins
       \/ /\ e.state = d.state /\ d.pending \subseteq e.pending
          /\ \A c \in Node : \/ e.wp[c] = d.wp[c]
                             \/ e.wp[c] = d.wp[c] \cup {n} /\ (d.state[c] = "pending" => c \in e.pending)
          /\ \A c \in e.pending : c \in d.pending \/ n \in e.wp[c]

LEMMA ReadyReached ==
  ASSUME Sane(project), NEW d, IsWalk(d), NEW n \in Node, NEW e \in Ready(project, d, n)
  PROVE  Reached(d, e, n)
<1> DEFINE T == Targets(project, n)
           m == Marked(project, d, T)
           u == UpToDate(d, T)
<1>1. e \in {m, u}
  BY DEF Ready
<1>2. m.topLeft = d.topLeft /\ u.topLeft = d.topLeft
  BY DEF Marked, UpToDate, IsWalk
<1>3. /\ \A c \in Node : m.state[c] = IF c \in T \cup Effects(project, T) THEN "executing" ELSE d.state[c]
      /\ m.wp = d.wp /\ m.pending = d.pending
  BY MarkedFields
<1>4. /\ \A c \in Node : u.state[c] = IF c \in T THEN "up_to_date" ELSE d.state[c]
      /\ u.wp = d.wp /\ u.pending = d.pending
  BY UpToDateFields
<1> HIDE DEF m, u, T
<1> QED  BY <1>1, <1>2, <1>3, <1>4 DEF Reached, Begins

LEMMA LooksReached ==
  ASSUME Sane(project), NEW d, IsWalk(d), Tracked(d), NEW n \in Node, NEW kids \in SUBSET Node,
         NEW order \in PushOrders(d, kids), ~ChildFailed(d, kids), Looks(n, d, kids, order)
  PROVE  Reached(d, dag', n)
<1>1. CASE dag' = Waiting(d, n, kids, Push(d, order).cand)
  <2>0. PICK c : c = Push(d, order).cand
    OBVIOUS
  <2> DEFINE e == Waiting(d, n, kids, c)
             slow == NotReady(d, kids)
  <2>1. e.topLeft = d.topLeft
    BY DEF Waiting, WaitFor, IsWalk
  <2>2. /\ \A k \in Node : e.wp[k] = IF k \in slow THEN d.wp[k] \cup {n} ELSE d.wp[k]
        /\ e.state = d.state
    BY WaitForFields
  <2>3. e.pending = d.pending \cup Open(d, kids)
    BY DEF Waiting, WaitFor, IsWalk, Open
  <2>4. Open(d, kids) \subseteq slow /\ \A k \in slow : d.state[k] = "pending" => k \in Open(d, kids)
    BY DEF Open, NotReady, Unready
  <2> HIDE DEF e, slow
  <2>5. Open(d, kids) \subseteq Node
    BY DEF Open
  <2>6. Reached(d, e, n)
    BY <2>1, <2>2, <2>3, <2>4, <2>5 DEF Reached
  <2> QED  BY <1>1, <2>0, <2>6 DEF e
<1>2. CASE dag' = WaitForEffects(project, d, n)
  <2>1. PICK e : e = WaitForEffects(project, d, n)
    OBVIOUS
  <2>2. e.topLeft = d.topLeft
    BY <2>1 DEF WaitForEffects, IsWalk
  <2>3. e.state = d.state /\ e.wp = d.wp /\ e.pending = d.pending
    BY <2>1, WaitForEffectsFields
  <2>4. Reached(d, e, n)
    BY <2>2, <2>3 DEF Reached
  <2> QED  BY <1>2, <2>1, <2>4
<1>3. CASE dag' \in Ready(project, d, n)
  BY <1>3, ReadyReached
<1>4. CASE dag' = d
  BY <1>4 DEF Reached
<1> QED  BY <1>1, <1>2, <1>3, <1>4 DEF Looks

LEMMA ReachedAdvances ==
  ASSUME NEW d, IsWalk(d), Tracked(d), NEW n \in Node, d.state[n] \notin Handled,
         NEW b, b.state = TakenStates(d, n), b.wp = d.wp, b.pending = d.pending,
         \A m \in ToSet(d.topLeft) : m \in ToSet(b.topLeft) \/ m = n,
         NEW e, Reached(b, e, n)
  PROVE  Advances(d, e)
<1>0. d.state \in [Node -> NodeState] /\ d.pending \subseteq Node /\ ToSet(d.topLeft) \subseteq Node
  BY ToSetRange DEF IsWalk, Tracked
<1>1. b.state[n] = "pending" /\ \A c \in Node \ {n} : b.state[c] = d.state[c]
  BY <1>0 DEF TakenStates, Handled
<1>2. d.state[n] \in {"no_state", "pending"}
  BY <1>0 DEF Handled
<1>3. e.topLeft = b.topLeft /\ \A c \in Node : e.state[c] = b.state[c] \/ e.state[c] \in {"executing", "up_to_date"}
  BY DEF Reached, Begins
<1>4. \E x \in Node : \A c \in Node :
          e.state[c] = "pending" => d.state[c] = "pending" \/ (c = x /\ d.state[c] = "no_state")
  BY <1>1, <1>2, <1>3
<1>5. \A c \in Node : e.state[c] = "no_state" => d.state[c] = "no_state"
  BY <1>1, <1>3
<1>6. \A m \in ToSet(d.topLeft) : m \in ToSet(e.topLeft) \/ e.state[m] # "no_state"
  BY <1>0, <1>1, <1>3
<1>7. \A c \in Node : \A m \in e.wp[c] :
          \/ m \in d.wp[c]
          \/ e.state[m] # "no_state" /\ (e.state[c] = "pending" => c \in e.pending)
  BY <1>1 DEF Reached
<1>8. /\ \A c \in d.pending : c \in e.pending \/ e.wp[c] = {}
      /\ \A c \in e.pending : e.wp[c] # {} \/ (c \in d.pending /\ d.wp[c] = {})
  BY <1>0 DEF Reached
<1> QED  BY <1>4, <1>5, <1>6, <1>7, <1>8 DEF Advances

\* What the end of a task does to the rest of the walk.
LEMMA ConcludedRest ==
  ASSUME Sane(project), NEW d, IsWalk(d), NEW T \in SUBSET Node, NEW a, Concluded(project, d, a, T),
         NEW e \in Postprocessed(project, a, T)
  PROVE  /\ e.topLeft = d.topLeft /\ e.pending = d.pending \ Blocking(d, T)
         /\ \A c \in Node : e.implicit[c] \in {NotScanned, d.implicit[c]}
         /\ \A s \in Effects(project, T) : s \in Node => e.state[s] # "executing"
         /\ \A F : Clear(d, F) => Clear(e, F)
         /\ a = d => \A c \in Node : e.state[c] \in {d.state[c], "no_state"}
<1>1. /\ IsWalk(a) /\ a.topLeft = d.topLeft /\ a.pending = d.pending /\ a.wp = d.wp /\ a.wse = d.wse
      /\ a.cand = d.cand /\ \A c \in Node : a.implicit[c] \in {NotScanned, d.implicit[c]}
  <2>1. CASE a = Executed(project, d, T)
    <3>1. PICK r : r = Executed(project, d, T)
      OBVIOUS
    <3>2. IsWalk(r)
      BY <3>1, ExecutedWalk DEF Later
    <3>3. r.topLeft = d.topLeft
      <4>1. PICK q : q = Released(project, d, T)
        OBVIOUS
      <4>2. q.topLeft = d.topLeft /\ IsWalk(q)
        <5>1. q.topLeft = d.topLeft
          BY <4>1 DEF Released, IsWalk
        <5> QED  BY <4>1, <5>1, ReleasedWalk DEF Later
      <4>3. r.topLeft = q.topLeft
        BY <3>1, <4>1, <4>2 DEF Executed, IsWalk
      <4> QED  BY <4>2, <4>3
    <3>4. /\ r.wp = d.wp /\ r.wse = d.wse /\ r.cand = d.cand /\ r.pending = d.pending
          /\ r.implicit = Rescans(d, Working(d, T))
      BY <3>1, ExecutedFields
    <3>5. \A c \in Node : r.implicit[c] \in {NotScanned, d.implicit[c]}
      BY <3>4 DEF Rescans
    <3> QED  BY <2>1, <3>1, <3>2, <3>3, <3>4, <3>5
  <2>2. CASE a = Released(project, d, T)
    <3>1. PICK r : r = Released(project, d, T)
      OBVIOUS
    <3>2. r.topLeft = d.topLeft
      BY <3>1 DEF Released, IsWalk
    <3>3. /\ r.wp = d.wp /\ r.wse = d.wse /\ r.cand = d.cand /\ r.pending = d.pending /\ r.implicit = d.implicit
      BY <3>1, ReleasedFields
    <3> QED  BY <2>2, <3>1, <3>2, <3>3, ReleasedWalk DEF Later
  <2> QED  BY <2>1, <2>2 DEF Concluded
<1>2. IsFreed(project, a, T, e)
  BY <1>1, PostprocessedFields
<1>3. e.topLeft = a.topLeft
  BY <1>1 DEF Postprocessed, IsWalk
<1>4. e.pending = d.pending \ Blocking(d, T)
  BY <1>1, <1>2 DEF IsFreed, Blocking
<1>5. \A s \in Effects(project, T) : s \in Node => e.state[s] # "executing"
  BY <1>2 DEF IsFreed, Working
<1>6. ASSUME NEW F, Clear(d, F) PROVE Clear(e, F)
  <2>1. Clear(a, F)
    BY <1>1, <1>6 DEF Clear
  <2> QED  BY <1>1, <2>1, PostprocessedClear
<1>7. \A c \in Node : e.state[c] \in {a.state[c], "no_state"}
  BY <1>2 DEF IsFreed
<1>8. \A c \in Node : e.implicit[c] \in {NotScanned, d.implicit[c]}
  BY <1>1, <1>2 DEF IsFreed
<1> QED  BY <1>1, <1>3, <1>4, <1>5, <1>6, <1>7, <1>8

LEMMA ConcludedAdvances ==
  ASSUME Sane(project), PlainFiles(project), NEW d, IsWalk(d), Tracked(d), NEW n \in Node, n \notin AllEffects,
         NEW a, Concluded(project, d, a, Targets(project, n)), Clear(d, AllEffects),
         NEW e \in Postprocessed(project, a, Targets(project, n))
  PROVE  Advances(d, e)
<1>1. PICK T : T = Targets(project, n)
  OBVIOUS
<1>2. /\ T \in SUBSET Node
      /\ \A c \in T : e.state[c] \in {"executed", "up_to_date"}
      /\ \A c \in Node : c \notin T /\ c \notin AllEffects => e.state[c] = d.state[c]
      /\ \A s \in AllEffects : \/ e.state[s] = d.state[s]
                               \/ s \in Effects(project, T) /\ e.state[s] = "no_state"
      /\ \A c \in Node : e.wp[c] = IF c \in T THEN {} ELSE d.wp[c]
  BY <1>1, ConcludedFields
<1>3. e.topLeft = d.topLeft /\ e.pending = d.pending \ Blocking(d, T)
  BY <1>1, <1>2, ConcludedRest
<1>4. d.pending \subseteq Node /\ ToSet(d.topLeft) \subseteq Node
  BY ToSetRange DEF IsWalk, Tracked
<1>5. \A c \in Node : e.state[c] = "pending" => d.state[c] = "pending"
  BY <1>2
<1>6. \A c \in d.pending : c \in e.pending \/ e.wp[c] = {}
  BY <1>2, <1>3, <1>4 DEF Blocking
<1>7. \A c \in e.pending : e.wp[c] # {} \/ (c \in d.pending /\ d.wp[c] = {})
  BY <1>2, <1>3, <1>4 DEF Blocking
<1>8. \A c \in Node \ AllEffects : e.state[c] = "no_state" => d.state[c] = "no_state"
  BY <1>2
<1> QED  BY <1>2, <1>3, <1>5, <1>6, <1>7, <1>8 DEF Advances

LEMMA ReadyAgree ==
  ASSUME Sane(project), NEW d, IsWalk(d), NEW n \in Node, NEW e \in Ready(project, d, n)
  PROVE  LET T == Targets(project, n)
         IN  /\ Agree(e, T, Begins)
             /\ \A c \in Node : e.state[c] = d.state[c] \/ c \in T \cup Effects(project, T)
<1> DEFINE T == Targets(project, n)
           m == Marked(project, d, T)
           u == UpToDate(d, T)
<1>1. e \in {m, u}
  BY DEF Ready
<1>2. \A c \in Node : m.state[c] = IF c \in T \cup Effects(project, T) THEN "executing" ELSE d.state[c]
  BY MarkedFields
<1>3. \A c \in Node : u.state[c] = IF c \in T THEN "up_to_date" ELSE d.state[c]
  BY UpToDateFields
<1>4. T \subseteq Node
  BY TargetsAreNodes
<1> HIDE DEF m, u, T
<1> QED  BY <1>1, <1>2, <1>3, <1>4 DEF Agree, Begins, T

\* What a look at candidate n does: n may wait, or its task is handed out with
\* an exception, and nothing else is begun, or its targets are begun.
LookedAt(n) ==
    /\ n = Candidate(dag) /\ dag.state[n] \notin Handled /\ pc = "look"
    /\ UNCHANGED <<project, options, pool, ended>>
    /\ Advances(dag, dag') /\ OthersAs(dag, dag', n)
    /\ (pc' = "next" /\ UNCHANGED <<task, raised>>) \/ (pc' = "prepare" /\ task' = n)
    /\ \/ /\ dag'.state = TakenStates(dag, n)
          /\ (pc' = "next" /\ UNCHANGED <<task, raised>>) \/ raised'
       \/ /\ pc' = "prepare" /\ Agree(dag', Targets(project, n), Begins)
          /\ \A s \in AllEffects : dag'.state[s] = dag.state[s] \/ s \in Effects(project, Targets(project, n))

LEMMA SeenWalk ==
  ASSUME Types, Entered, Tracked(dag), Candidates, NEW fresh
  PROVE  LET n == Candidate(dag)
             d == Seen(n, fresh)
         IN  /\ IsWalk(d) /\ Tracked(d) /\ d.state = TakenStates(dag, n)
             /\ d.wp = dag.wp /\ d.pending = dag.pending
             /\ \A m \in ToSet(dag.topLeft) : m \in ToSet(d.topLeft) \/ m = n
<1>0. Sane(project) /\ IsWalk(dag) /\ HasCandidate(dag) /\ Sane(OnDisk)
  BY ProjectSane, OnDiskSane DEF Types, Candidates
<1>1. PICK n \in Node : n = Candidate(dag)
  BY SeenFields
<1>2. PICK d : d = Seen(n, fresh)
  OBVIOUS
<1>3. /\ IsWalk(d) /\ d.state = TakenStates(dag, n)
      /\ d.wp = dag.wp /\ d.pending = dag.pending /\ d.ref = dag.ref
  BY <1>1, <1>2, SeenFields DEF TakenStates
<1> DEFINE w == WithoutCandidate(dag)
           b == Visited(w, n)
<1>4. d = Scanned(OnDisk, b, fresh, n)
  BY <1>2 DEF Seen, Begin
<1>5. IsWalk(w) /\ \A m \in ToSet(dag.topLeft) : m \in ToSet(w.topLeft) \/ m = n
  BY <1>0, <1>1, TakenTop, WithoutCandidateWalk DEF Later
<1>6. w.ref = dag.ref /\ w.implicit = dag.implicit /\ w.pending = dag.pending
  BY <1>0, WithoutCandidateFields
<1> HIDE DEF w
<1>7. IsWalk(b)
  BY <1>0, <1>5, VisitedWalk DEF Later
<1>8. b.ref = w.ref /\ b.implicit = w.implicit /\ b.pending = w.pending /\ b.wp = w.wp /\ b.wse = w.wse
  BY <1>5, VisitedFields
<1>9. b.topLeft = w.topLeft
  BY <1>5 DEF Visited, IsWalk
<1> HIDE DEF b
<1>10. Tracked(d)
  <2>1. Tracked(b)
    BY <1>6, <1>8, TrackedSame
  <2> QED  BY <1>0, <1>4, <1>7, <2>1, ScannedTracked
<1>11. d.topLeft = b.topLeft
  <2>1. PICK q : q = OnDisk
    OBVIOUS
  <2>2. d = Scanned(q, b, fresh, n)
    BY <1>4, <2>1
  <2> QED  BY <1>7, <2>2 DEF Scanned, IsWalk
<1> QED  BY <1>1, <1>2, <1>3, <1>5, <1>9, <1>10, <1>11

LEMMA ExamineLooked ==
  ASSUME Types, Entered, Tracked(dag), UnusedEffects, Settled, Remembered, Walking, Examine
  PROVE  \E n \in Node \ AllEffects : LookedAt(n)
<1>0. Sane(project) /\ IsWalk(dag) /\ Candidates /\ pc = "look" /\ task = NoTask
  BY ProjectSane DEF Types, Examine, Candidates
<1>1. Remembers(project, dag, UnderWay, NoTask)
  BY <1>0 DEF Remembered
<1>2. PICK n : /\ n = Candidate(dag) /\ n \in Node \ AllEffects /\ dag.state[n] \notin Handled
               /\ OthersAs(dag, dag', n)
  BY <1>1, ExamineRemembers
<1>3. PICK fresh : \E order \in PushOrders(Seen(n, fresh), Children(project, Seen(n, fresh), n)) :
                       Looks(n, Seen(n, fresh), Children(project, Seen(n, fresh), n), order)
  BY <1>2, ExamineLooks
<1>4. PICK d : d = Seen(n, fresh)
  OBVIOUS
<1>5. PICK kids \in SUBSET Node : kids = Children(project, d, n)
  BY DEF Children
<1>6. PICK order \in PushOrders(d, kids) : Looks(n, d, kids, order)
  BY <1>3, <1>4, <1>5
<1>7. /\ IsWalk(d) /\ Tracked(d) /\ d.state = TakenStates(dag, n)
      /\ d.wp = dag.wp /\ d.pending = dag.pending
      /\ \A m \in ToSet(dag.topLeft) : m \in ToSet(d.topLeft) \/ m = n
  BY <1>0, <1>2, <1>4, SeenWalk
<1>8. ~ChildFailed(d, kids)
  <2>1. \A m \in Node : dag.state[m] # "failed"
    BY <1>1 DEF Remembers
  <2>2. \A m \in Node : d.state[m] # "failed"
    BY <1>0, <1>7, <2>1 DEF TakenStates, IsWalk
  <2> QED  BY <2>2 DEF ChildFailed
<1>9. PICK e : e = dag'
  OBVIOUS
<1>10. Reached(d, e, n)
  BY <1>0, <1>2, <1>6, <1>7, <1>8, <1>9, LooksReached
<1>11. Advances(dag, e)
  BY <1>0, <1>2, <1>7, <1>10, ReachedAdvances DEF Types
<1>12. UNCHANGED <<project, options, pool, ended>>
  BY ExamineLooks
<1>13. \/ /\ e.state = d.state /\ pc' = "next" /\ UNCHANGED <<task, raised>>
       \/ e \in Ready(project, d, n) /\ pc' = "prepare" /\ task' = n
       \/ /\ e.state = d.state /\ pc' = "prepare" /\ task' = n /\ raised'
  <2>1. PICK c : c = Push(d, order).cand
    OBVIOUS
  <2>2. Waiting(d, n, kids, c).state = d.state
    BY <1>2, <1>7, WaitForFields
  <2>3. WaitForEffects(project, d, n).state = d.state
    BY <1>2, <1>7, WaitForEffectsFields
  <2> QED  BY <1>6, <1>8, <1>9, <2>1, <2>2, <2>3 DEF Looks
<1>14. CASE e \in Ready(project, d, n) /\ pc' = "prepare" /\ task' = n
  <2>1. /\ Agree(e, Targets(project, n), Begins)
        /\ \A c \in Node : e.state[c] = d.state[c] \/ c \in Targets(project, n) \cup Effects(project, Targets(project, n))
    BY <1>0, <1>2, <1>7, <1>14, ReadyAgree
  <2>2. \A s \in AllEffects : s \in Node /\ s # n /\ s \notin Targets(project, n) /\ d.state[s] = dag.state[s]
    <3>1. AllEffects \subseteq Node
      BY <1>0, EffectsPlain DEF AllEffects
    <3>2. Targets(project, n) \cap AllEffects = {}
      BY <1>0, <1>2, TargetsApart DEF UnusedEffects
    <3> QED  BY <1>0, <1>2, <1>7, <3>1, <3>2 DEF TakenStates, IsWalk
  <2>3. \A s \in AllEffects : e.state[s] = dag.state[s] \/ s \in Effects(project, Targets(project, n))
    BY <2>1, <2>2
  <2> QED  BY <1>0, <1>2, <1>9, <1>11, <1>12, <1>14, <2>1, <2>3 DEF LookedAt
<1>15. CASE e.state = d.state
  BY <1>0, <1>2, <1>7, <1>9, <1>11, <1>12, <1>13, <1>14, <1>15 DEF LookedAt
<1> QED  BY <1>13, <1>14, <1>15

LEMMA RaisedLooked ==
  ASSUME Types, Entered, Tracked(dag), UnusedEffects, Settled, Remembered, Walking, ScanRaises
  PROVE  \E n \in Node \ AllEffects : LookedAt(n)
<1>0. /\ Sane(project) /\ IsWalk(dag) /\ Candidates /\ HasCandidate(dag) /\ pc = "look" /\ task = NoTask
      /\ PlainFiles(project)
  BY ProjectSane DEF Types, ScanRaises, Candidates, UnusedEffects
<1>1. Remembers(project, dag, UnderWay, NoTask)
  BY <1>0 DEF Remembered
<1>2. PICK n \in Node :
         /\ n = Candidate(dag) /\ dag.state[n] \notin Handled
         /\ UNCHANGED <<project, options, pool, ended>> /\ pc' = "prepare" /\ task' = n /\ raised' = TRUE
         /\ dag' \in Ready(project, Begin(n), n) \/ dag' = Begin(n)
  BY ScanRaisesLooks
<1>3. n \notin AllEffects
  BY <1>0, <1>1, <1>2, TaskNode, TakenRemembers DEF AllEffects
<1>4. PICK b : b = Begin(n)
  OBVIOUS
<1>5. /\ IsWalk(b) /\ b.state = TakenStates(dag, n) /\ b.wp = dag.wp /\ b.pending = dag.pending
  BY <1>0, <1>2, <1>4, BeginFields DEF TakenStates
<1>6. \A m \in ToSet(dag.topLeft) : m \in ToSet(b.topLeft) \/ m = n
  <2>1. PICK w : w = WithoutCandidate(dag)
    OBVIOUS
  <2>2. IsWalk(w) /\ \A m \in ToSet(dag.topLeft) : m \in ToSet(w.topLeft) \/ m = n
    BY <1>0, <1>2, <2>1, TakenTop, WithoutCandidateWalk DEF Later
  <2>3. b = Visited(w, n)
    BY <1>4, <2>1 DEF Begin
  <2>4. b.topLeft = w.topLeft
    BY <2>2, <2>3 DEF Visited, IsWalk
  <2> QED  BY <2>2, <2>4
<1>7. PICK e : e = dag'
  OBVIOUS
<1>8. e \in Ready(project, b, n) \/ e = b
  BY <1>2, <1>4, <1>7
<1>9. Reached(b, e, n)
  <2>1. CASE e \in Ready(project, b, n)
    BY <1>0, <1>5, <2>1, ReadyReached
  <2>2. CASE e = b
    BY <2>2 DEF Reached
  <2> QED  BY <1>8, <2>1, <2>2
<1>10. Advances(dag, e)
  BY <1>0, <1>2, <1>5, <1>6, <1>9, ReachedAdvances
<1>11. n \in Targets(project, n)
  BY <1>0 DEF Sane
<1>12. \A c \in Node \ {n} : b.state[c] = dag.state[c]
  BY <1>0, <1>5 DEF TakenStates, IsWalk
<1>13. CASE e = b
  <2>1. OthersAs(dag, e, n)
    BY <1>11, <1>12, <1>13 DEF OthersAs
  <2> QED  BY <1>0, <1>2, <1>3, <1>5, <1>7, <1>10, <1>13, <2>1 DEF LookedAt
<1>14. CASE e \in Ready(project, b, n)
  <2>1. /\ Agree(e, Targets(project, n), Begins)
        /\ \A c \in Node : e.state[c] = b.state[c] \/ c \in Targets(project, n) \cup Effects(project, Targets(project, n))
    BY <1>0, <1>5, <1>14, ReadyAgree
  <2>2. /\ AllEffects \subseteq Node /\ Targets(project, n) \cap AllEffects = {}
        /\ Effects(project, Targets(project, n)) \subseteq AllEffects
    BY <1>0, <1>3, TargetsAreNodes, EffectsPlain, TargetsApart DEF AllEffects, Effects
  <2>3. OthersAs(dag, e, n)
    BY <1>11, <1>12, <2>1, <2>2 DEF OthersAs
  <2>4. \A s \in AllEffects : e.state[s] = dag.state[s] \/ s \in Effects(project, Targets(project, n))
    BY <1>3, <1>12, <2>1, <2>2
  <2> QED  BY <1>0, <1>2, <1>3, <1>7, <1>10, <2>1, <2>3, <2>4 DEF LookedAt
<1> QED  BY <1>8, <1>13, <1>14

\* r numbers the nodes so that whoever waits comes before the child it waits
\* for, if that child was not found pending.
Ranks(d, r, k) ==
    /\ r \in [Node -> 0..k]
    /\ \A c \in Node : \A n \in d.wp[c] :
          d.state[c] = "pending" /\ c \notin d.pending => r[n] < r[c]

\* Where the walk has been: every requested target was looked at or is still to
\* be taken, only nodes that were looked at wait, pending_children holds nobody
\* that is not waited for, and every cycle of waiting goes through it.
InOrder(d) ==
    /\ \A n \in Top : n \in ToSet(d.topLeft) \/ d.state[n] # "no_state"
    /\ \A c \in Node : \A n \in d.wp[c] : d.state[n] # "no_state"
    /\ \A c \in d.pending : d.wp[c] # {}
    /\ \E k \in Nat : \E r : Ranks(d, r, k)

LEMMA AdvancesInOrder ==
  ASSUME NEW d, IsWalk(d), NEW e, IsWalk(e), Tracked(d), Tracked(e), Clear(d, AllEffects),
         Top \subseteq Node \ AllEffects, InOrder(d), Advances(d, e)
  PROVE  InOrder(e)
<1>0. /\ d.wp \in [Node -> SUBSET Node] /\ e.wp \in [Node -> SUBSET Node]
      /\ d.pending \subseteq Node /\ e.pending \subseteq Node
      /\ \A c \in Node : d.wp[c] \cap AllEffects = {}
  BY DEF IsWalk, Tracked, Clear
<1>1. \A n \in Top : n \in ToSet(e.topLeft) \/ e.state[n] # "no_state"
  BY DEF InOrder, Advances
<1>2. \A c \in Node : \A n \in e.wp[c] : e.state[n] # "no_state"
  BY <1>0 DEF InOrder, Advances
<1>3. \A c \in e.pending : e.wp[c] # {}
  BY DEF InOrder, Advances
<1>3a. PICK k \in Nat : \E r : Ranks(d, r, k)
  BY DEF InOrder
<1>4. PICK r : Ranks(d, r, k)
  BY <1>3a
<1>5. PICK x \in Node : \A c \in Node :
          e.state[c] = "pending" => d.state[c] = "pending" \/ (c = x /\ d.state[c] = "no_state")
  BY DEF Advances
<1>6. \A c \in Node : \A n \in e.wp[c] : e.state[c] = "pending" /\ c \notin e.pending =>
         /\ n \in d.wp[c] /\ c \notin d.pending /\ d.state[n] # "no_state"
         /\ d.state[c] = "pending" \/ (c = x /\ d.state[c] = "no_state")
  BY <1>5 DEF Advances, InOrder
<1>7. CASE d.state[x] # "no_state"
  <2>1. Ranks(e, r, k)
    BY <1>0, <1>4, <1>6, <1>7 DEF Ranks
  <2> QED  BY <1>1, <1>2, <1>3, <2>1 DEF InOrder
<1>8. CASE d.state[x] = "no_state"
  <2> DEFINE q == [r EXCEPT ![x] = k + 1]
  <2>1. r \in [Node -> 0..k]
    BY <1>4 DEF Ranks
  <2>2. q \in [Node -> 0..(k + 1)] /\ q[x] = k + 1 /\ \A n \in Node \ {x} : q[n] = r[n] /\ r[n] < k + 1
    BY <2>1
  <2> HIDE DEF q
  <2>3. ASSUME NEW c \in Node, NEW n \in e.wp[c], e.state[c] = "pending", c \notin e.pending
        PROVE  q[n] < q[c]
    <3>1. /\ n \in d.wp[c] /\ c \notin d.pending /\ d.state[n] # "no_state" /\ n \in Node
          /\ d.state[c] = "pending" \/ c = x
      BY <1>0, <1>6, <2>3
    <3>2. n # x
      BY <1>8, <3>1
    <3>3. CASE c = x
      BY <2>2, <3>1, <3>2, <3>3
    <3>4. CASE c # x
      <4>1. r[n] < r[c]
        BY <1>4, <3>1, <3>4 DEF Ranks
      <4> QED  BY <2>2, <3>1, <3>2, <3>4, <4>1
    <3> QED  BY <3>3, <3>4
  <2>4. Ranks(e, q, k + 1)
    BY <2>2, <2>3 DEF Ranks
  <2>5. \E j \in Nat : \E s : Ranks(e, s, j)
    BY <2>4
  <2> QED  BY <1>1, <1>2, <1>3, <2>5 DEF InOrder
<1> QED  BY <1>7, <1>8

\* The end of a task of n that is no failure.
Finishes(n) ==
    /\ n \in Node \ AllEffects /\ Ending(n)
    /\ \E a : /\ Concluded(project, dag, a, Targets(project, n))
              /\ dag' \in Postprocessed(project, a, Targets(project, n))
              /\ options.class = "question" => a = dag

LEMMA EndsFinish ==
  ASSUME Types, Settled, Walking, Walking', NEW n, Ending(n)
  PROVE  Finishes(n)
<1>1. /\ n \in Node \ AllEffects /\ Agree(dag, Targets(project, n), Entering)
      /\ options.class = "question" => Agree(dag, Targets(project, n), {"up_to_date"})
  BY DEF Settled, Ending
<1>2. broken' = {} /\ (Complete(n) \/ Fail(n))
  BY DEF Walking, Ending
<1> QED  BY <1>1, <1>2, EndsConcluded DEF Finishes

\* Every step leaves the walk alone, takes a candidate or ends a task.
LEMMA WalkMoves ==
  ASSUME Types, Entered, Tracked(dag), UnusedEffects, Settled, Remembered, InterruptStops,
         Walking, Walking', [Next]_vars
  PROVE  \/ Staying
         \/ SkipHandled
         \/ \E n \in Node \ AllEffects : LookedAt(n)
         \/ \E n : Finishes(n)
BY EndsFinish, WalkSteps, ExamineLooked, RaisedLooked

LEMMA MovesAdvance ==
  ASSUME Types, Entered, Tracked(dag), UnusedEffects, Remembered, Walking,
         SkipHandled \/ (\E n \in Node \ AllEffects : LookedAt(n)) \/ (\E n : Finishes(n))
  PROVE  Advances(dag, dag')
<1>0. /\ Sane(project) /\ IsWalk(dag) /\ PlainFiles(project) /\ Clear(dag, AllEffects)
  BY ProjectSane DEF Types, UnusedEffects, Remembered, Remembers, AllEffects
<1>1. CASE SkipHandled
  BY <1>0, <1>1, SkipAdvances DEF SkipHandled, Candidates
<1>2. CASE \E n \in Node \ AllEffects : LookedAt(n)
  BY <1>2 DEF LookedAt
<1>3. ASSUME NEW n, Finishes(n) PROVE Advances(dag, dag')
  <2>1. PICK e : e = dag'
    OBVIOUS
  <2>2. PICK a : Concluded(project, dag, a, Targets(project, n)) /\ e \in Postprocessed(project, a, Targets(project, n))
    BY <1>3, <2>1 DEF Finishes
  <2>3. n \in Node /\ n \notin AllEffects
    BY <1>3 DEF Finishes
  <2>4. Advances(dag, e)
    BY <1>0, <2>2, <2>3, ConcludedAdvances
  <2> QED  BY <2>1, <2>4
<1> QED  BY <1>1, <1>2, <1>3

\* What is written on the side is written by a task under way.
Lent == \A s \in AllEffects : dag.state[s] = "executing" =>
           \E n \in UnderWay : s \in Effects(project, Targets(project, n))

\* The main thread leaves its loop when nothing is left, and not before; the
\* cycles are those of the walk that it leaves.
Left ==
    /\ pc \in {"join", "cleanup", "done"} => ~HasCandidate(dag) /\ UnderWay = {}
    /\ pc = "done" => cycle = (Cycles(dag) # {})

\* -q executes nothing, and a requested file that neither exists nor can be
\* built is still to be looked at.
AllAsked == options.class = "question" =>
    /\ \A n \in Node \ AllEffects : dag.state[n] # "executed"
    /\ \A n \in Top : Absent(n) /\ dag.state[n] = "up_to_date" => n \in Unanswered

Travelled == Walking => InOrder(dag) /\ Lent /\ Left /\ AllAsked

\* Nothing is under way when the loop is left.
LEMMA NothingUnderWay ==
  ASSUME Types, JobsCounted, SerialIdle, NoTaskLeft, pc' \in {"join", "cleanup", "done"}
  PROVE  UnderWay = {}
<1>1. Len(requestQ) \in Nat /\ Len(resultsQ) \in Nat /\ Cardinality(RunningWorkers) \in Nat
  BY RunningCount DEF Types
<1>2. jobs = Len(requestQ) + Cardinality(RunningWorkers) + Len(resultsQ)
  BY DEF JobsCounted, RunningWorkers
<1>3. jobs = 0
  <2>1. Serial \/ ~(jobs > 0)
    BY DEF NoTaskLeft
  <2> QED  BY <1>1, <1>2, <2>1 DEF SerialIdle
<1>4. Len(requestQ) = 0 /\ Len(resultsQ) = 0 /\ Cardinality(RunningWorkers) = 0
  BY <1>1, <1>2, <1>3
<1>5. requestQ = <<>> /\ resultsQ = <<>> /\ RunningWorkers = {}
  <2>1. RunningWorkers = {}
    BY <1>4, RunningCount, FS_EmptySet
  <2> QED  BY <1>4, <2>1 DEF Types
<1>6. ToSet(requestQ) = {} /\ ToSet(resultsQ) = {}
  BY <1>5 DEF ToSet
<1>7. Running = {} /\ AtHand = {}
  BY <1>5 DEF Running, RunningWorkers, AtHand, NoTaskLeft, Types
<1> QED  BY <1>6, <1>7 DEF UnderWay, Brought

LEMMA StayingTravelled ==
  ASSUME Types, JobsCounted, SerialIdle, Walking, Walking', Travelled, UNCHANGED <<project, options>>, [Next]_vars, Staying
  PROVE  Travelled'
<1>1. InOrder(dag) /\ Lent /\ Left /\ AllAsked
  BY DEF Travelled
<1>2. UNCHANGED dag /\ UnderWay' = UnderWay
  BY DEF Staying
<1>3. InOrder(dag')
  BY <1>1, <1>2
<1>4. InOrder(dag)'
  BY <1>2, <1>3 DEF InOrder, Ranks, Top
<1>5. Lent'
  BY <1>1, <1>2 DEF Lent, AllEffects
<1>6. Left'
  <2>1. ASSUME pc' \in {"join", "cleanup", "done"} PROVE ~HasCandidate(dag)' /\ UnderWay' = {}
    <3>1. CASE pc \in {"join", "cleanup", "done"}
      BY <1>1, <1>2, <3>1 DEF Left, HasCandidate
    <3>2. CASE NoTaskLeft
      <4>1. ~HasCandidate(dag)
        BY <3>2 DEF NoTaskLeft, Walking
      <4> QED  BY <1>2, <2>1, <3>2, <4>1, NothingUnderWay DEF HasCandidate
    <3> QED  BY <2>1, <3>1, <3>2, LeavesLoop
  <2>2. ASSUME pc' = "done" PROVE cycle' = (Cycles(dag)' # {})
    <3>1. Cycles(dag)' = Cycles(dag)
      BY <1>2 DEF Cycles, OnCycle
    <3>2. CASE pc = "done" /\ cycle' = cycle
      BY <1>1, <3>1, <3>2 DEF Left
    <3>3. CASE Cleanup
      BY <3>1, <3>3 DEF Cleanup
    <3> QED  BY <2>2, <3>2, <3>3, LeavesLoop
  <2> QED  BY <2>1, <2>2 DEF Left
<1>7. AllAsked'
  BY <1>1, <1>2 DEF AllAsked, Staying, AllEffects, Top, Absent
<1> QED  BY <1>4, <1>5, <1>6, <1>7 DEF Travelled

LEMMA MovedInOrder ==
  ASSUME Types, Types', Entered, Tracked(dag), Tracked(dag'), UNCHANGED project, UnusedEffects, Remembered, Walking,
         InOrder(dag), SkipHandled \/ (\E n \in Node \ AllEffects : LookedAt(n)) \/ (\E n : Finishes(n))
  PROVE  InOrder(dag)'
<1>1. PICK e : e = dag'
  OBVIOUS
<1>2. IsWalk(dag) /\ IsWalk(e) /\ Tracked(e)
  BY <1>1 DEF Types
<1>3. Clear(dag, AllEffects)
  BY DEF Remembered, Remembers, AllEffects
<1>4. Top \subseteq Node \ AllEffects
  <2>1. project.top \in Seq(Node)
    BY ProjectSane DEF Sane
  <2> QED  BY <2>1, ToSetRange DEF UnusedEffects, NotUsed, Top
<1>5. Advances(dag, e)
  BY <1>1, MovesAdvance
<1>6. InOrder(e)
  BY <1>2, <1>3, <1>4, <1>5, AdvancesInOrder
<1> QED  BY <1>1, <1>6 DEF InOrder, Ranks, Top

LEMMA SkippedTravelled ==
  ASSUME Types, Types', Entered, Tracked(dag), Tracked(dag'), UnusedEffects, Remembered, Walking, Travelled,
         SkipHandled
  PROVE  Travelled'
<1>1. InOrder(dag) /\ Lent /\ AllAsked
  BY DEF Travelled
<1>2. /\ UNCHANGED <<project, options, task, pool, ended>> /\ pc = "look" /\ pc' = "next" /\ HasCandidate(dag)
      /\ dag' = WithoutCandidate(dag)
  BY DEF SkipHandled, Candidates
<1>3. dag'.state = dag.state
  BY <1>2, WithoutCandidateFields DEF Types
<1>4. UnderWay' = UnderWay /\ Unanswered' = Unanswered /\ AllEffects' = AllEffects
  BY <1>2 DEF UnderWay, Unanswered, Running, Brought, AtHand, AllEffects, pool
<1>5. InOrder(dag)'
  BY <1>1, <1>2, MovedInOrder
<1>6. Lent'
  BY <1>1, <1>2, <1>3, <1>4 DEF Lent
<1>7. Left'
  BY <1>2 DEF Left
<1>8. AllAsked'
  BY <1>1, <1>2, <1>3, <1>4 DEF AllAsked, Top, Absent
<1> QED  BY <1>5, <1>6, <1>7, <1>8 DEF Travelled

LEMMA LookedTravelled ==
  ASSUME Types, Types', Entered, Tracked(dag), Tracked(dag'), UnusedEffects, Remembered, Walking, Travelled,
         NEW n \in Node \ AllEffects, LookedAt(n)
  PROVE  Travelled'
<1>1. InOrder(dag) /\ Lent /\ AllAsked /\ Sane(project) /\ PlainFiles(project)
  BY ProjectSane DEF Travelled, UnusedEffects
<1>2. /\ UNCHANGED <<project, options, pool, ended>> /\ pc = "look" /\ dag.state[n] \notin Handled
      /\ OthersAs(dag, dag', n) /\ AtHand = {}
      /\ pc' = "next" \/ (pc' = "prepare" /\ task' = n)
      /\ \/ dag'.state = TakenStates(dag, n)
         \/ /\ pc' = "prepare" /\ task' = n /\ Agree(dag', Targets(project, n), Begins)
            /\ \A s \in AllEffects : dag'.state[s] = dag.state[s] \/ s \in Effects(project, Targets(project, n))
  BY DEF LookedAt, AtHand, Types
<1>3. UnderWay \subseteq UnderWay' /\ (pc' = "prepare" => n \in UnderWay' /\ n \in Unanswered')
      /\ Unanswered \subseteq Unanswered' /\ AllEffects' = AllEffects
  BY <1>2, TaskNode DEF UnderWay, Unanswered, Running, Brought, AtHand, AllEffects, pool
<1>4. dag.state \in [Node -> NodeState] /\ AllEffects \subseteq Node
  BY <1>1, EffectsPlain DEF Types, IsWalk, AllEffects
<1>5. \A m \in Node : TakenStates(dag, n)[m] = dag.state[m] \/ (m = n /\ TakenStates(dag, n)[m] = "pending")
  BY <1>4 DEF TakenStates
<1>6. InOrder(dag)'
  BY <1>1, <1>2, MovedInOrder
<1>7. Lent'
  <2> SUFFICES ASSUME NEW s \in AllEffects, dag'.state[s] = "executing"
               PROVE  \E m \in UnderWay' : s \in Effects(project, Targets(project, m))
    BY <1>2, <1>3 DEF Lent
  <2>1. dag.state[s] = "executing" \/ (pc' = "prepare" /\ s \in Effects(project, Targets(project, n)))
    BY <1>2, <1>4, <1>5
  <2> QED  BY <1>1, <1>3, <2>1 DEF Lent
<1>8. Left'
  BY <1>2 DEF Left
<1>9. AllAsked'
  <2> SUFFICES ASSUME options.class = "question"
               PROVE  /\ \A m \in Node \ AllEffects : dag'.state[m] # "executed"
                      /\ \A m \in Top : Absent(m) /\ dag'.state[m] = "up_to_date" => m \in Unanswered'
    BY <1>2, <1>3 DEF AllAsked, Top, Absent
  <2>1. /\ \A m \in Node \ AllEffects : dag.state[m] # "executed"
        /\ \A m \in Top : Absent(m) /\ dag.state[m] = "up_to_date" => m \in Unanswered
    BY <1>1 DEF AllAsked
  <2>2. ASSUME NEW m \in Node \ AllEffects
        PROVE  \/ dag'.state[m] \in {dag.state[m], "pending"}
               \/ m \in Targets(project, n) /\ pc' = "prepare" /\ dag'.state[m] \in Begins
    BY <1>2, <1>5 DEF OthersAs, Agree
  <2>3. \A m \in Node \ AllEffects : dag'.state[m] # "executed"
    BY <2>1, <2>2 DEF Begins
  <2>4. ASSUME NEW m \in Top, Absent(m), dag'.state[m] = "up_to_date"
        PROVE  m \in Unanswered'
    <3>1. m \in Node \ AllEffects
      <4>1. project.top \in Seq(Node)
        BY <1>1 DEF Sane
      <4> QED  BY <2>4, <4>1, ToSetRange DEF UnusedEffects, NotUsed, Top
    <3>2. CASE dag.state[m] = "up_to_date"
      BY <1>3, <2>1, <2>4, <3>2
    <3>3. CASE m \in Targets(project, n) /\ pc' = "prepare"
      <4>1. m \in Node \ project.builder
        BY <2>4, <3>1 DEF Absent, Derived
      <4>2. Targets(project, m) = {m}
        BY <1>1, <4>1 DEF PlainFiles
      <4>3. Targets(project, m) = Targets(project, n) /\ n \in Targets(project, n)
        BY <1>1, <3>3 DEF Sane, Targets
      <4> QED  BY <1>3, <3>3, <4>2, <4>3
    <3> QED  BY <2>2, <2>4, <3>1, <3>2, <3>3
  <2> QED  BY <2>3, <2>4
<1> QED  BY <1>6, <1>7, <1>8, <1>9 DEF Travelled

LEMMA FinishedTravelled ==
  ASSUME Types, Types', Entered, Tracked(dag), Tracked(dag'), UNCHANGED <<project, options>>, UnusedEffects, Remembered,
         Walking, Travelled, NEW n, Finishes(n)
  PROVE  Travelled'
<1>1. InOrder(dag) /\ Lent /\ AllAsked /\ Sane(project) /\ PlainFiles(project) /\ IsWalk(dag) /\ Clear(dag, AllEffects)
  BY ProjectSane DEF Travelled, UnusedEffects, Types, Remembered, Remembers, AllEffects
<1>2. n \in Node /\ n \notin AllEffects /\ Ending(n)
  BY DEF Finishes
<1>3. PICK e : e = dag'
  OBVIOUS
<1>4. PICK a : /\ Concluded(project, dag, a, Targets(project, n)) /\ e \in Postprocessed(project, a, Targets(project, n))
               /\ options.class = "question" => a = dag
  BY <1>3 DEF Finishes
<1>5. PICK T : T = Targets(project, n)
  OBVIOUS
<1>6. T \in SUBSET Node /\ AllEffects \subseteq Node
  BY <1>1, <1>2, <1>5, TargetsAreNodes, EffectsPlain DEF AllEffects
<1>7. \A s \in AllEffects : \/ e.state[s] = dag.state[s]
                            \/ s \in Effects(project, T) /\ e.state[s] = "no_state"
  BY <1>1, <1>2, <1>4, <1>5, ConcludedFields
<1>8. /\ \A s \in Effects(project, T) : s \in Node => e.state[s] # "executing"
      /\ a = dag => \A c \in Node : e.state[c] \in {dag.state[c], "no_state"}
  <2>1. Concluded(project, dag, a, T) /\ e \in Postprocessed(project, a, T)
    BY <1>4, <1>5
  <2> QED  BY ONLY <1>1, <1>6, <2>1, ConcludedRest
<1>9. InOrder(dag)'
  BY <1>1, MovedInOrder
<1>10. Lent'
  <2> SUFFICES ASSUME NEW s \in AllEffects, e.state[s] = "executing"
               PROVE  \E m \in UnderWay' : s \in Effects(project, Targets(project, m))
    BY <1>3 DEF Lent, AllEffects
  <2>1. dag.state[s] = "executing" /\ s \notin Effects(project, T)
    BY <1>6, <1>7, <1>8
  <2>2. PICK m \in UnderWay : s \in Effects(project, Targets(project, m))
    BY <1>1, <2>1 DEF Lent
  <2>3. m \in UnderWay'
    BY <1>2, <1>5, <2>1, <2>2 DEF Ending
  <2> QED  BY <2>2, <2>3
<1>11. Left'
  BY <1>2 DEF Left, Ending
<1>12. AllAsked'
  <2> SUFFICES ASSUME options.class = "question"
               PROVE  /\ \A m \in Node \ AllEffects : e.state[m] # "executed"
                      /\ \A m \in Top : Absent(m) /\ e.state[m] = "up_to_date" => m \in Unanswered'
    BY <1>3 DEF AllAsked, Top, Absent, AllEffects
  <2>1. /\ \A m \in Node \ AllEffects : dag.state[m] # "executed"
        /\ \A m \in Top : Absent(m) /\ dag.state[m] = "up_to_date" => m \in Unanswered
    BY <1>1 DEF AllAsked
  <2>2. \A c \in Node : e.state[c] \in {dag.state[c], "no_state"}
    BY <1>4, <1>8
  <2>3. Top \subseteq Node
    <3>1. project.top \in Seq(Node)
      BY <1>1 DEF Sane
    <3> QED  BY <3>1, ToSetRange DEF Top
  <2>4. Unanswered \subseteq Unanswered'
    BY <1>2 DEF Unanswered, Ending
  <2> QED  BY <2>1, <2>2, <2>3, <2>4
<1> QED  BY <1>9, <1>10, <1>11, <1>12 DEF Travelled

LEMMA InitTravelled ==
  ASSUME Init
  PROVE  Travelled /\ SerialIdle
<1>1. /\ \A n \in Node : dag.state[n] = "no_state" /\ dag.wp[n] = {}
      /\ dag.pending = {} /\ dag.topLeft = Reverse(project.top) /\ pc = "next"
  BY DEF Init, NewWalk
<1>2. ToSet(Reverse(project.top)) = Top
  <2>1. project.top \in Seq(Node)
    BY ProjectsSane DEF Init, Sane
  <2>2. PICK s \in Seq(Node) : s = project.top
    BY <2>1
  <2>3. \A i \in 1..Len(s) : Len(s) - i + 1 \in 1..Len(s) /\ Len(s) - (Len(s) - i + 1) + 1 = i
    OBVIOUS
  <2>4. Reverse(s) = [i \in 1..Len(s) |-> s[Len(s) - i + 1]]
    BY DEF Reverse
  <2>5. DOMAIN Reverse(s) = 1..Len(s) /\ DOMAIN s = 1..Len(s)
    BY <2>4
  <2>6. ToSet(Reverse(s)) = ToSet(s)
    <3>1. ASSUME NEW i \in 1..Len(s) PROVE s[i] \in ToSet(Reverse(s)) /\ Reverse(s)[i] \in ToSet(s)
      <4>1. Reverse(s)[Len(s) - i + 1] = s[i] /\ Reverse(s)[i] = s[Len(s) - i + 1]
        BY <2>3, <2>4
      <4> QED  BY <2>3, <2>5, <4>1 DEF ToSet
    <3> QED  BY <2>5, <3>1 DEF ToSet
  <2> QED  BY <2>2, <2>6 DEF Top
<1>3. \E k \in Nat : \E r : Ranks(dag, r, k)
  <2>1. Ranks(dag, [n \in Node |-> 0], 0)
    BY <1>1 DEF Ranks
  <2> QED  BY <2>1
<1>4. InOrder(dag)
  BY <1>1, <1>2, <1>3 DEF InOrder
<1>5. Lent
  <2>1. AllEffects \subseteq Node
    BY ProjectsSane, EffectsPlain DEF Init, AllEffects
  <2> QED  BY <1>1, <2>1 DEF Lent
<1>6. AllAsked
  <2>1. Top \subseteq Node
    <3>1. project.top \in Seq(Node)
      BY ProjectsSane DEF Init, Sane
    <3> QED  BY <3>1, ToSetRange DEF Top
  <2> QED  BY <1>1, <2>1 DEF AllAsked
<1> QED  BY <1>1, <1>4, <1>5, <1>6 DEF Travelled, Left, SerialIdle, Init

LEMMA TravelledStep ==
  ASSUME Types, Types', Entered, Tracked(dag), Tracked(dag'), JobsCounted, SerialIdle, UnusedEffects, Settled, Remembered,
         InterruptStops, Travelled, [Next]_vars
  PROVE  Travelled'
<1> SUFFICES ASSUME Walking' PROVE Travelled'
  BY DEF Travelled
<1>1. UNCHANGED <<project, options>> /\ Walking
  BY WalkingBefore
<1>2. Staying \/ SkipHandled \/ (\E n \in Node \ AllEffects : LookedAt(n)) \/ (\E n : Finishes(n))
  BY <1>1, WalkMoves
<1> QED  BY <1>1, <1>2, StayingTravelled, SkippedTravelled, LookedTravelled, FinishedTravelled

----------------------------------------------------------------------------
(* Why a walk is stopped, and what a scan tells.                           *)

\* Why a walk is stopped; and with -c and -q nothing fails but by a signal.
StopNoted ==
    /\ dag.stopped => interrupted \/ broken # {} \/ (options.class = "question" /\ status # 0)
    /\ \A w \in Worker : worker[w].doomed => interrupted
    /\ options.class # "build" =>
          /\ broken # {} => interrupted
          /\ \A i \in DOMAIN resultsQ : ~resultsQ[i].ok => interrupted
          /\ pc # "failed"

LEMMA EndsStop ==
  ASSUME Types, dag.currentTop \in Node, NEW n \in Node, Complete(n) \/ Fail(n), UNCHANGED options
  PROVE  /\ broken \subseteq broken' /\ (options.class # "build" => UNCHANGED status)
         /\ dag'.stopped => dag.stopped \/ broken' # {}
         /\ options.class # "build" /\ ~Fail(n) => UNCHANGED broken
<1>0. Sane(project)
  BY ProjectSane
<1>1. broken \subseteq broken' /\ (options.class # "build" => UNCHANGED status)
  BY DEF Complete, Fail
<1>2. PICK after, over : Ends(n, after, over) /\ dag' \in Postprocessed(project, after, over)
  BY TaskEnds
<1>3. IsWalk(after) /\ over \in SUBSET Node
  BY <1>2, EndsWalk
<1>4. dag'.stopped = after.stopped
  BY <1>0, <1>2, <1>3, PostprocessedStates
<1>5. after.stopped => dag.stopped \/ Policy = "stop"
  <2>1. PICK T : T = Targets(project, n)
    OBVIOUS
  <2>2. IsWalk(dag) /\ T \in SUBSET Node
    BY <1>0, <2>1, TargetsAreNodes DEF Types
  <2>3. Executed(project, dag, T).stopped = dag.stopped
    BY <1>0, <2>2, ExecutedFields
  <2>4. Released(project, dag, T).stopped = dag.stopped
    BY <1>0, <2>2, ReleasedFields
  <2>5. WillNotBuild(dag, T, TRUE).stopped = dag.stopped
    BY <2>2, WillNotBuildFields
  <2> QED  BY <1>2, <2>1, <2>3, <2>4, <2>5 DEF Ends
<1>6. Fail(n) /\ Policy = "stop" => broken' # {}
  BY <1>0 DEF Fail, Sane
<1>7. Complete(n) /\ ~Fail(n) => dag'.stopped = dag.stopped
  <2> SUFFICES ASSUME Complete(n), ~Fail(n) PROVE dag'.stopped = dag.stopped
    OBVIOUS
  <2>1. PICK T : T = Targets(project, n)
    OBVIOUS
  <2>2. IsWalk(dag) /\ T \in SUBSET Node
    BY <1>0, <2>1, TargetsAreNodes DEF Types
  <2>3. PICK e : e = dag'
    OBVIOUS
  <2>4. PICK a : a \in {Executed(project, dag, T), Released(project, dag, T), dag} /\ e \in Postprocessed(project, a, T)
    BY <2>1, <2>3, PolicyRange DEF Complete
  <2>5. IsWalk(a) /\ a.stopped = dag.stopped
    <3>1. CASE a = Executed(project, dag, T)
      <4>1. Executed(project, dag, T).stopped = dag.stopped
        BY <1>0, <2>2, ExecutedFields
      <4> QED  BY <1>0, <2>2, <3>1, <4>1, ExecutedWalk DEF Later
    <3>2. CASE a = Released(project, dag, T)
      <4>1. Released(project, dag, T).stopped = dag.stopped
        BY <1>0, <2>2, ReleasedFields
      <4> QED  BY <1>0, <2>2, <3>2, <4>1, ReleasedWalk DEF Later
    <3>3. CASE a = dag
      BY <2>2, <3>3
    <3> QED  BY <2>4, <3>1, <3>2, <3>3
  <2>6. e.stopped = a.stopped
    BY <1>0, <2>2, <2>4, <2>5, PostprocessedStates
  <2> QED  BY <2>3, <2>5, <2>6
<1>8. options.class # "build" /\ ~Fail(n) => UNCHANGED broken
  BY DEF Complete
<1> QED  BY <1>1, <1>4, <1>5, <1>6, <1>7, <1>8

\* No other step stops the walk, but a signal and -q.
LEMMA OthersStop ==
  ASSUME Types, Entered, [Next]_vars, dag'.stopped, ~dag.stopped
  PROVE  \/ Signal
         \/ PrepareFails \/ SkipCurrent \/ ConcludeSerially \/ GetResult
         \/ options.class = "question" /\ status' # 0
<1>1. CASE Examine
  <2>1. PICK d : dag'.stopped = d.stopped /\ d.stopped = dag.stopped
    <3>1. PICK fresh :
            LET n    == Candidate(dag)
                d    == Seen(n, fresh)
                kids == Children(project, d, n)
            IN  \E order \in PushOrders(d, kids) : Looks(n, d, kids, order)
      BY <1>1, ExamineLooks
    <3>2. PICK n \in Node : n = Candidate(dag)
      BY <1>1, ExamineLooks
    <3>3. PICK d : d = Seen(n, fresh)
      OBVIOUS
    <3>4. PICK kids \in SUBSET Node : kids = Children(project, d, n)
      BY DEF Children
    <3>5. PICK order \in PushOrders(d, kids) : Looks(n, d, kids, order)
      BY <3>1, <3>2, <3>3, <3>4
    <3>6. IsWalk(d) /\ d.stopped = dag.stopped
      BY <1>1, <3>2, <3>3, SeenFields DEF Examine
    <3>7. dag'.stopped = d.stopped
      BY <3>5, <3>6, ProjectSane, LooksStates
    <3> QED  BY <3>6, <3>7
  <2> QED  BY <2>1
<1>2. CASE ScanRaises
  <2>1. PICK n \in Node : n = Candidate(dag) /\ (dag' \in Ready(project, Begin(n), n) \/ dag' = Begin(n))
    BY <1>2, ScanRaisesLooks
  <2>2. PICK b : b = Begin(n)
    OBVIOUS
  <2>3. IsWalk(b) /\ b.stopped = dag.stopped
    BY <1>2, <2>1, <2>2, BeginFields DEF ScanRaises
  <2>4. PICK e : e = dag' /\ (e \in Ready(project, b, n) \/ e = b)
    BY <2>1, <2>2
  <2>5. e.stopped = b.stopped
    BY <2>3, <2>4, ProjectSane, ReadyStates
  <2> QED  BY <2>3, <2>4, <2>5
<1>3. CASE SkipHandled
  BY <1>3, WithoutCandidateFields DEF SkipHandled, Types
<1>4. CASE NoTaskLeft
  BY <1>4 DEF NoTaskLeft
<1>5. ASSUME NEW n, Execute(n) PROVE options.class = "question" /\ status' # 0
  BY <1>5 DEF Execute
<1>6. CASE ExecuteSerially
  BY <1>5, <1>6 DEF ExecuteSerially
<1>7. ASSUME NEW w \in Worker, WorkerStep(w) PROVE options.class = "question" /\ status' # 0
  BY <1>5, <1>7 DEF WorkerStep, Take, Deliver, Quit, walk
<1> QED  BY <1>1, <1>2, <1>3, <1>4, <1>6, <1>7 DEF Next, MainStep, Over, vars, walk, TakeCandidate, Dispatch, PostSentinels, Cleanup

LEMMA StopNotedStep ==
  ASSUME Types, Entered, StopNoted, [Next]_vars
  PROVE  StopNoted'
<1>0. UNCHANGED <<project, options>>
  BY StepOnward DEF Onward
<1>1. CASE PrepareFails \/ SkipCurrent \/ ConcludeSerially \/ GetResult
  <2>0. \A n : options.class # "build" /\ Complete(n) => UNCHANGED broken
    BY DEF Complete
  <2>1. PICK n \in Node : /\ Complete(n) \/ Fail(n)
                          /\ options.class # "build" /\ ~interrupted => UNCHANGED broken
                          /\ dag.currentTop \in Node
    <3>1. CASE PrepareFails \/ SkipCurrent \/ ConcludeSerially
      <4>1. task \in Node /\ dag.currentTop \in Node
        BY <3>1, TaskNode DEF PrepareFails, SkipCurrent, ConcludeSerially, Prepared, Types, Entered
      <4>2. Complete(task) \/ Fail(task)
        BY <3>1 DEF PrepareFails, SkipCurrent, ConcludeSerially
      <4>3. options.class # "build" => Complete(task)
        BY <3>1 DEF PrepareFails, SkipCurrent, ConcludeSerially, StopNoted
      <4> QED  BY <2>0, <4>1, <4>2, <4>3
    <3>2. CASE GetResult
      <4>1. resultsQ # <<>> /\ Head(resultsQ) = resultsQ[1] /\ 1 \in DOMAIN resultsQ /\ Head(resultsQ) \in Result
        BY <3>2 DEF GetResult, Types
      <4>2. Head(resultsQ).node \in Node /\ dag.currentTop \in Node
        BY <4>1 DEF Result, Entered
      <4>3. /\ Complete(Head(resultsQ).node) \/ Fail(Head(resultsQ).node)
            /\ Head(resultsQ).ok => Complete(Head(resultsQ).node)
        BY <3>2 DEF GetResult
      <4>4. options.class # "build" /\ ~interrupted => Head(resultsQ).ok
        BY <4>1 DEF StopNoted
      <4> QED  BY <2>0, <4>2, <4>3, <4>4
    <3> QED  BY <1>1, <3>1, <3>2
  <2>2. /\ broken \subseteq broken' /\ (options.class # "build" => UNCHANGED status)
        /\ dag'.stopped => dag.stopped \/ broken' # {}
        /\ options.class # "build" /\ ~Fail(n) => UNCHANGED broken
    BY <1>0, <2>1, EndsStop
  <2>3. /\ UNCHANGED <<worker, interrupted>> /\ pc' \in {"next", "wait"}
        /\ resultsQ' = resultsQ \/ (resultsQ # <<>> /\ resultsQ' = Tail(resultsQ))
    BY <1>1 DEF PrepareFails, SkipCurrent, ConcludeSerially, GetResult, pool
  <2>4. \A i \in DOMAIN resultsQ' : \E j \in DOMAIN resultsQ : resultsQ'[i] = resultsQ[j]
    <3>1. CASE resultsQ' = resultsQ
      BY <3>1
    <3>2. CASE resultsQ # <<>> /\ resultsQ' = Tail(resultsQ)
      <4>1. PICK q \in Seq(Result) : q = resultsQ /\ q # <<>>
        BY <3>2 DEF Types
      <4>2. \A i \in DOMAIN Tail(q) : i + 1 \in DOMAIN q /\ Tail(q)[i] = q[i + 1]
        BY <4>1
      <4> QED  BY <3>2, <4>1, <4>2
    <3> QED  BY <2>3, <3>1, <3>2
  <2> QED  BY <1>0, <2>1, <2>2, <2>3, <2>4 DEF StopNoted
<1>2. CASE ~(PrepareFails \/ SkipCurrent \/ ConcludeSerially \/ GetResult)
  <2>1. UNCHANGED broken /\ (interrupted => interrupted') /\ (status # 0 => status' # 0) /\ (Signal => interrupted')
    <3>1. CASE Examine
      <4>1. UNCHANGED <<interrupted, status, broken>>
        BY <3>1, ExamineLooks DEF ended
      <4> QED  BY <4>1 DEF Signal
    <3>2. \A n : Execute(n) => (status # 0 => status' # 0)
      BY DEF Execute
    <3>3. CASE ExecuteSerially
      <4>1. Execute(task) /\ UNCHANGED <<interrupted, broken>> /\ ~Signal
        BY <3>3 DEF ExecuteSerially, Signal
      <4> QED  BY <3>2, <4>1
    <3>4. ASSUME NEW w \in Worker, Take(w)
          PROVE  UNCHANGED broken /\ (interrupted => interrupted') /\ (status # 0 => status' # 0) /\ (Signal => interrupted')
      BY <3>2, <3>4 DEF Take, Signal
    <3>5. CASE TakeCandidate \/ SkipHandled \/ ScanRaises \/ NoTaskLeft \/ Dispatch \/ PostSentinels \/ Cleanup \/ Signal
               \/ UNCHANGED vars \/ \E w \in Worker : Deliver(w) \/ Quit(w)
      BY <3>5 DEF vars, ended, TakeCandidate, SkipHandled, ScanRaises, Hand, NoTaskLeft, Dispatch, Deliver, Quit, PostSentinels,
                  Cleanup, Signal
    <3> QED  BY <1>2, <3>1, <3>3, <3>4, <3>5 DEF Next, MainStep, WorkerStep, Over
  <2>2. dag'.stopped => interrupted' \/ broken' # {} \/ (options.class = "question" /\ status' # 0)
    BY <1>2, <2>1, OthersStop DEF StopNoted
  <2>3. /\ \A w \in Worker : worker'[w].doomed => interrupted'
        /\ options.class # "build" => \A i \in DOMAIN resultsQ' : ~resultsQ'[i].ok => interrupted'
    <3>1. ASSUME NEW w \in Worker, Take(w)
          PROVE  \A v \in Worker : worker'[v].doomed => interrupted'
      BY <2>1, <3>1 DEF Take, Run, StopNoted, Types
    <3>2. ASSUME NEW w \in Worker, Deliver(w)
          PROVE  /\ \A v \in Worker : worker'[v].doomed => interrupted'
                 /\ (options.class # "build" => \A i \in DOMAIN resultsQ' : ~resultsQ'[i].ok => interrupted')
      <4>1. \A v \in Worker : worker'[v].doomed => interrupted'
        BY <2>1, <3>2 DEF Deliver, Idle, StopNoted, Types
      <4>2. ASSUME options.class # "build", NEW i \in DOMAIN resultsQ', ~resultsQ'[i].ok PROVE interrupted'
        <5>1. PICK ok \in BOOLEAN : /\ IF worker[w].doomed THEN ~ok ELSE (ok \/ MayFail)
                                    /\ resultsQ' = Append(resultsQ, [node |-> worker[w].node, ok |-> ok])
          BY <3>2 DEF Deliver
        <5>2. (i \in DOMAIN resultsQ /\ resultsQ'[i] = resultsQ[i]) \/ resultsQ'[i].ok = ok
          BY <5>1 DEF Types
        <5>3. ~MayFail
          BY <4>2 DEF MayFail
        <5> QED  BY <2>1, <4>2, <5>1, <5>2, <5>3 DEF StopNoted
      <4> QED  BY <4>1, <4>2
    <3>3. ASSUME NEW w \in Worker, Quit(w)
          PROVE  \A v \in Worker : worker'[v].doomed => interrupted'
      BY <2>1, <3>3 DEF Quit, Idle, StopNoted, Types
    <3>4. \/ UNCHANGED <<worker, resultsQ>>
          \/ \E w \in Worker : Deliver(w)
          \/ \E w \in Worker : (Take(w) \/ Quit(w)) /\ UNCHANGED resultsQ
      <4>1. CASE Examine
        BY <4>1, ExamineLooks DEF pool
      <4> QED  BY <1>2, <4>1 DEF Next, MainStep, WorkerStep, Over, vars, pool, TakeCandidate, SkipHandled, ScanRaises, Hand, NoTaskLeft,
                   Dispatch, ExecuteSerially, Take, Quit, PostSentinels, Cleanup, Signal
    <3> QED  BY <2>1, <3>1, <3>2, <3>3, <3>4 DEF StopNoted
  <2>4. options.class # "build" => pc' # "failed"
    <3>1. CASE Examine
      BY <3>1, ExamineLooks DEF Looks, StopNoted
    <3>2. CASE ExecuteSerially
      BY <3>2 DEF ExecuteSerially, MayFail
    <3> QED  BY <1>2, <3>1, <3>2 DEF Next, MainStep, WorkerStep, Over, vars, walk, TakeCandidate, SkipHandled, ScanRaises, Hand, NoTaskLeft,
                   Dispatch, Take, Deliver, Quit, PostSentinels, Cleanup, Signal, StopNoted
  <2> QED  BY <1>0, <2>1, <2>2, <2>3, <2>4 DEF StopNoted
<1> QED  BY <1>1, <1>2

LEMMA InitStopNoted == Init => StopNoted
BY DEF Init, NewWalk, StopNoted, Idle

\* The hypothesis: what is not built, nor written on the side, depends on
\* nothing.
PlainLeaves ==
    \A n \in Node \ (project.builder \cup AllEffects) : project.sources[n] = <<>> /\ project.prereqs[n] = <<>>

LEMMA LeavesNeedNothing ==
  ASSUME Types, UnusedEffects, PlainLeaves, NEW n \in Node \ (project.builder \cup AllEffects)
  PROVE  Needs(n) = {}
<1>1. Targets(project, n) = {n} /\ project.sources[n] = <<>> /\ project.prereqs[n] = <<>>
  BY DEF UnusedEffects, PlainFiles, PlainLeaves
<1>2. ToSet(project.sources[n]) = {} /\ ToSet(project.prereqs[n]) = {}
  BY <1>1 DEF ToSet
<1>3. Sources(project, n) = {} /\ Declared(n) = {}
  BY <1>1, <1>2 DEF Sources, Declared
<1>4. UNION {project.includes[s] : s \in Sources(project, n)} = {}
  BY <1>3
<1>5. Closure(project.includes, {}) \subseteq {}
  BY ClosureLeast
<1> QED  BY <1>3, <1>4, <1>5 DEF Needs

LEMMA NeedsUsable ==
  ASSUME Types, UnusedEffects, NEW n \in Node
  PROVE  Needs(n) \subseteq Node \ AllEffects
<1>1. Sane(project) /\ NotUsed(project, AllEffects)
  BY ProjectSane DEF UnusedEffects
<1>2. PICK X : X = Node \ AllEffects
  OBVIOUS
<1>3. \A m \in Node : /\ ToSet(project.sources[m]) \subseteq X /\ ToSet(project.prereqs[m]) \subseteq X
                      /\ project.includes[m] \subseteq X
  <2>1. ASSUME NEW m \in Node
        PROVE  ToSet(project.sources[m]) \subseteq Node /\ ToSet(project.prereqs[m]) \subseteq Node
    <3>1. project.sources[m] \in Seq(Node) /\ project.prereqs[m] \in Seq(Node)
      BY <1>1 DEF Sane
    <3> QED  BY <3>1, ToSetRange
  <2> QED  BY <1>1, <1>2, <2>1 DEF NotUsed, Sane
<1>4. Targets(project, n) \subseteq Node
  BY <1>1, TargetsAreNodes
<1>5. Sources(project, n) \subseteq X /\ Declared(n) \subseteq X
  BY <1>3, <1>4 DEF Sources, Declared
<1>6. UNION {project.includes[s] : s \in Sources(project, n)} \subseteq X
  BY <1>2, <1>3, <1>5
<1>7. PICK I : I = UNION {project.includes[s] : s \in Sources(project, n)}
  OBVIOUS
<1>8. Closure(project.includes, I) \subseteq X
  BY <1>2, <1>3, <1>6, <1>7, ClosureLeast
<1> QED  BY <1>2, <1>5, <1>7, <1>8 DEF Needs

NeedsGraph == [m \in Node |-> Needs(m)]

\* The targets of an action are handled together.
Together == Walking =>
    \A n \in Node \ AllEffects : \A t \in Targets(project, n) :
        dag.state[n] \in Handled => dag.state[t] \in Handled

\* What was begun, but for a task that is to fail, has all it needs finished,
\* and it is on no cycle.
Based == Walking /\ options.class # "question" =>
    \A n \in project.builder : Begun(dag, n) /\ ~(raised /\ n \in Targets(project, task)) =>
        /\ \A c \in Needs(n) : dag.state[c] \in Finished
        /\ n \notin Closure(NeedsGraph, Needs(n))

\* What the scans know, as long as nothing failed.
ScansTold == TasksHandled /\ (Walking => ScanInv)

LEMMA ScansToldStep ==
  ASSUME Types, Entered, ScansTold, [Next]_vars
  PROVE  ScansTold'
<1>1. UNCHANGED <<project, options>> /\ (Walking' => Walking)
  BY WalkingBefore
<1>2. CASE MainStep
  <2>1. TasksHandled'
    BY <1>2, MainTasks DEF ScansTold
  <2>2. ASSUME Walking' PROVE ScanInv'
    <3>1. broken' = {}
      BY <2>2 DEF Walking
    <3>2. ScanInv
      BY <1>1, <2>2 DEF ScansTold
    <3> QED  BY <1>2, <3>1, <3>2, MainScan DEF ScansTold
  <2> QED  BY <2>1, <2>2 DEF ScansTold
<1>3. CASE (\E w \in Worker : WorkerStep(w)) \/ Signal \/ UNCHANGED vars
  <2>1. TasksHandled'
    BY <1>3, OtherTasks DEF ScansTold
  <2>2. ASSUME Walking' PROVE ScanInv'
    <3>1. ScanInv
      BY <1>1, <2>2 DEF ScansTold
    <3> QED  BY <1>3, <3>1, OtherScan
  <2> QED  BY <2>1, <2>2 DEF ScansTold
<1> QED  BY <1>2, <1>3 DEF Next, Over

\* What a step does to the states of what is not written on the side: with a
\* look at x its targets are begun or nothing is handled, at the end of a task
\* its targets are finished.
LEMMA MovesStates ==
  ASSUME Types, Types', Entered, Tracked(dag), UnusedEffects, Settled, Remembered, InterruptStops,
         Walking, Walking', [Next]_vars
  PROVE  \/ dag'.state = dag.state
         \/ \E x \in Node \ AllEffects : LookedAt(x)
         \/ \E x \in Node \ AllEffects :
              /\ \A c \in Targets(project, x) : dag'.state[c] = IF dag.state[c] = "executing" THEN "executed" ELSE dag.state[c]
              /\ \A c \in Targets(project, x) : dag'.state[c] \in Finished
              /\ \A c \in Node \ AllEffects : c \notin Targets(project, x) => dag'.state[c] = dag.state[c]
<1>0. Sane(project) /\ PlainFiles(project) /\ IsWalk(dag) /\ Clear(dag, AllEffects)
  BY ProjectSane DEF UnusedEffects, Types, Remembered, Remembers, AllEffects
<1>1. CASE Staying
  BY <1>1 DEF Staying
<1>2. CASE SkipHandled
  BY <1>0, <1>2, WithoutCandidateFields DEF SkipHandled
<1>3. ASSUME NEW n, Finishes(n)
      PROVE  \E x \in Node \ AllEffects :
              /\ \A c \in Targets(project, x) : dag'.state[c] = IF dag.state[c] = "executing" THEN "executed" ELSE dag.state[c]
              /\ \A c \in Targets(project, x) : dag'.state[c] \in Finished
              /\ \A c \in Node \ AllEffects : c \notin Targets(project, x) => dag'.state[c] = dag.state[c]
  <2>1. PICK e : e = dag'
    OBVIOUS
  <2>2. PICK a : Concluded(project, dag, a, Targets(project, n)) /\ e \in Postprocessed(project, a, Targets(project, n))
    BY <1>3, <2>1 DEF Finishes
  <2>3. n \in Node /\ n \notin AllEffects
    BY <1>3 DEF Finishes
  <2>4. PICK T : T = Targets(project, n)
    OBVIOUS
  <2>5. /\ \A c \in T : e.state[c] \in {"executed", "up_to_date"}
        /\ \A c \in T : e.state[c] = IF dag.state[c] = "executing" THEN "executed" ELSE dag.state[c]
        /\ \A c \in Node : c \notin T /\ c \notin AllEffects => e.state[c] = dag.state[c]
    BY <1>0, <2>2, <2>3, <2>4, ConcludedFields
  <2> QED  BY <2>1, <2>3, <2>4, <2>5 DEF Finished
<1> QED  BY <1>1, <1>2, <1>3, WalkMoves

LEMMA TogetherStep ==
  ASSUME Types, Types', Entered, Tracked(dag), UnusedEffects, Settled, Remembered, InterruptStops, Together, [Next]_vars
  PROVE  Together'
<1> SUFFICES ASSUME Walking', NEW n \in Node \ AllEffects, NEW t \in Targets(project, n), dag'.state[n] \in Handled
             PROVE  dag'.state[t] \in Handled
  <2>1. UNCHANGED project
    BY WalkingBefore
  <2> QED  BY <2>1 DEF Together, AllEffects
<1>1. /\ Walking /\ Sane(project) /\ PlainFiles(project) /\ dag.state \in [Node -> NodeState]
      /\ t \in Node \ AllEffects /\ n \in Targets(project, n)
  <2>1. Walking /\ Sane(project) /\ PlainFiles(project) /\ dag.state \in [Node -> NodeState]
    BY WalkingBefore, ProjectSane DEF UnusedEffects, Types, IsWalk
  <2> QED  BY <2>1, TargetsApart DEF Sane
<1>2. dag.state[n] \in Handled => dag.state[t] \in Handled
  BY <1>1 DEF Together
<1>3. CASE dag'.state = dag.state
  BY <1>2, <1>3
<1>4. ASSUME NEW x \in Node \ AllEffects, Targets(project, x) = Targets(project, n),
             \A c \in Targets(project, x) : dag'.state[c] \in Handled
      PROVE  dag'.state[t] \in Handled
  BY <1>4
<1>5. ASSUME NEW x \in Node \ AllEffects,
             \A c \in Node \ AllEffects : c \notin Targets(project, x) => dag'.state[c] = dag.state[c],
             Targets(project, x) \cap Targets(project, n) = {}
      PROVE  dag'.state[t] \in Handled
  BY <1>1, <1>2, <1>5
<1>6. ASSUME NEW x \in Node \ AllEffects, LookedAt(x)
      PROVE  dag'.state[t] \in Handled
  <2>1. OthersAs(dag, dag', x)
    BY <1>6 DEF LookedAt
  <2>2. CASE dag'.state = TakenStates(dag, x)
    BY <1>1, <1>2, <2>2 DEF TakenStates, Handled
  <2>3. CASE Agree(dag', Targets(project, x), Begins)
    <3>1. \A c \in Targets(project, x) : dag'.state[c] \in Handled
      BY <2>3 DEF Agree, Begins, Handled, NodeState
    <3> QED  BY <1>1, <1>4, <1>5, <2>1, <3>1, TargetsApart DEF OthersAs
  <2> QED  BY <1>6, <2>2, <2>3 DEF LookedAt
<1>7. ASSUME NEW x \in Node \ AllEffects,
              \A c \in Targets(project, x) : dag'.state[c] \in Finished,
              \A c \in Node \ AllEffects : c \notin Targets(project, x) => dag'.state[c] = dag.state[c]
      PROVE  dag'.state[t] \in Handled
  BY <1>1, <1>4, <1>5, <1>7, TargetsApart DEF Finished, Handled, NodeState
<1> QED  BY <1>1, <1>3, <1>6, <1>7, MovesStates

LEMMA FinishedStays ==
  ASSUME Types, Types', Entered, Tracked(dag), UnusedEffects, Settled, Remembered, InterruptStops, Together,
         Walking, Walking', [Next]_vars, NEW c \in Node \ AllEffects, dag.state[c] \in Finished
  PROVE  dag'.state[c] \in Finished
<1>0. Sane(project) /\ PlainFiles(project) /\ dag.state \in [Node -> NodeState]
  BY ProjectSane DEF UnusedEffects, Types, IsWalk
<1>1. ASSUME NEW x \in Node \ AllEffects, LookedAt(x)
      PROVE  dag'.state[c] \in Finished
  <2>1. dag.state[x] \notin Handled /\ OthersAs(dag, dag', x)
    BY <1>1 DEF LookedAt
  <2>2. c \notin Targets(project, x)
    <3>1. SUFFICES ASSUME c \in Targets(project, x) PROVE FALSE
      OBVIOUS
    <3>2. x \in Targets(project, c)
      BY <1>0, <3>1 DEF Sane, Targets
    <3> QED  BY <2>1, <3>2 DEF Together, Handled, Finished, NodeState
  <2> QED  BY <2>1, <2>2 DEF OthersAs
<1> QED  BY <1>1, MovesStates

----------------------------------------------------------------------------
(* What was begun is closed under what it needs.                           *)

\* Where a step begins with a node that is built: a look at it that is not
\* cut short by an exception, when all it needs is finished.
LEMMA NewlyBegun ==
  ASSUME Types, Types', Entered, Tracked(dag), UnusedEffects, Settled, Remembered, InterruptStops, ScansTold,
         Walking, Walking', [Next]_vars, options.class # "question", NEW n \in project.builder,
         Begun(dag', n), ~(raised' /\ n \in Targets(project, task')),
         ~Begun(dag, n) \/ (raised /\ n \in Targets(project, task))
  PROVE  /\ ~raised /\ ~Begun(dag, n)
         /\ \A c \in Needs(n) : dag.state[c] \in Finished
<1>0. Sane(project) /\ IsWalk(dag) /\ PlainFiles(project) /\ Clear(dag, AllEffects) /\ n \in Node \ AllEffects
  <2>1. Sane(project) /\ IsWalk(dag) /\ PlainFiles(project) /\ Clear(dag, AllEffects)
    BY ProjectSane DEF UnusedEffects, Types, Remembered, Remembers, AllEffects
  <2> QED  BY <2>1, AllEffectsPlain DEF Sane
<1>1. raised => pc = "prepare" /\ task \in Node
  BY DEF Settled, Types
<1>2. ~raised /\ ~Begun(dag, n)
  <2> SUFFICES ASSUME raised, n \in Targets(project, task) PROVE FALSE
    <3>1. CASE raised /\ n \in Targets(project, task)
      BY <3>1
    <3>2. CASE ~Begun(dag, n) /\ raised /\ n \notin Targets(project, task)
      <4>1. Staying
        <5>1. ~SkipHandled /\ ~Examine /\ ~ScanRaises
          BY <1>1, <3>2 DEF SkipHandled, Examine, ScanRaises, Candidates
        <5>2. \A m : ~Ending(m)
          BY <3>2 DEF Ending
        <5> QED  BY <5>1, <5>2, WalkSteps
      <4> QED  BY <3>2, <4>1 DEF Staying, Begun
    <3> QED  BY <3>1, <3>2
  <2>1. Staying
    <3>1. ~SkipHandled /\ ~Examine /\ ~ScanRaises
      BY <1>1 DEF SkipHandled, Examine, ScanRaises, Candidates
    <3>2. \A m : ~Ending(m)
      BY DEF Ending
    <3> QED  BY <3>1, <3>2, WalkSteps
  <2>2. UNCHANGED <<raised, task>>
    BY <2>1 DEF Staying
  <2> QED  BY <2>2
<1>3. CASE Examine
  <2>1. ~Swallowing /\ ScanInv
    BY DEF Walking, ScansTold
  <2> QED  BY <1>2, <1>3, <2>1, ExamineOrder
<1>4. CASE ScanRaises
  <2>1. PICK x \in Node :
         /\ x = Candidate(dag) /\ task' = x /\ raised' = TRUE /\ Candidates
         /\ dag' \in Ready(project, Begin(x), x) \/ dag' = Begin(x)
    BY <1>4, ScanRaisesLooks DEF ScanRaises
  <2>2. PICK b : b = Begin(x)
    OBVIOUS
  <2>3. IsWalk(b) /\ b.state = [dag.state EXCEPT ![x] = IF dag.state[x] = "no_state" THEN "pending" ELSE dag.state[x]]
    BY <2>1, <2>2, BeginFields
  <2>4. PICK e : e = dag' /\ (e \in Ready(project, b, x) \/ e = b)
    BY <2>1, <2>2
  <2>5. n \notin Targets(project, x)
    BY <2>1
  <2>6. e.state[n] = b.state[n]
    <3>1. CASE e \in Ready(project, b, x)
      <4>1. /\ e.wp = b.wp /\ e.implicit = b.implicit /\ e.stopped = b.stopped
            /\ \A s \in project.builder :
                 \/ e.state[s] = b.state[s]
                 \/ s \in Targets(project, x) /\ e.state[s] = "executing"
                 \/ s \in Targets(project, x) /\ e.state[s] = "up_to_date" /\ ~Outdated(project, s)
        <5>1. Sane(project) /\ IsWalk(b) /\ x \in Node /\ e \in Ready(project, b, x)
          BY <1>0, <2>1, <2>3, <3>1
        <5> QED  BY ONLY <5>1, ReadyStates
      <4> QED  BY <2>5, <4>1
    <3> QED  BY <2>4, <3>1
  <2>7. Begun(e, n) <=> Begun(dag, n)
    BY <1>0, <2>3, <2>6 DEF Begun, Finished, IsWalk
  <2> QED  BY <1>2, <2>4, <2>7
<1>5. CASE ~Examine /\ ~ScanRaises
  BY <1>2, <1>5, OtherBegin
<1> QED  BY <1>3, <1>4, <1>5

LEMMA BasedStep ==
  ASSUME Types, Types', Entered, Tracked(dag), UnusedEffects, PlainLeaves, Settled, Remembered, InterruptStops, ScansTold,
         Together, Based, [Next]_vars
  PROVE  Based'
<1>0. UNCHANGED <<project, options>> /\ (Walking' => Walking)
  BY WalkingBefore
<1>1. \A n : Needs(n)' = Needs(n)
  BY <1>0 DEF Needs, Declared
<1>2. NeedsGraph' = NeedsGraph
  BY <1>1 DEF NeedsGraph
<1> SUFFICES ASSUME Walking, Walking', options.class # "question", NEW n \in project.builder, Begun(dag', n),
                    ~(raised' /\ n \in Targets(project, task'))
             PROVE  /\ \A c \in Needs(n) : dag'.state[c] \in Finished
                    /\ n \notin Closure(NeedsGraph, Needs(n))
  BY <1>0, <1>1, <1>2 DEF Based
<1>3. n \in Node /\ Needs(n) \subseteq Node \ AllEffects
  BY ProjectSane, NeedsUsable DEF Sane
<1>4. (\A c \in Needs(n) : dag.state[c] \in Finished) => \A c \in Needs(n) : dag'.state[c] \in Finished
  BY <1>3, FinishedStays
<1>5. CASE Begun(dag, n) /\ ~(raised /\ n \in Targets(project, task))
  BY <1>4, <1>5 DEF Based
<1>6. CASE ~Begun(dag, n) \/ (raised /\ n \in Targets(project, task))
  <2>1. /\ ~raised /\ ~Begun(dag, n)
        /\ \A c \in Needs(n) : dag.state[c] \in Finished
    BY <1>6, NewlyBegun
  <2>2. PICK X : X = {m \in Node \ AllEffects : dag.state[m] \in Finished}
    OBVIOUS
  <2>3. \A m \in X : NeedsGraph[m] \subseteq X
    <3> SUFFICES ASSUME NEW m \in X PROVE Needs(m) \subseteq X
      BY <2>2 DEF NeedsGraph
    <3>1. CASE m \in project.builder
      <4>1. \A c \in Needs(m) : dag.state[c] \in Finished
        BY <2>1, <2>2, <3>1 DEF Based, Begun
      <4>2. Needs(m) \subseteq Node \ AllEffects
        BY <2>2, NeedsUsable
      <4> QED  BY <2>2, <4>1, <4>2
    <3>2. CASE m \notin project.builder
      BY <2>2, <3>2, LeavesNeedNothing
    <3> QED  BY <3>1, <3>2
  <2>4. Needs(n) \subseteq X
    BY <1>3, <2>1, <2>2
  <2>5. Closure(NeedsGraph, Needs(n)) \subseteq X
    BY <2>3, <2>4, ClosureLeast
  <2>6. n \notin X
    BY <2>1, <2>2 DEF Begun
  <2> QED  BY <1>4, <2>1, <2>5, <2>6
<1> QED  BY <1>5, <1>6

LEMMA InitBased ==
  ASSUME Init
  PROVE  Together /\ Based /\ ScansTold
<1>1. Types
  BY InitWalk
<1>2. /\ \A n \in Node : dag.state[n] = "no_state" /\ dag.implicit[n] = NotScanned
      /\ pc = "next" /\ raised = FALSE /\ requestQ = <<>> /\ resultsQ = <<>>
  BY DEF Init, NewWalk
<1>3. \A w \in Worker : worker[w].does # "run"
  BY DEF Init, Idle
<1>4. Together
  BY <1>2 DEF Together, Handled
<1>5. Based
  BY <1>1, <1>2, ProjectSane DEF Based, Begun, Finished, Sane
<1>6. TasksHandled
  BY <1>2, <1>3 DEF TasksHandled, Tasked
<1>7. ScanInv
  <2>1. ASSUME NEW n \in project.builder PROVE ~Scans(project, dag, n)
    BY <1>1, <1>2, ProjectSane, TargetsShared DEF Scans
  <2> QED  BY <2>1 DEF ScanInv, ScanOK
<1> QED  BY <1>4, <1>5, <1>6, <1>7 DEF ScansTold

----------------------------------------------------------------------------
(* The end of the walk.                                                    *)

\* When the main thread has left its loop nothing is under way, and who is
\* still pending waits for somebody who is.
LEMMA Exhausted ==
  ASSUME Types, UnusedEffects, Walking, Remembered, Travelled, pc = "done"
  PROVE  /\ \A m \in Node : dag.state[m] \in Finished \cup {"no_state", "pending"}
         /\ \A m \in Node : dag.state[m] = "pending" => \E c \in Node : m \in dag.wp[c] /\ dag.state[c] = "pending"
         /\ \A c \in Node : dag.wp[c] # {} => dag.state[c] = "pending"
<1>0. /\ Sane(project) /\ dag.state \in [Node -> NodeState] /\ AllEffects \subseteq Node
      /\ task \notin Node /\ UnderWay = {} /\ dag.cand = <<>>
  <2>1. Sane(project) /\ dag.state \in [Node -> NodeState] /\ task \notin Node
    BY ProjectSane DEF Types, IsWalk
  <2>2. UnderWay = {} /\ dag.cand = <<>>
    BY DEF Travelled, Left, HasCandidate
  <2> QED  BY <2>1, <2>2, EffectsPlain DEF AllEffects
<1>1. Covered(project, UnderWay) = {} /\ ToSet(dag.cand) = {}
  BY <1>0 DEF Covered, ToSet
<1>2. Remembers(project, dag, UnderWay, task)
  BY DEF Remembered
<1>3. \A s \in AllEffects : dag.state[s] # "executing"
  BY <1>0 DEF Travelled, Lent
<1>4. \A c \in Node : dag.wp[c] # {} => dag.state[c] = "pending"
  BY <1>1, <1>2 DEF Remembers, Cared
<1>5. \A m \in Node : dag.state[m] # "failed" /\ dag.state[m] # "executing"
  BY <1>1, <1>2, <1>3 DEF Remembers, AllEffects
<1>6. \A m \in Node : dag.state[m] \in Finished \cup {"no_state", "pending"}
  BY <1>0, <1>5 DEF NodeState, Finished
<1>7. ASSUME NEW m \in Node, dag.state[m] = "pending"
      PROVE  \E c \in Node : m \in dag.wp[c] /\ dag.state[c] = "pending"
  <2>1. WaitsFor(dag, m) # {}
    BY <1>0, <1>1, <1>2, <1>3, <1>7 DEF Remembers, AllEffects
  <2> QED  BY <1>4, <2>1 DEF WaitsFor
<1> QED  BY <1>4, <1>6, <1>7

\* If somebody is, pending_children tells: without it the waiting would have
\* an order, and no end.
LEMMA PendingReported ==
  ASSUME Types, UnusedEffects, Walking, Remembered, Travelled, pc = "done",
         NEW x \in Node, dag.state[x] = "pending"
  PROVE  cycle
<1>1. PICK k \in Nat : \E r : Ranks(dag, r, k)
  BY DEF Travelled, InOrder
<1>2. PICK r : Ranks(dag, r, k)
  BY <1>1
<1>3. r \in [Node -> 0..k]
  BY <1>2 DEF Ranks
<1>4. PICK P : P = {m \in Node : dag.state[m] = "pending"}
  OBVIOUS
<1>5. PICK A : A = {k - r[m] : m \in P}
  OBVIOUS
<1>6. \A m \in P : k - r[m] \in Nat /\ m \in Node
  BY <1>3, <1>4
<1>7. A \subseteq Nat /\ A # {}
  BY <1>4, <1>5, <1>6
<1>8. PICK v \in A : \A w \in A : v <= w
  BY <1>7, LeastOf
<1>9. PICK m \in P : v = k - r[m]
  BY <1>5, <1>8
<1>10. PICK c \in Node : m \in dag.wp[c] /\ dag.state[c] = "pending"
  BY <1>4, <1>9, Exhausted
<1>11. c \in dag.pending
  <2> SUFFICES ASSUME c \notin dag.pending PROVE FALSE
    OBVIOUS
  <2>1. r[m] < r[c]
    BY <1>2, <1>10 DEF Ranks
  <2>2. c \in P /\ k - r[c] \in A
    BY <1>4, <1>5, <1>10
  <2>3. v <= k - r[c]
    BY <1>8, <2>2
  <2>4. r[m] \in 0..k /\ r[c] \in 0..k
    BY <1>3, <1>6, <1>9, <1>10
  <2> QED  BY <1>1, <1>9, <2>1, <2>3, <2>4
<1>12. c \in Cycles(dag)
  BY <1>10, <1>11 DEF Cycles
<1> QED  BY <1>12 DEF Travelled, Left

\* Nobody is pending: what was asked for is finished, and all it needs.
LEMMA TopReached ==
  ASSUME Types, UnusedEffects, Walking, Remembered, Travelled, pc = "done", ~cycle
  PROVE  /\ Top \subseteq Node \ AllEffects
         /\ \A n \in Top : dag.state[n] \in Finished
<1>1. Top \subseteq Node \ AllEffects
  <2>1. project.top \in Seq(Node)
    BY ProjectSane DEF Sane
  <2> QED  BY <2>1, ToSetRange DEF UnusedEffects, NotUsed, Top
<1>2. \A n \in Top : dag.state[n] # "no_state"
  <2>1. dag.topLeft = <<>>
    BY DEF Travelled, Left, HasCandidate
  <2>2. ToSet(dag.topLeft) = {}
    BY <2>1 DEF ToSet
  <2> QED  BY <2>2 DEF Travelled, InOrder
<1>3. \A n \in Node : dag.state[n] \in Finished \cup {"no_state", "pending"}
  BY Exhausted
<1>4. \A n \in Node : dag.state[n] # "pending"
  BY PendingReported
<1> QED  BY <1>1, <1>2, <1>3, <1>4

LEMMA WantedReached ==
  ASSUME Types, UnusedEffects, PlainLeaves, Walking, Settled, Remembered, Travelled, Based, pc = "done", ~cycle,
         options.class # "question"
  PROVE  /\ \A n \in Wanted : dag.state[n] \in Finished
         /\ ~Cyclic
<1>1. PICK X : X = {m \in Node \ AllEffects : dag.state[m] \in Finished}
  OBVIOUS
<1>2. ~raised
  BY DEF Settled
<1>3. ASSUME NEW m \in X
      PROVE  Needs(m) \subseteq X /\ m \notin Closure(NeedsGraph, Needs(m))
  <2>1. CASE m \in project.builder
    <3>1. /\ \A c \in Needs(m) : dag.state[c] \in Finished
          /\ m \notin Closure(NeedsGraph, Needs(m))
      BY <1>1, <1>2, <2>1 DEF Based, Begun
    <3>2. Needs(m) \subseteq Node \ AllEffects
      BY <1>1, NeedsUsable
    <3> QED  BY <1>1, <3>1, <3>2
  <2>2. CASE m \notin project.builder
    <3>1. Needs(m) = {}
      BY <1>1, <2>2, LeavesNeedNothing
    <3>2. Closure(NeedsGraph, {}) \subseteq {}
      BY ClosureLeast
    <3> QED  BY <3>1, <3>2
  <2> QED  BY <2>1, <2>2
<1>4. \A m \in X : NeedsGraph[m] \subseteq X
  BY <1>1, <1>3 DEF NeedsGraph
<1>5. Top \subseteq X
  BY <1>1, TopReached
<1>6. Closure(NeedsGraph, Top) \subseteq X
  BY <1>4, <1>5, ClosureLeast
<1>7. Wanted \subseteq X
  BY <1>6 DEF Wanted, NeedsGraph
<1>8. ~Cyclic
  BY <1>3, <1>7 DEF Cyclic, NeedsGraph
<1> QED  BY <1>1, <1>7, <1>8

\* The status is known before what was asked for is looked at.
LEMMA TruthTold ==
  ASSUME Types, UnusedEffects, PlainLeaves, options.class = "question" => ~Swallowing, Settled, Remembered, Travelled,
         Based, StopNoted, NotedFailures
  PROVE  StatusTellsTruth
<1> SUFFICES ASSUME pc = "done", status = 0
             PROVE  /\ 0 \notin options.exits /\ options.class = "build" /\ Policy # "ignore"
                         => broken = {} /\ ~interrupted /\ \A n \in Wanted : dag.state[n] \in Finished
                    /\ options.class = "question" => \A n \in Top : dag.state[n] = "up_to_date" /\ ~Absent(n)
  BY DEF StatusTellsTruth, NotedFailures
<1>1. ~interrupted /\ ~cycle
  BY DEF NotedFailures
<1>2. ASSUME 0 \notin options.exits, options.class = "build", Policy # "ignore"
      PROVE  broken = {} /\ ~interrupted /\ \A n \in Wanted : dag.state[n] \in Finished
  <2>1. broken = {}
    BY <1>2 DEF NotedFailures
  <2>2. Walking
    BY <1>1, <1>2, <2>1 DEF Walking, StopNoted, Swallowing
  <2> QED  BY <1>1, <1>2, <2>1, <2>2, WantedReached
<1>3. ASSUME options.class = "question"
      PROVE  \A n \in Top : dag.state[n] = "up_to_date" /\ ~Absent(n)
  <2>1. Walking
    BY <1>1, <1>3 DEF Walking, StopNoted
  <2>2. /\ Top \subseteq Node \ AllEffects
        /\ \A n \in Top : dag.state[n] \in Finished
    BY <1>1, <2>1, TopReached
  <2>3. Unanswered = {}
    <3>1. UnderWay = {}
      BY <2>1 DEF Travelled, Left
    <3> QED  BY <3>1 DEF UnderWay, Unanswered
  <2> QED  BY <1>3, <2>1, <2>2, <2>3 DEF Travelled, AllAsked, Finished
<1> QED  BY <1>2, <1>3

\* What is known of every reachable state of a walk that was not stopped.
Progress == Settled /\ Remembered /\ InterruptStops /\ SerialIdle /\ Travelled /\ StopNoted /\ ScansTold /\ Together /\ Based

LEMMA ProgressStep ==
  ASSUME Types, Types', Entered, Bounded, Bounded', JobsCounted, UnusedEffects, PlainLeaves, Progress, [Next]_vars
  PROVE  Progress'
<1>1. Tracked(dag) /\ Tracked(dag)'
  BY DEF Bounded
<1>2. Tracked(dag')
  BY <1>1 DEF Tracked
<1>3. Settled' /\ Remembered'
  BY <1>1, SettledStep DEF Progress
<1>4. InterruptStops'
  BY WalkingBefore DEF Progress
<1>5. SerialIdle'
  BY SerialStep DEF Progress
<1>6. Travelled'
  BY <1>1, <1>2, TravelledStep DEF Progress
<1>7. StopNoted'
  BY StopNotedStep DEF Progress
<1>8. ScansTold'
  BY ScansToldStep DEF Progress
<1>9. Together'
  BY <1>1, TogetherStep DEF Progress
<1>10. Based'
  BY <1>1, BasedStep DEF Progress
<1> QED  BY <1>3, <1>4, <1>5, <1>6, <1>7, <1>8, <1>9, <1>10 DEF Progress

LEMMA HypothesesStay ==
  [Next]_vars /\ UnusedEffects /\ PlainLeaves => UnusedEffects' /\ PlainLeaves'
<1> SUFFICES ASSUME [Next]_vars, UnusedEffects, PlainLeaves PROVE UnusedEffects' /\ PlainLeaves'
  OBVIOUS
<1>1. UNCHANGED project
  BY DEF Next, MainStep, WorkerStep, Over, vars, TakeCandidate, SkipHandled, Examine, ScanRaises, Hand, NoTaskLeft, PrepareFails,
         SkipCurrent, Dispatch, ExecuteSerially, ConcludeSerially, Take, Deliver, Quit, GetResult, PostSentinels,
         Cleanup, Signal
<1> QED  BY <1>1, UnusedStays DEF PlainLeaves, AllEffects

LEMMA InitProgress ==
  ASSUME Init, UnusedEffects
  PROVE  Progress
BY InitSettled, InitTravelled, InitStopNoted, InitBased DEF Progress

LEMMA AlwaysProgress ==
  Spec /\ UnusedEffects /\ PlainLeaves => [](Progress /\ UnusedEffects /\ PlainLeaves)
<1>1. Init /\ UnusedEffects => Progress
  BY InitProgress
<1>2. Types /\ Entered /\ Bounded /\ JobsCounted /\ Types' /\ Bounded' /\ UnusedEffects /\ PlainLeaves /\ Progress
        /\ [Next]_vars => Progress'
  BY ProgressStep
<1> QED  BY <1>1, <1>2, HypothesesStay, WalkTypes, WalkBounded, JobsNeverLost, PTL DEF Spec

----------------------------------------------------------------------------
(* The walk keeps to what is wanted, if no old content leads elsewhere.    *)

\* All that a scan may ever find in a file, and the hypothesis: an old file
\* includes nothing that leads elsewhere than the new ones do.
Content == [f \in Node |-> OnDisk.includes[f] \cup IF f \in project.builder THEN project.before[f] ELSE {}]
NothingObsolete ==
    \A n \in project.builder :
        Closure(Content, UNION {Content[s] : s \in Sources(project, n)}) \subseteq Needs(n)

LEMMA FoundNeeded ==
  ASSUME Types, NothingObsolete, NEW d, NEW fresh, NEW n \in project.builder
  PROVE  Found(OnDisk, d, fresh, n) \subseteq Needs(n)
<1>0. /\ Sane(project) /\ Sane(OnDisk) /\ OnDisk.builder = project.builder /\ OnDisk.before = project.before
      /\ Sources(OnDisk, n) = Sources(project, n) /\ n \in Node
  BY ProjectSane, OnDiskSane DEF Sane
<1>1. PICK q : q = OnDisk
  OBVIOUS
<1>2. PICK shown : shown = Shown(q, d, fresh)
  OBVIOUS
<1>3. /\ Content \in [Node -> SUBSET Node]
      /\ \A f \in Node : shown[f] \subseteq Content[f]
  BY <1>0, <1>1, <1>2 DEF Content, Shown, Shows, Sane
<1>4. PICK S : S = UNION {Content[s] : s \in Sources(project, n)}
  OBVIOUS
<1>5. Sources(project, n) \subseteq Node
  BY <1>0, SourcesAreNodes
<1>6. S \in SUBSET Node
  BY <1>3, <1>4, <1>5
<1>7. PICK X : X = Closure(Content, S)
  OBVIOUS
<1>8. X \in SUBSET Node /\ \A f \in X : Content[f] \subseteq X
  BY <1>3, <1>6, <1>7, ClosureClosed
<1>9. S \subseteq X
  BY <1>7, ClosureContains
<1>10. \A f \in X : shown[f] \subseteq X
  BY <1>3, <1>8
<1>11. PICK I : I = UNION {shown[s] : s \in Sources(q, n)}
  OBVIOUS
<1>12. I \subseteq X
  BY <1>0, <1>1, <1>3, <1>4, <1>5, <1>9, <1>11
<1>13. Closure(shown, I) \subseteq X
  BY <1>10, <1>12, ClosureLeast
<1>14. Found(q, d, fresh, n) = Closure(shown, I)
  BY <1>2, <1>11 DEF Found, Shown
<1> QED  BY <1>1, <1>4, <1>7, <1>13, <1>14 DEF NothingObsolete

LEMMA SharedNeeds ==
  ASSUME Types, NEW n \in Node, NEW t \in Targets(project, n)
  PROVE  Needs(t) = Needs(n)
<1>1. t \in Node /\ Targets(project, t) = Targets(project, n)
  BY ProjectSane, TargetsAreNodes DEF Sane, Targets
<1> QED  BY <1>1 DEF Needs, Declared, Sources

\* Only what is needed is known of.
Knows(d) == \A t \in Node : d.implicit[t] = NotScanned \/ d.implicit[t] \subseteq Needs(t)

LEMMA ScannedKnows ==
  ASSUME Types, UnusedEffects, NothingObsolete, NEW d, IsWalk(d), NEW fresh, NEW n \in Node, Knows(d)
  PROVE  LET e == Scanned(OnDisk, d, fresh, n)
         IN  /\ \A t \in Node : e.implicit[t] = d.implicit[t] \/ e.implicit[t] \subseteq Needs(n)
             /\ Knows(e) /\ Children(project, e, n) \subseteq Needs(n)
<1>0. /\ Sane(project) /\ OnDisk.builder = project.builder /\ Targets(OnDisk, n) = Targets(project, n)
      /\ n \notin project.builder => Targets(project, n) = {n}
  BY ProjectSane, OnDiskSane DEF UnusedEffects, PlainFiles
<1>1. PICK q : q = OnDisk
  OBVIOUS
<1>2. PICK e : e = Scanned(q, d, fresh, n)
  OBVIOUS
<1> DEFINE T     == Targets(project, n) \cap project.builder
           found == IF n \in project.builder THEN Found(q, d, fresh, n) ELSE {}
           again == \E t \in T : d.implicit[t] = NotScanned
<1>3. e.implicit = [t \in Node |->
            CASE t \in T /\ again -> IF d.implicit[t] = NotScanned THEN found ELSE d.implicit[t] \cup found
              [] t = n /\ T = {} -> {}
              [] OTHER -> d.implicit[t]]
  <2> DEFINE T2     == Targets(q, n) \cap q.builder
             found2 == IF n \in q.builder THEN Found(q, d, fresh, n) ELSE {}
             again2 == \E t \in T2 : d.implicit[t] = NotScanned
  <2>1. e.implicit = [t \in Node |->
            CASE t \in T2 /\ again2 -> IF d.implicit[t] = NotScanned THEN found2 ELSE d.implicit[t] \cup found2
              [] t = n /\ T2 = {} -> {}
              [] OTHER -> d.implicit[t]]
    BY <1>2, ScannedFields
  <2>2. T2 = T /\ found2 = found
    BY <1>0, <1>1
  <2>3. again2 = again
    BY <2>2
  <2> QED  BY <2>1, <2>2, <2>3
<1>4. found \subseteq Needs(n)
  BY <1>1, FoundNeeded
<1>5. /\ Targets(project, n) \subseteq Node /\ n \in Targets(project, n)
      /\ n \in project.builder => Targets(project, n) \subseteq project.builder
  BY <1>0, TargetsAreNodes DEF Sane
<1>6. \A t \in Targets(project, n) : Needs(t) = Needs(n)
  BY SharedNeeds
<1> HIDE DEF found
<1>7. ASSUME NEW t \in Node, t \in Targets(project, n)
      PROVE  e.implicit[t] \subseteq Needs(n)
  <2>1. d.implicit[t] = NotScanned \/ d.implicit[t] \subseteq Needs(n)
    BY <1>6, <1>7 DEF Knows
  <2>2. CASE n \in project.builder /\ again
    <3>1. e.implicit[t] = IF d.implicit[t] = NotScanned THEN found ELSE d.implicit[t] \cup found
      BY <1>3, <1>5, <1>7, <2>2
    <3> QED  BY <1>4, <2>1, <3>1
  <2>3. CASE n \in project.builder /\ ~again
    <3>1. e.implicit[t] = d.implicit[t] /\ d.implicit[t] # NotScanned
      BY <1>3, <1>5, <1>7, <2>3
    <3> QED  BY <2>1, <3>1
  <2>4. CASE n \notin project.builder
    <3>1. t = n /\ T = {}
      BY <1>0, <1>7, <2>4
    <3> QED  BY <1>3, <3>1
  <2> QED  BY <2>2, <2>3, <2>4
<1>8. ASSUME NEW t \in Node, t \notin Targets(project, n)
      PROVE  e.implicit[t] = d.implicit[t]
  BY <1>3, <1>5, <1>8
<1>9. \A t \in Node : e.implicit[t] = d.implicit[t] \/ e.implicit[t] \subseteq Needs(n)
  BY <1>7, <1>8
<1>10. Knows(e)
  BY <1>6, <1>7, <1>8 DEF Knows
<1>11. Children(project, e, n) \subseteq Needs(n)
  <2>1. Sources(project, n) \subseteq Needs(n)
    BY DEF Needs, Declared
  <2>2. UNION {ToSet(project.prereqs[t]) : t \in ActionTargets(project, n)} \subseteq Needs(n)
    BY DEF Needs, Declared, ActionTargets
  <2>3. UNION {e.implicit[t] : t \in Targets(project, n)} \subseteq Needs(n)
    BY <1>5, <1>7
  <2> QED  BY <2>1, <2>2, <2>3 DEF Children
<1> QED  BY <1>1, <1>2, <1>9, <1>10, <1>11

\* Who waits, waits for something it needs.
Waitful(d) == \A c \in Node : \A n \in d.wp[c] : c \in Needs(n)

LEMMA LooksWaitful ==
  ASSUME Sane(project), NEW d, IsWalk(d), NEW n \in Node, NEW kids \in SUBSET Node, NEW order \in PushOrders(d, kids),
         Looks(n, d, kids, order), kids \subseteq Needs(n), Waitful(d)
  PROVE  Waitful(dag')
<1>1. CASE dag' = Waiting(d, n, kids, Push(d, order).cand)
  <2>1. PICK c : c = Push(d, order).cand
    OBVIOUS
  <2>2. PICK e : e = Waiting(d, n, kids, c)
    OBVIOUS
  <2>3. \A k \in Node : e.wp[k] = IF k \in NotReady(d, kids) THEN d.wp[k] \cup {n} ELSE d.wp[k]
    BY <2>2, WaitForFields
  <2>4. NotReady(d, kids) \subseteq kids
    BY DEF NotReady
  <2> QED  BY <1>1, <2>1, <2>2, <2>3, <2>4 DEF Waitful
<1>2. CASE dag' = WaitForEffects(project, d, n)
  <2>1. WaitForEffects(project, d, n).wp = d.wp
    BY WaitForEffectsFields
  <2> QED  BY <1>2, <2>1 DEF Waitful
<1>3. CASE dag' \in Ready(project, d, n)
  <2>1. PICK e : e = dag'
    OBVIOUS
  <2>2. UpToDate(d, Targets(project, n)).wp = d.wp
    BY UpToDateFields
  <2>3. Marked(project, d, Targets(project, n)).wp = d.wp
    BY MarkedFields
  <2>4. e.wp = d.wp
    BY <1>3, <2>1, <2>2, <2>3 DEF Ready
  <2> QED  BY <2>1, <2>4 DEF Waitful
<1>4. CASE dag' = d
  BY <1>4 DEF Waitful
<1>5. CASE dag' = GiveUp(project, Push(d, order), n)
  <2>1. PICK b : b = Push(d, order)
    OBVIOUS
  <2>2. IsWalk(b) /\ b.wp = d.wp
    <3>1. b.wp = d.wp
      BY <2>1, PushFields
    <3> QED  BY <2>1, <3>1, PushWalk DEF Later
  <2>3. GiveUp(project, b, n).wp = b.wp
    BY <2>2, GiveUpFields
  <2> QED  BY <1>5, <2>1, <2>2, <2>3 DEF Waitful
<1> QED  BY <1>1, <1>2, <1>3, <1>4, <1>5 DEF Looks

\* The walk keeps to what was asked for and what that needs.
Within == Walking => Clear(dag, Node \ Wanted) /\ Waitful(dag) /\ Knows(dag)

LEMMA WantedNeeds ==
  ASSUME Types, UnusedEffects
  PROVE  /\ NeedsGraph \in [Node -> SUBSET Node] /\ Top \subseteq Node
         /\ Top \subseteq Wanted /\ Wanted \subseteq Node
         /\ \A n \in Wanted : Needs(n) \subseteq Wanted
<1>1. NeedsGraph \in [Node -> SUBSET Node]
  BY NeedsUsable DEF NeedsGraph
<1>2. Top \in SUBSET Node
  <2>1. project.top \in Seq(Node)
    BY ProjectSane DEF Sane
  <2> QED  BY <2>1, ToSetRange DEF Top
<1>3. PICK W : W = Closure(NeedsGraph, Top)
  OBVIOUS
<1>4. W \in SUBSET Node /\ \A n \in W : NeedsGraph[n] \subseteq W
  BY <1>1, <1>2, <1>3, ClosureClosed
<1>5. Top \subseteq W
  BY <1>3, ClosureContains
<1>6. Wanted = W
  BY <1>3 DEF Wanted, NeedsGraph
<1> QED  BY <1>1, <1>2, <1>4, <1>5, <1>6 DEF NeedsGraph

LEMMA ExaminedWithin ==
  ASSUME Types, Entered, UnusedEffects, NothingObsolete, Walking, Within, Examine
  PROVE  Clear(dag', Node \ Wanted) /\ Waitful(dag') /\ Knows(dag')
<1>0. /\ Sane(project) /\ IsWalk(dag) /\ HasCandidate(dag) /\ Candidates
      /\ Waitful(dag) /\ Knows(dag)
  BY ProjectSane DEF Types, Examine, Candidates, Within
<1>1. PICK E : E = Node \ Wanted
  OBVIOUS
<1>2. Clear(dag, E) /\ \A n \in Node \ E : Needs(n) \cap E = {}
  BY <1>1, WantedNeeds DEF Within
<1>3. PICK n \in Node : n = Candidate(dag)
  BY ExamineLooks
<1>4. PICK fresh : \E order \in PushOrders(Seen(n, fresh), Children(project, Seen(n, fresh), n)) :
                       Looks(n, Seen(n, fresh), Children(project, Seen(n, fresh), n), order)
  BY <1>3, ExamineLooks
<1> DEFINE w == WithoutCandidate(dag)
           b == Visited(w, n)
<1>5. IsWalk(w) /\ Clear(w, E) /\ n \notin E
  BY <1>0, <1>2, <1>3, WithoutCandidateWalk, WithoutCandidateClear DEF Later
<1>6. w.wp = dag.wp /\ w.implicit = dag.implicit
  BY <1>0, WithoutCandidateFields
<1> HIDE DEF w
<1>7. IsWalk(b) /\ Clear(b, E)
  BY <1>0, <1>5, VisitedWalk, VisitedClear DEF Later
<1>8. b.wp = w.wp /\ b.implicit = w.implicit
  BY <1>5, VisitedFields
<1>9. Knows(b)
  BY <1>0, <1>6, <1>8 DEF Knows
<1>10. PICK q : q = OnDisk
  OBVIOUS
<1>11. PICK d : d = Scanned(q, b, fresh, n)
  OBVIOUS
<1>12. d = Seen(n, fresh)
  BY <1>10, <1>11 DEF Seen, Begin, w
<1> HIDE DEF b
<1>13. /\ \A t \in Node : d.implicit[t] = b.implicit[t] \/ d.implicit[t] \subseteq Needs(n)
       /\ Knows(d) /\ Children(project, d, n) \subseteq Needs(n)
  BY <1>7, <1>9, <1>10, <1>11, ScannedKnows
<1>14. d.wp = b.wp /\ d.wse = b.wse /\ d.cand = b.cand
  BY <1>7, <1>11 DEF Scanned, IsWalk
<1>15. d.topLeft = b.topLeft /\ IsWalk(d)
  <2>1. d.topLeft = b.topLeft
    BY <1>7, <1>11 DEF Scanned, IsWalk
  <2>2. IsWalk(d)
    BY <1>0, <1>3, <1>12, SeenFields
  <2> QED  BY <2>1, <2>2
<1>16. Clear(d, E)
  BY <1>2, <1>5, <1>7, <1>13, <1>14, <1>15 DEF Clear
<1>17. Waitful(d)
  BY <1>0, <1>6, <1>8, <1>14 DEF Waitful
<1>18. PICK kids \in SUBSET Node : kids = Children(project, d, n)
  BY DEF Children
<1>19. PICK order \in PushOrders(d, kids) : Looks(n, d, kids, order)
  BY <1>4, <1>12, <1>18
<1>20. kids \subseteq Needs(n) /\ kids \cap E = {}
  BY <1>2, <1>5, <1>13, <1>18
<1>21. Clear(dag', E)
  BY <1>0, <1>5, <1>15, <1>16, <1>19, <1>20, LooksClear
<1>22. Waitful(dag')
  BY <1>0, <1>15, <1>17, <1>19, <1>20, LooksWaitful
<1>23. dag'.implicit = d.implicit
  BY <1>0, <1>15, <1>19, LooksStates
<1>24. Knows(dag')
  BY <1>13, <1>23 DEF Knows
<1> QED  BY <1>1, <1>21, <1>22, <1>24

LEMMA RaisedWithin ==
  ASSUME Types, Entered, UnusedEffects, Walking, Within, ScanRaises
  PROVE  Clear(dag', Node \ Wanted) /\ Waitful(dag') /\ Knows(dag')
<1>0. /\ Sane(project) /\ IsWalk(dag) /\ HasCandidate(dag) /\ Waitful(dag) /\ Knows(dag)
  BY ProjectSane DEF Types, ScanRaises, Candidates, Within
<1>1. PICK E : E = Node \ Wanted /\ Clear(dag, E)
  BY DEF Within
<1>2. PICK n \in Node : n = Candidate(dag) /\ (dag' \in Ready(project, Begin(n), n) \/ dag' = Begin(n))
  BY ScanRaisesLooks
<1>3. PICK b : b = Begin(n)
  OBVIOUS
<1>4. PICK w : w = WithoutCandidate(dag)
  OBVIOUS
<1>5. IsWalk(w) /\ Clear(w, E)
  BY <1>0, <1>1, <1>4, WithoutCandidateWalk, WithoutCandidateClear DEF Later
<1>6. w.wp = dag.wp /\ w.implicit = dag.implicit
  BY <1>0, <1>4, WithoutCandidateFields
<1>7. b = Visited(w, n)
  BY <1>3, <1>4 DEF Begin
<1>8. IsWalk(b) /\ Clear(b, E)
  BY <1>0, <1>5, <1>7, VisitedWalk, VisitedClear DEF Later
<1>9. b.wp = w.wp /\ b.implicit = w.implicit
  BY <1>5, <1>7, VisitedFields
<1>10. PICK e : e = dag' /\ (e \in Ready(project, b, n) \/ e = b)
  BY <1>2, <1>3
<1>11. Clear(e, E) /\ e.wp = b.wp /\ e.implicit = b.implicit
  <2>1. CASE e \in Ready(project, b, n)
    <3>1. Clear(e, E)
      BY <1>8, <2>1, ReadyClear
    <3>2. UpToDate(b, Targets(project, n)).wp = b.wp /\ UpToDate(b, Targets(project, n)).implicit = b.implicit
      BY <1>8, UpToDateFields
    <3>3. Marked(project, b, Targets(project, n)).wp = b.wp /\ Marked(project, b, Targets(project, n)).implicit = b.implicit
      BY <1>8, MarkedFields
    <3> QED  BY <2>1, <3>1, <3>2, <3>3 DEF Ready
  <2> QED  BY <1>8, <1>10, <2>1
<1> QED  BY <1>0, <1>1, <1>6, <1>9, <1>10, <1>11 DEF Waitful, Knows

LEMMA FinishedWithin ==
  ASSUME Types, UnusedEffects, Walking, Within, Remembered, NEW n, Finishes(n)
  PROVE  Clear(dag', Node \ Wanted) /\ Waitful(dag') /\ Knows(dag')
<1>1. /\ Sane(project) /\ PlainFiles(project) /\ IsWalk(dag) /\ Clear(dag, AllEffects) /\ Waitful(dag) /\ Knows(dag)
      /\ n \in Node /\ n \notin AllEffects
  BY ProjectSane DEF UnusedEffects, Types, Remembered, Remembers, AllEffects, Within, Finishes
<1>2. PICK E : E = Node \ Wanted /\ Clear(dag, E)
  BY DEF Within
<1>3. PICK e : e = dag'
  OBVIOUS
<1>4. PICK a : Concluded(project, dag, a, Targets(project, n)) /\ e \in Postprocessed(project, a, Targets(project, n))
  BY <1>3 DEF Finishes
<1>5. PICK T : T = Targets(project, n)
  OBVIOUS
<1>6. T \in SUBSET Node /\ \A c \in Node : e.wp[c] = IF c \in T THEN {} ELSE dag.wp[c]
  BY <1>1, <1>4, <1>5, ConcludedFields
<1>7. Concluded(project, dag, a, T) /\ e \in Postprocessed(project, a, T)
  BY <1>4, <1>5
<1>8. /\ \A c \in Node : e.implicit[c] \in {NotScanned, dag.implicit[c]}
      /\ \A F : Clear(dag, F) => Clear(e, F)
  BY ONLY <1>1, <1>6, <1>7, ConcludedRest
<1> QED  BY <1>1, <1>2, <1>3, <1>6, <1>8 DEF Waitful, Knows

LEMMA WithinStep ==
  ASSUME Types, Entered, Tracked(dag), UnusedEffects, NothingObsolete, Settled, Remembered, InterruptStops, Within,
         [Next]_vars
  PROVE  Within'
<1>0. UNCHANGED <<project, options>> /\ (Walking' => Walking)
  BY WalkingBefore
<1>1. (\A n : Needs(n)' = Needs(n)) /\ Wanted' = Wanted
  BY <1>0 DEF Needs, Declared, Wanted, Top
<1> SUFFICES ASSUME Walking, Walking' PROVE Clear(dag', Node \ Wanted) /\ Waitful(dag') /\ Knows(dag')
  BY <1>0, <1>1 DEF Within, Clear, Waitful, Knows
<1>2. CASE Staying
  BY <1>2 DEF Staying, Within
<1>3. CASE SkipHandled
  <2>1. IsWalk(dag) /\ HasCandidate(dag) /\ dag' = WithoutCandidate(dag)
    BY <1>3 DEF SkipHandled, Candidates, Types
  <2>2. PICK w : w = WithoutCandidate(dag)
    OBVIOUS
  <2>3. PICK E : E = Node \ Wanted
    OBVIOUS
  <2>4. Clear(w, E)
    BY <2>1, <2>2, <2>3, WithoutCandidateClear DEF Within
  <2>5. w.wp = dag.wp /\ w.implicit = dag.implicit
    BY <2>1, <2>2, WithoutCandidateFields
  <2> QED  BY <2>1, <2>2, <2>3, <2>4, <2>5 DEF Within, Waitful, Knows
<1>4. CASE Examine
  BY <1>4, ExaminedWithin
<1>5. CASE ScanRaises
  BY <1>5, RaisedWithin
<1>6. CASE \E n : Ending(n)
  <2>1. PICK n : Finishes(n)
    BY <1>6, EndsFinish
  <2> QED  BY <2>1, FinishedWithin
<1> QED  BY <1>2, <1>3, <1>4, <1>5, <1>6, WalkSteps

LEMMA InitWithin ==
  ASSUME Init, UnusedEffects
  PROVE  Within
<1>1. Types
  BY InitWalk
<1>2. /\ \A n \in Node : dag.wp[n] = {} /\ dag.wse[n] = {} /\ dag.implicit[n] = NotScanned
      /\ dag.cand = <<>> /\ dag.topLeft = Reverse(project.top)
  BY DEF Init, NewWalk
<1>3. ToSet(dag.topLeft) \subseteq Wanted
  <2>1. PICK s \in Seq(Node) : s = project.top
    BY ProjectsSane DEF Init, Sane
  <2>2. /\ DOMAIN Reverse(s) = DOMAIN s
        /\ \A i \in DOMAIN s : Reverse(s)[i] = s[Len(s) - i + 1] /\ Len(s) - i + 1 \in DOMAIN s
    BY DEF Reverse
  <2>3. ToSet(Reverse(s)) \subseteq ToSet(s)
    BY <2>2 DEF ToSet
  <2>4. ToSet(s) = Top
    BY <2>1 DEF Top
  <2> QED  BY <1>1, <1>2, <2>1, <2>3, <2>4, WantedNeeds
<1>4. ToSet(dag.cand) = {}
  BY <1>2 DEF ToSet
<1> QED  BY <1>2, <1>3, <1>4 DEF Within, Clear, Waitful, Knows

----------------------------------------------------------------------------
(* The end of the walk, once more: who waits is on a cycle or behind one.  *)

\* If somebody is pending at the end there is a cycle: of those that wait, the
\* one that needs the fewest nodes waits for one that needs as many, itself
\* among them.
LEMMA PendingCyclic ==
  ASSUME Types, UnusedEffects, Walking, Remembered, Travelled, Within, pc = "done",
         NEW x \in Node, dag.state[x] = "pending"
  PROVE  Cyclic
<1>1. /\ NeedsGraph \in [Node -> SUBSET Node]
      /\ \A n \in Node : NeedsGraph[n] = Needs(n) /\ Needs(n) \in SUBSET Node
  BY WantedNeeds DEF NeedsGraph
<1>2. /\ \A c \in Node : dag.wp[c] \cap (Node \ Wanted) = {}
      /\ \A c \in Node : \A m \in dag.wp[c] : c \in Needs(m)
  BY DEF Within, Clear, Waitful
<1>3. PICK P : P = {m \in Node : dag.state[m] = "pending"}
  OBVIOUS
<1>4. ASSUME NEW m \in P
      PROVE  m \in Wanted /\ \E c \in P : c \in Needs(m)
  <2>1. PICK c \in Node : m \in dag.wp[c] /\ dag.state[c] = "pending"
    BY <1>3, Exhausted
  <2> QED  BY <1>2, <1>3, <2>1
<1>5. PICK C : C = [m \in Node |-> Closure(NeedsGraph, Needs(m))]
  OBVIOUS
<1>6. ASSUME NEW m \in Node
      PROVE  /\ C[m] \in SUBSET Node /\ Needs(m) \subseteq C[m]
             /\ IsFiniteSet(C[m]) /\ Cardinality(C[m]) \in Nat
             /\ \A c \in Needs(m) : C[c] \subseteq C[m]
  <2>1. PICK S : S = Needs(m)
    OBVIOUS
  <2>2. S \in SUBSET Node /\ C[m] = Closure(NeedsGraph, S)
    BY <1>1, <1>5, <2>1
  <2>3. C[m] \in SUBSET Node /\ \A c \in C[m] : NeedsGraph[c] \subseteq C[m]
    BY <1>1, <2>2, ClosureClosed
  <2>4. S \subseteq C[m]
    BY <2>2, ClosureContains
  <2>5. IsFiniteSet(C[m]) /\ Cardinality(C[m]) \in Nat
    BY <2>3, NodesFinite, FS_Subset, FS_CardinalityType
  <2>6. ASSUME NEW c \in Needs(m)
        PROVE  C[c] \subseteq C[m]
    <3>1. c \in Node /\ c \in C[m]
      BY <2>1, <2>3, <2>4
    <3>2. Needs(c) \subseteq C[m]
      BY <1>1, <2>3, <3>1
    <3>3. Closure(NeedsGraph, Needs(c)) \subseteq C[m]
      BY <2>3, <3>2, ClosureLeast
    <3> QED  BY <1>5, <3>1, <3>3
  <2> QED  BY <2>1, <2>3, <2>4, <2>5, <2>6
<1>7. PICK A : A = {Cardinality(C[m]) : m \in P}
  OBVIOUS
<1>8. A \subseteq Nat /\ A # {}
  BY <1>3, <1>6, <1>7
<1>9. PICK v \in A : \A w \in A : v <= w
  BY <1>8, LeastOf
<1>10. PICK m \in P : v = Cardinality(C[m])
  BY <1>7, <1>9
<1>11. PICK c \in P : c \in Needs(m)
  BY <1>4, <1>10
<1>12. m \in Node /\ c \in Node
  BY <1>3, <1>10, <1>11
<1>13. C[c] \in SUBSET C[m] /\ IsFiniteSet(C[m])
  BY <1>6, <1>11, <1>12
<1>14. Cardinality(C[c]) <= Cardinality(C[m])
  BY <1>13, FS_Subset
<1>15. Cardinality(C[m]) <= Cardinality(C[c])
  BY <1>7, <1>9, <1>10
<1>16. Cardinality(C[m]) = Cardinality(C[c])
  BY <1>6, <1>12, <1>14, <1>15
<1>17. C[m] = C[c]
  BY <1>13, <1>16, FS_Subset
<1>18. c \in Closure(NeedsGraph, Needs(c))
  BY <1>5, <1>6, <1>11, <1>12, <1>17
<1> QED  BY <1>4, <1>11, <1>18 DEF Cyclic, NeedsGraph

LEMMA CycleCyclic ==
  ASSUME Types, Tracked(dag), UnusedEffects, Walking, Remembered, Travelled, Within, pc = "done", cycle
  PROVE  Cyclic
<1>1. Cycles(dag) # {} /\ InOrder(dag) /\ dag.pending \subseteq Node
  BY DEF Travelled, Left, Tracked
<1>2. PICK n \in Node : dag.wp[n] # {}
  <2>1. PICK n \in dag.pending : TRUE
    BY <1>1 DEF Cycles
  <2> QED  BY <1>1, <2>1 DEF InOrder
<1>3. dag.state[n] = "pending"
  BY <1>2, Exhausted
<1> QED  BY <1>2, <1>3, PendingCyclic

LEMMA AllDone ==
  ASSUME Types, Bounded, UnusedEffects, PlainLeaves, Progress, Within
  PROVE  /\ NothingLeftOut
         /\ options.class # "question" => CyclesReported
<1>1. /\ Settled /\ Remembered /\ Travelled /\ StopNoted /\ Based
  BY DEF Progress
<1>2. ASSUME pc = "done", ~interrupted, broken = {}, options.class # "question"
      PROVE  ~dag.stopped
  BY <1>1, <1>2 DEF StopNoted
<1>3. ASSUME pc = "done", ~dag.stopped, broken = {}, options.class # "question", ~Swallowing
      PROVE  cycle <=> Cyclic
  <2>1. Walking
    BY <1>3 DEF Walking, Swallowing
  <2>2. CASE cycle
    BY <1>1, <1>3, <2>1, <2>2, CycleCyclic DEF Bounded
  <2>3. CASE ~cycle
    BY <1>1, <1>3, <2>1, <2>3, WantedReached
  <2> QED  BY <2>2, <2>3
<1>4. NothingLeftOut
  <2> SUFFICES ASSUME pc = "done", ~interrupted, broken = {}, ~Cyclic, options.class # "question", ~Swallowing
               PROVE  ~cycle /\ \A n \in Wanted : dag.state[n] \in Finished
    BY DEF NothingLeftOut
  <2>1. ~dag.stopped /\ ~cycle
    BY <1>2, <1>3
  <2>2. Walking
    BY <2>1 DEF Walking, Swallowing
  <2> QED  BY <1>1, <2>1, <2>2, WantedReached
<1>5. options.class # "question" => CyclesReported
  BY <1>2, <1>3 DEF CyclesReported
<1> QED  BY <1>4, <1>5

\* The hypothesis: with -q no scan raises, or the task would count as one that
\* ran.
AnswersHeard == options.class = "question" => ~Swallowing

\* The exit status is 0 only if every target that was asked for is up to date,
\* or an action or a scanner may exit with 0 and one failed; an interrupt and a
\* cycle end in 2 whatever status a failure has brought.  Whatever the project
\* and the number of jobs, and with whatever statuses actions may exit: if what
\* is written on the side is used by nobody, files without a builder depend on
\* nothing, and -q hears of every exception.
THEOREM ExitStatusTrue == Spec /\ UnusedEffects /\ PlainLeaves /\ AnswersHeard => []StatusTellsTruth
<1>1. Types /\ Entered /\ AnswersHeard /\ [Next]_vars => AnswersHeard'
  BY WalkingBefore DEF AnswersHeard, Swallowing, Policy
<1>2. Types /\ UnusedEffects /\ PlainLeaves /\ AnswersHeard /\ Progress /\ NotedFailures => StatusTellsTruth
  BY TruthTold DEF AnswersHeard, Progress
<1> QED  BY <1>1, <1>2, WalkTypes, AlwaysNoted, AlwaysProgress, PTL DEF Spec

\* The hypotheses of the two theorems about everything that is wanted.
ScansPlain == UnusedEffects /\ PlainLeaves /\ NothingObsolete

LEMMA AlwaysWithin ==
  Spec /\ ScansPlain => [](Progress /\ Within /\ ScansPlain)
<1>1. Init /\ ScansPlain => Within
  BY InitWithin DEF ScansPlain
<1>2. Types /\ Entered /\ Bounded /\ Progress /\ ScansPlain /\ Within /\ [Next]_vars => Within'
  BY WithinStep DEF Bounded, Progress, ScansPlain
<1>3. Types /\ Entered /\ UnusedEffects /\ PlainLeaves /\ NothingObsolete /\ [Next]_vars => NothingObsolete'
  <2> SUFFICES ASSUME Types, Entered, NothingObsolete, [Next]_vars PROVE NothingObsolete'
    OBVIOUS
  <2>1. UNCHANGED <<project, options>>
    BY WalkingBefore
  <2>2. Content' = Content
    BY <2>1 DEF Content, OnDisk
  <2>3. \A n : Needs(n)' = Needs(n)
    BY <2>1 DEF Needs, Declared
  <2> QED  BY <2>1, <2>2, <2>3 DEF NothingObsolete
<1>4. Types /\ Entered /\ ScansPlain /\ [Next]_vars => ScansPlain'
  BY <1>3, HypothesesStay DEF ScansPlain
<1>5. ScansPlain => UnusedEffects /\ PlainLeaves
  BY DEF ScansPlain
<1> QED  BY <1>1, <1>2, <1>4, <1>5, AlwaysProgress, WalkTypes, WalkBounded, PTL DEF Spec

\* Without a failure, a signal or a cycle the walk ends with everything that
\* was asked for and all it needs up to date, or cleaned.
THEOREM NothingIsLeftOut == Spec /\ ScansPlain => []NothingLeftOut
<1>1. Types /\ Bounded /\ ScansPlain /\ Progress /\ Within => NothingLeftOut
  BY AllDone DEF ScansPlain
<1> QED  BY <1>1, AlwaysWithin, WalkTypes, WalkBounded, PTL

\* A cycle is reported where there is one and nothing stopped the walk, and
\* never where there is none.
THEOREM CyclesAreReported == Spec /\ ScansPlain /\ options.class # "question" => []CyclesReported
<1>1. Types /\ Bounded /\ ScansPlain /\ Progress /\ Within /\ options.class # "question" => CyclesReported
  BY AllDone DEF ScansPlain
<1>2. Types /\ Entered /\ options.class # "question" /\ [Next]_vars => (options.class # "question")'
  BY WalkingBefore
<1> QED  BY <1>1, <1>2, AlwaysWithin, WalkTypes, WalkBounded, PTL DEF Spec
==============================================================================

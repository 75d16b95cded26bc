--------------------------- MODULE BuildJobsProofs ---------------------------
(***************************************************************************)
(* Theorems about BuildJobs for any projects, any options and any number   *)
(* of workers: no task is lost between the main thread and the workers, no *)
(* action is run twice, and a stop is final.                               *)
(***************************************************************************)
EXTENDS BuildJobs, FiniteSetTheorems, SequenceTheorems, TLAPS

----------------------------------------------------------------------------
(* The walk: what every operator of Taskmaster keeps.                      *)

\* The walk as far as the proofs look at it.
IsWalk(d) ==
    /\ d = [state |-> d.state, ref |-> d.ref, wp |-> d.wp, wse |-> d.wse, cand |-> d.cand,
            implicit |-> d.implicit, topLeft |-> d.topLeft, currentTop |-> d.currentTop,
            pending |-> d.pending, stopped |-> d.stopped]
    /\ d.state \in [Node -> NodeState] /\ d.cand \in Seq(Node) /\ d.topLeft \in Seq(Node)
    /\ d.wp \in [Node -> SUBSET Node] /\ d.wse \in [Node -> SUBSET Node]
    /\ d.stopped \in BOOLEAN

\* From d to e nothing is undone: a stop is final, and what has a builder and
\* was handled stays so.
Later(p, d, e) ==
    /\ IsWalk(e) /\ (d.stopped => e.stopped)
    /\ d.currentTop \in Node => e.currentTop \in Node
    /\ \A n \in p.builder : d.state[n] \in Handled => e.state[n] \in Handled

\* From d to e nothing is begun.
Quiet(d, e) == \A n \in Node : e.state[n] = "executing" => d.state[n] = "executing"

Sane(p) ==
    /\ p.targets \in [Node -> Seq(Node)] /\ p.sources \in [Node -> Seq(Node)]
    /\ p.prereqs \in [Node -> Seq(Node)] /\ p.top \in Seq(Node)
    /\ p.includes \in [Node -> SUBSET Node] /\ p.before \in [Node -> SUBSET Node]
    /\ p.builder \subseteq Node /\ p.effects \in [Node -> SUBSET (Node \ p.builder)]
    /\ \A n \in Node : n \in Targets(p, n) /\ \A t \in Targets(p, n) : p.targets[t] = p.targets[n]
    /\ \A n \in p.builder : Targets(p, n) \subseteq p.builder

LEMMA ProjectsSane ==
  ASSUME NEW p \in Projects
  PROVE  Sane(p)
<1>1. p.effects \in [Node -> SUBSET (Node \ p.builder)]
  BY ProjectAssumption
<1> QED  BY <1>1, ProjectAssumption DEF Sane

LEMMA ToSetRange ==
  ASSUME NEW S, NEW s \in Seq(S)
  PROVE  ToSet(s) \subseteq S
BY DEF ToSet

LEMMA TargetsAreNodes ==
  ASSUME NEW p, Sane(p), NEW n \in Node
  PROVE  Targets(p, n) \subseteq Node /\ n \in Targets(p, n)
BY ToSetRange DEF Sane, Targets

LEMMA LaterTransitive ==
  ASSUME NEW p, NEW d, NEW e, NEW f, Later(p, d, e), Later(p, e, f)
  PROVE  Later(p, d, f) /\ (Quiet(d, e) /\ Quiet(e, f) => Quiet(d, f))
BY DEF Later, Quiet

LEMMA WithoutCandidateWalk ==
  ASSUME NEW p, Sane(p), NEW d, IsWalk(d), HasCandidate(d)
  PROVE  /\ Candidate(d) \in Node
         /\ Later(p, d, WithoutCandidate(d)) /\ Quiet(d, WithoutCandidate(d))
         /\ WithoutCandidate(d).state = d.state /\ WithoutCandidate(d).stopped = d.stopped
         /\ (d.cand # <<>> => d.currentTop \in Node) => WithoutCandidate(d).currentTop \in Node
<1>1. ASSUME NEW s \in Seq(Node), s # <<>>
      PROVE  Last(s) \in Node /\ Front(s) \in Seq(Node)
  BY <1>1 DEF Last, Front
<1>2. CASE d.cand # <<>>
  BY <1>1, <1>2 DEF IsWalk, WithoutCandidate, Candidate, Later, Quiet
<1>3. CASE d.cand = <<>>
  BY <1>1, <1>3 DEF IsWalk, HasCandidate, WithoutCandidate, Candidate, Later, Quiet
<1> QED  BY <1>2, <1>3

LEMMA WillNotBuildWalk ==
  ASSUME NEW p, Sane(p), NEW d, IsWalk(d), NEW nodes, NEW failed \in BOOLEAN
  PROVE  LET e == WillNotBuild(d, nodes, failed)
         IN  Later(p, d, e) /\ Quiet(d, e) /\ e.currentTop = d.currentTop
<1> DEFINE gone == Closure(d.wp, nodes)
<1> HIDE DEF gone
<1>1. WillNotBuild(d, nodes, failed) =
        [d EXCEPT !.state   = [n \in Node |-> IF failed /\ n \in gone THEN "failed" ELSE @[n]],
                  !.ref     = [n \in Node |-> @[n] - Cardinality({c \in gone : n \in d.wp[c]})],
                  !.wp      = [n \in Node |-> IF n \in gone THEN {} ELSE @[n]],
                  !.pending = @ \ gone]
  BY DEF WillNotBuild, gone
<1> DEFINE e == WillNotBuild(d, nodes, failed)
<1>2. /\ e = [state |-> e.state, ref |-> e.ref, wp |-> e.wp, wse |-> e.wse, cand |-> e.cand,
            implicit |-> e.implicit, topLeft |-> e.topLeft, currentTop |-> e.currentTop,
            pending |-> e.pending, stopped |-> e.stopped]
      /\ e.state = [n \in Node |-> IF failed /\ n \in gone THEN "failed" ELSE d.state[n]]
      /\ e.wp = [n \in Node |-> IF n \in gone THEN {} ELSE d.wp[n]]
      /\ e.wse = d.wse /\ e.cand = d.cand /\ e.topLeft = d.topLeft
      /\ e.currentTop = d.currentTop /\ e.stopped = d.stopped
  BY <1>1 DEF IsWalk
<1> HIDE DEF e
<1>3. IsWalk(e)
  BY <1>2 DEF IsWalk, NodeState
<1>4. Later(p, d, e) /\ Quiet(d, e)
  BY <1>2, <1>3 DEF Later, Quiet, Sane, IsWalk, NodeState, Handled
<1> QED  BY <1>2, <1>4 DEF e

LEMMA DrainedWalk ==
  ASSUME NEW p, Sane(p), NEW d, IsWalk(d)
  PROVE  Later(p, d, Drained(d)) /\ Quiet(d, Drained(d)) /\ Drained(d).cand = <<>>
<1> DEFINE w == WillNotBuild(d, ToSet(d.cand), FALSE)
<1>1. Later(p, d, w) /\ Quiet(d, w)
  BY WillNotBuildWalk
<1> HIDE DEF w
<1>2. Drained(d) = [w EXCEPT !.cand = <<>>]
  BY DEF Drained, w
<1> DEFINE e == Drained(d)
<1>3. /\ e = [state |-> e.state, ref |-> e.ref, wp |-> e.wp, wse |-> e.wse, cand |-> e.cand,
            implicit |-> e.implicit, topLeft |-> e.topLeft, currentTop |-> e.currentTop,
            pending |-> e.pending, stopped |-> e.stopped]
      /\ e.state = w.state /\ e.wp = w.wp /\ e.wse = w.wse /\ e.cand = <<>> /\ e.topLeft = w.topLeft
      /\ e.currentTop = w.currentTop /\ e.stopped = w.stopped
  BY <1>1, <1>2 DEF Later, IsWalk
<1> HIDE DEF e
<1>4. IsWalk(e)
  BY <1>1, <1>3 DEF Later, IsWalk
<1> QED  BY <1>1, <1>3, <1>4 DEF Later, Quiet, e

LEMMA StoppedWalk ==
  ASSUME NEW p, Sane(p), NEW d, IsWalk(d)
  PROVE  /\ Later(p, d, Stopped(d)) /\ Quiet(d, Stopped(d))
         /\ Stopped(d).stopped /\ Stopped(d).cand = d.cand /\ Stopped(d).state = d.state
         /\ Stopped(d).currentTop = d.currentTop
<1> DEFINE e == Stopped(d)
<1>1. /\ e = [state |-> e.state, ref |-> e.ref, wp |-> e.wp, wse |-> e.wse, cand |-> e.cand,
            implicit |-> e.implicit, topLeft |-> e.topLeft, currentTop |-> e.currentTop,
            pending |-> e.pending, stopped |-> e.stopped]
      /\ e.state = d.state /\ e.wp = d.wp /\ e.wse = d.wse /\ e.cand = d.cand
      /\ e.topLeft = d.topLeft /\ e.currentTop = d.currentTop /\ e.stopped = TRUE
  <2>1. e = [d EXCEPT !.stopped = TRUE]
    BY DEF Stopped
  <2> HIDE DEF e
  <2> QED  BY <2>1 DEF IsWalk
<1> HIDE DEF e
<1>2. IsWalk(e)
  BY <1>1 DEF IsWalk
<1> QED  BY <1>1, <1>2 DEF Later, Quiet, e

LEMMA VisitedWalk ==
  ASSUME NEW p, Sane(p), NEW d, IsWalk(d), NEW n \in Node
  PROVE  /\ Later(p, d, Visited(d, n)) /\ Quiet(d, Visited(d, n))
         /\ Visited(d, n).currentTop = d.currentTop /\ Visited(d, n).stopped = d.stopped
<1> DEFINE e == Visited(d, n)
<1>1. /\ e = [state |-> e.state, ref |-> e.ref, wp |-> e.wp, wse |-> e.wse, cand |-> e.cand,
            implicit |-> e.implicit, topLeft |-> e.topLeft, currentTop |-> e.currentTop,
            pending |-> e.pending, stopped |-> e.stopped]
      /\ e.state = [d.state EXCEPT ![n] = IF d.state[n] = "no_state" THEN "pending" ELSE d.state[n]]
      /\ e.wp = d.wp /\ e.wse = d.wse /\ e.cand = d.cand /\ e.topLeft = d.topLeft
      /\ e.currentTop = d.currentTop /\ e.stopped = d.stopped
  <2> DEFINE st == [d.state EXCEPT ![n] = IF d.state[n] = "no_state" THEN "pending" ELSE d.state[n]]
  <2>1. e = [d EXCEPT !.state = st]
    BY DEF Visited
  <2> HIDE DEF st, e
  <2>2. e.state = st
    BY <2>1 DEF IsWalk
  <2> QED  BY <2>1, <2>2 DEF IsWalk, st
<1> HIDE DEF e
<1>2. IsWalk(e)
  BY <1>1 DEF IsWalk, NodeState
<1>3. Later(p, d, e) /\ Quiet(d, e)
  BY <1>1, <1>2 DEF Later, Quiet, Sane, IsWalk, Handled
<1> QED  BY <1>1, <1>3 DEF e

\* What leaves the states, the queues and the flags of a walk alone.
LEMMA SameStates ==
  ASSUME NEW p, Sane(p), NEW d, IsWalk(d), NEW e, IsWalk(e),
         e.state = d.state, e.stopped = d.stopped, e.currentTop = d.currentTop
  PROVE  Later(p, d, e) /\ Quiet(d, e)
BY DEF Later, Quiet

LEMMA ScannedWalk ==
  ASSUME NEW p, Sane(p), NEW q, NEW d, IsWalk(d), NEW fresh, NEW n \in Node
  PROVE  LET e == Scanned(q, d, fresh, n)
         IN  /\ Later(p, d, e) /\ Quiet(d, e) /\ e.currentTop = d.currentTop
             /\ e.state = d.state /\ e.stopped = d.stopped
<1> DEFINE e == Scanned(q, d, fresh, n)
<1>1. PICK i : e = [d EXCEPT !.implicit = i]
  BY DEF Scanned
<1> HIDE DEF e
<1>2. /\ IsWalk(e) /\ e.state = d.state /\ e.stopped = d.stopped /\ e.currentTop = d.currentTop
  BY <1>1 DEF IsWalk
<1> QED  BY <1>2, SameStates DEF e

\* All sequences in which a set of nodes may come are sequences of nodes.
LEMMA SeqsOfNodes ==
  ASSUME NEW S \in SUBSET Node
  PROVE  SetToSeqs(S) \subseteq Seq(Node)
<1>1. Cardinality(S) \in Nat
  BY NodesFinite, FS_Subset, FS_CardinalityType
<1>2. ASSUME NEW f \in [1..Cardinality(S) -> S]
      PROVE  f \in Seq(Node)
  BY <1>1
<1> QED  BY <1>2 DEF SetToSeqs

LEMMA PushWalk ==
  ASSUME NEW p, Sane(p), NEW d, IsWalk(d), NEW kids \in SUBSET Node, NEW order \in PushOrders(d, kids)
  PROVE  LET e == Push(d, order)
         IN  /\ Later(p, d, e) /\ Quiet(d, e) /\ e.currentTop = d.currentTop
             /\ e.state = d.state /\ e.stopped = d.stopped /\ e.cand \in Seq(Node)
<1>1. order \in Seq(Node)
  BY SeqsOfNodes DEF PushOrders
<1> DEFINE e == Push(d, order)
<1>2. /\ IsWalk(e) /\ e.state = d.state /\ e.stopped = d.stopped /\ e.currentTop = d.currentTop
  <2> DEFINE c == d.cand \o order
  <2>1. e = [d EXCEPT !.cand = c]
    BY DEF Push
  <2>2. c \in Seq(Node)
    BY <1>1 DEF IsWalk
  <2> HIDE DEF c, e
  <2>3. /\ e = [state |-> e.state, ref |-> e.ref, wp |-> e.wp, wse |-> e.wse, cand |-> e.cand,
              implicit |-> e.implicit, topLeft |-> e.topLeft, currentTop |-> e.currentTop,
              pending |-> e.pending, stopped |-> e.stopped]
        /\ e.state = d.state /\ e.wp = d.wp /\ e.wse = d.wse /\ e.cand = c
        /\ e.topLeft = d.topLeft /\ e.currentTop = d.currentTop /\ e.stopped = d.stopped
    BY <2>1 DEF IsWalk
  <2> QED  BY <2>2, <2>3 DEF IsWalk
<1> HIDE DEF e
<1>3. Later(p, d, e) /\ Quiet(d, e) /\ e.cand \in Seq(Node)
  BY <1>2, SameStates DEF IsWalk
<1> QED  BY <1>2, <1>3 DEF e

LEMMA GiveUpWalk ==
  ASSUME NEW p, Sane(p), NEW d, IsWalk(d), NEW n \in Node
  PROVE  LET e == GiveUp(p, d, n)
         IN  Later(p, d, e) /\ Quiet(d, e) /\ e.currentTop = d.currentTop
<1> DEFINE e == GiveUp(p, d, n)
<1>1. PICK T : e = [d EXCEPT !.state = [t \in Node |-> IF t \in T THEN "failed" ELSE @[t]]]
  BY DEF GiveUp
<1> HIDE DEF e
<1>2. e.state = [t \in Node |-> IF t \in T THEN "failed" ELSE d.state[t]]
  BY <1>1 DEF IsWalk
<1>3. IsWalk(e) /\ e.stopped = d.stopped /\ e.currentTop = d.currentTop
  BY <1>1, <1>2 DEF IsWalk, NodeState
<1>4. Later(p, d, e) /\ Quiet(d, e)
  BY <1>2, <1>3 DEF Later, Quiet, Sane, IsWalk, NodeState, Handled
<1> QED  BY <1>3, <1>4 DEF e

LEMMA WaitForWalk ==
  ASSUME NEW p, Sane(p), NEW d, IsWalk(d), NEW n \in Node, NEW kids, NEW c \in Seq(Node)
  PROVE  LET e == [WaitFor(d, n, kids) EXCEPT !.cand = c]
         IN  Later(p, d, e) /\ Quiet(d, e) /\ e.currentTop = d.currentTop
<1> DEFINE slow == NotReady(d, kids)
           e == [WaitFor(d, n, kids) EXCEPT !.cand = c]
<1>1. PICK r, q : e = [[d EXCEPT !.ref[n] = r,
                     !.wp = [m \in Node |-> IF m \in slow THEN @[m] \cup {n} ELSE @[m]],
                     !.pending = q] EXCEPT !.cand = c]
  BY DEF WaitFor
<1> HIDE DEF e, slow
<1>2. e.wp = [m \in Node |-> IF m \in slow THEN d.wp[m] \cup {n} ELSE d.wp[m]]
  BY <1>1 DEF IsWalk
<1>3. IsWalk(e) /\ e.state = d.state /\ e.stopped = d.stopped /\ e.currentTop = d.currentTop
  BY <1>1, <1>2 DEF IsWalk
<1> QED  BY <1>3, SameStates DEF e

LEMMA WaitForEffectsWalk ==
  ASSUME NEW p, Sane(p), NEW d, IsWalk(d), NEW n \in Node
  PROVE  LET e == WaitForEffects(p, d, n)
         IN  Later(p, d, e) /\ Quiet(d, e) /\ e.currentTop = d.currentTop
<1> DEFINE busy == BusyEffects(p, d, n)
           e == WaitForEffects(p, d, n)
<1>1. e = [d EXCEPT !.wse = [s \in Node |-> IF s \in busy THEN @[s] \cup {n} ELSE @[s]]]
  BY DEF WaitForEffects
<1> HIDE DEF e, busy
<1>2. e.wse = [s \in Node |-> IF s \in busy THEN d.wse[s] \cup {n} ELSE d.wse[s]]
  BY <1>1 DEF IsWalk
<1>3. IsWalk(e) /\ e.state = d.state /\ e.stopped = d.stopped /\ e.currentTop = d.currentTop
  BY <1>1, <1>2 DEF IsWalk
<1> QED  BY <1>3, SameStates DEF e

LEMMA MarkedWalk ==
  ASSUME NEW p, Sane(p), NEW d, IsWalk(d), NEW T \in SUBSET Node
  PROVE  LET e == Marked(p, d, T)
         IN  /\ Later(p, d, e) /\ e.currentTop = d.currentTop
             /\ \A t \in T : e.state[t] \in Handled
<1> DEFINE M == T \cup Effects(p, T)
           e == Marked(p, d, T)
<1>1. e = [d EXCEPT !.state = [n \in Node |-> IF n \in M THEN "executing" ELSE @[n]]]
  BY DEF Marked
<1>0. T \subseteq M
  OBVIOUS
<1> HIDE DEF e, M
<1>2. e.state = [n \in Node |-> IF n \in M THEN "executing" ELSE d.state[n]]
  BY <1>1 DEF IsWalk
<1>3. IsWalk(e) /\ e.stopped = d.stopped /\ e.currentTop = d.currentTop
  BY <1>1, <1>2 DEF IsWalk, NodeState
<1>4. Later(p, d, e) /\ \A t \in T : e.state[t] \in Handled
  BY <1>0, <1>2, <1>3 DEF Later, Sane, IsWalk, NodeState, Handled
<1> QED  BY <1>3, <1>4 DEF e

LEMMA UpToDateWalk ==
  ASSUME NEW p, Sane(p), NEW d, IsWalk(d), NEW T \in SUBSET Node
  PROVE  LET e == UpToDate(d, T)
         IN  /\ Later(p, d, e) /\ Quiet(d, e) /\ e.currentTop = d.currentTop
             /\ \A t \in T : e.state[t] \in Handled
<1> DEFINE e == UpToDate(d, T)
<1>1. e.state = [n \in Node |-> IF n \in T THEN "up_to_date" ELSE d.state[n]]
  BY DEF UpToDate, IsWalk
<1>2. IsWalk(e) /\ e.stopped = d.stopped /\ e.currentTop = d.currentTop
  BY <1>1 DEF UpToDate, IsWalk, NodeState
<1> HIDE DEF e
<1>3. Later(p, d, e) /\ Quiet(d, e) /\ \A t \in T : e.state[t] \in Handled
  BY <1>1, <1>2 DEF Later, Quiet, Sane, IsWalk, NodeState, Handled
<1> QED  BY <1>2, <1>3 DEF e

LEMMA ReleasedWalk ==
  ASSUME NEW p, Sane(p), NEW d, IsWalk(d), NEW T \in SUBSET Node
  PROVE  LET e == Released(p, d, T)
         IN  Later(p, d, e) /\ Quiet(d, e) /\ e.currentTop = d.currentTop
<1> DEFINE done == {t \in T : d.state[t] = "executing"}
           side == Effects(p, done) \ done
           e == Released(p, d, T)
<1>0. side \subseteq Node \ p.builder
  BY DEF Effects, Sane
<1>1. e = [d EXCEPT !.state = [n \in Node |-> CASE n \in done -> "executed"
                                               [] n \in side -> "no_state" [] OTHER -> @[n]]]
  BY DEF Released
<1> HIDE DEF e, done, side
<1>2. e.state = [n \in Node |-> CASE n \in done -> "executed"
                                  [] n \in side -> "no_state" [] OTHER -> d.state[n]]
  BY <1>1 DEF IsWalk
<1>3. IsWalk(e) /\ e.stopped = d.stopped /\ e.currentTop = d.currentTop
  BY <1>1, <1>2 DEF IsWalk, NodeState
<1>4. Later(p, d, e) /\ Quiet(d, e)
  BY <1>0, <1>2, <1>3 DEF Later, Quiet, Sane, IsWalk, NodeState, Handled
<1> QED  BY <1>3, <1>4 DEF e

LEMMA ExecutedWalk ==
  ASSUME NEW p, Sane(p), NEW d, IsWalk(d), NEW T \in SUBSET Node
  PROVE  LET e == Executed(p, d, T)
         IN  Later(p, d, e) /\ Quiet(d, e) /\ e.currentTop = d.currentTop
<1> DEFINE r == Released(p, d, T)
           e == Executed(p, d, T)
<1>1. Later(p, d, r) /\ Quiet(d, r) /\ r.currentTop = d.currentTop
  BY ReleasedWalk
<1>2. PICK i : e = [r EXCEPT !.implicit = i]
  BY DEF Executed
<1> HIDE DEF e, r
<1>3. IsWalk(e) /\ e.state = r.state /\ e.stopped = r.stopped /\ e.currentTop = r.currentTop
  BY <1>1, <1>2 DEF Later, IsWalk
<1> QED  BY <1>1, <1>3 DEF Later, Quiet, e

LEMMA PostprocessedWalk ==
  ASSUME NEW p, Sane(p), NEW d, IsWalk(d), NEW T \in SUBSET Node, NEW e \in Postprocessed(p, d, T)
  PROVE  Later(p, d, e) /\ Quiet(d, e) /\ e.currentTop = d.currentTop
<1> DEFINE held    == {s \in Effects(p, T) : d.state[s] = "executing"}
           counted == T \cup held
           ref     == [n \in Node |-> d.ref[n] - Cardinality({c \in counted : n \in d.wp[c]})]
           queued  == {n \in UNION {d.wse[s] : s \in Effects(p, T)} : d.ref[n] = 0}
           freed   == {n \in UNION {d.wp[c] : c \in counted} : ref[n] = 0}
           orders  == {both[1] \o both[2] : both \in SetToSeqs(queued) \X SetToSeqs(freed)}
<1>1. PICK order \in orders :
        e = [d EXCEPT
               !.state   = [n \in Node |-> IF n \in held THEN "no_state" ELSE @[n]],
               !.ref     = ref,
               !.wp      = [n \in Node |-> IF n \in T THEN {} ELSE @[n]],
               !.pending = @ \ {t \in T : d.wp[t] # {}},
               !.cand    = @ \o order]
  BY Zenon DEF Postprocessed
<1>2. Effects(p, T) \subseteq Node \ p.builder
  BY DEF Effects, Sane
<1>3. held \subseteq Node \ p.builder /\ counted \subseteq Node
  BY <1>2
<1>4. queued \subseteq Node /\ freed \subseteq Node
  BY <1>2, <1>3 DEF IsWalk
<1>5. order \in Seq(Node)
  <2> HIDE DEF queued, freed
  <2>1. PICK both \in SetToSeqs(queued) \X SetToSeqs(freed) : order = both[1] \o both[2]
    BY <1>1
  <2>2. both[1] \in Seq(Node) /\ both[2] \in Seq(Node)
    BY <1>4, SeqsOfNodes
  <2> QED  BY <2>1, <2>2
<1> HIDE DEF held, counted, ref, queued, freed, orders
<1>6. /\ e = [state |-> e.state, ref |-> e.ref, wp |-> e.wp, wse |-> e.wse, cand |-> e.cand,
            implicit |-> e.implicit, topLeft |-> e.topLeft, currentTop |-> e.currentTop,
            pending |-> e.pending, stopped |-> e.stopped]
      /\ e.state = [n \in Node |-> IF n \in held THEN "no_state" ELSE d.state[n]]
      /\ e.wp = [n \in Node |-> IF n \in T THEN {} ELSE d.wp[n]]
      /\ e.cand = d.cand \o order
      /\ e.wse = d.wse /\ e.topLeft = d.topLeft
      /\ e.currentTop = d.currentTop /\ e.stopped = d.stopped
  BY <1>1 DEF IsWalk
<1>7. e.cand \in Seq(Node)
  BY <1>5, <1>6 DEF IsWalk
<1>8. IsWalk(e)
  BY <1>6, <1>7 DEF IsWalk, NodeState
<1> QED  BY <1>3, <1>6, <1>8 DEF Later, Quiet, Sane, IsWalk, NodeState, Handled

----------------------------------------------------------------------------
(* Types, and what the end of a task does to the walk.                     *)

Result == [node : Node, ok : BOOLEAN]
Thread == [does : {"none", "idle", "run", "quit"}, node : Node \cup {NoTask}, doomed : BOOLEAN]

Types ==
    /\ project \in Projects /\ options \in OptionSets /\ IsWalk(dag)
    /\ pc \in {"next", "look", "prepare", "executed", "failed", "wait", "join", "cleanup", "done"}
    /\ task \in Node \cup {NoTask} /\ (task \in Node <=> pc \in {"prepare", "executed", "failed"})
    /\ requestQ \in Seq(Node) /\ resultsQ \in Seq(Result) /\ worker \in [Worker -> Thread]
    /\ \A w \in Worker : worker[w].does = "run" => worker[w].node \in Node
    /\ interrupted \in BOOLEAN /\ raised \in BOOLEAN /\ jobs \in Int /\ runs \in [Node -> Nat]

\* There are tasks only after the first requested target was taken.
Entered ==
    \/ dag.currentTop \in Node
    \/ /\ dag.cand = <<>> /\ task = NoTask /\ requestQ = <<>> /\ resultsQ = <<>>
       /\ \A w \in Worker : worker[w].does # "run"

LEMMA ProjectSane ==
  ASSUME Types
  PROVE  Sane(project)
BY ProjectsSane DEF Types

LEMMA PolicyRange ==
  ASSUME Types
  PROVE  /\ Policy \in {"stop", "keep_going", "ignore"}
         /\ options.class \in {"build", "question", "clean"} /\ options.jobs \in Nat \ {0}
BY OptionAssumption DEF Types, Policy

LEMMA FailWalk ==
  ASSUME Types, dag.currentTop \in Node, NEW n \in Node, Fail(n)
  PROVE  Later(project, dag, dag') /\ Quiet(dag, dag') /\ dag'.currentTop = dag.currentTop
<1> DEFINE T      == Targets(project, n)
           marked == WillNotBuild(dag, T, TRUE)
           after  == CASE Policy = "ignore"     -> Executed(project, dag, T)
                       [] Policy = "keep_going" -> marked
                       [] Policy = "stop"       -> Stopped(marked)
           over   == IF Policy = "stop" THEN {dag.currentTop} ELSE T
<1> USE ProjectSane
<1>1. IsWalk(dag) /\ T \in SUBSET Node /\ over \in SUBSET Node
  BY TargetsAreNodes DEF Types
<1>2. dag' \in Postprocessed(project, after, over)
  BY DEF Fail
<1> HIDE DEF T, over
<1>3. Later(project, dag, marked) /\ Quiet(dag, marked) /\ marked.currentTop = dag.currentTop
  BY <1>1, WillNotBuildWalk
<1>4. IsWalk(marked)
  BY <1>3 DEF Later
<1>5. Later(project, dag, after) /\ Quiet(dag, after) /\ after.currentTop = dag.currentTop
  <2>1. CASE Policy = "ignore"
    BY <1>1, <2>1, ExecutedWalk
  <2>2. CASE Policy = "keep_going"
    BY <1>3, <2>2
  <2>3. CASE Policy = "stop"
    <3> HIDE DEF marked
    <3>1. after = Stopped(marked)
      BY <2>3
    <3> QED  BY <1>3, <1>4, <3>1, StoppedWalk, LaterTransitive
  <2> QED  BY <2>1, <2>2, <2>3, PolicyRange
<1> HIDE DEF after
<1>6. IsWalk(after)
  BY <1>5 DEF Later
<1>7. Later(project, after, dag') /\ Quiet(after, dag') /\ dag'.currentTop = after.currentTop
  BY <1>1, <1>2, <1>6, PostprocessedWalk
<1> QED  BY <1>5, <1>7, LaterTransitive

LEMMA CompleteWalk ==
  ASSUME Types, dag.currentTop \in Node, NEW n \in Node, Complete(n)
  PROVE  Later(project, dag, dag') /\ Quiet(dag, dag') /\ dag'.currentTop = dag.currentTop
<1> USE ProjectSane
<1>1. CASE Fail(n)
  BY <1>1, FailWalk
<1>2. CASE ~Fail(n)
  <2> DEFINE T     == Targets(project, n)
             after == CASE options.class = "build"    -> Executed(project, dag, T)
                        [] options.class = "clean"    -> Released(project, dag, T)
                        [] options.class = "question" -> dag
  <2>1. IsWalk(dag) /\ T \in SUBSET Node
    BY TargetsAreNodes DEF Types
  <2>2. dag' \in Postprocessed(project, after, T)
    BY <1>2 DEF Complete
  <2> HIDE DEF T
  <2>3. Later(project, dag, after) /\ Quiet(dag, after) /\ after.currentTop = dag.currentTop
    <3>1. CASE options.class = "build"
      BY <2>1, <3>1, ExecutedWalk
    <3>2. CASE options.class = "clean"
      BY <2>1, <3>2, ReleasedWalk
    <3>3. CASE options.class = "question"
      BY <2>1, <3>3 DEF Later, Quiet
    <3> QED  BY <3>1, <3>2, <3>3, PolicyRange
  <2> HIDE DEF after
  <2>4. IsWalk(after)
    BY <2>3 DEF Later
  <2>5. Later(project, after, dag') /\ Quiet(after, dag') /\ dag'.currentTop = after.currentTop
    BY <2>1, <2>2, <2>4, PostprocessedWalk
  <2> QED  BY <2>3, <2>5, LaterTransitive
<1> QED  BY <1>1, <1>2

\* A task for a node that nobody has handled is handed to the job.
Handed ==
    /\ pc' = "prepare" /\ task' \in Node /\ dag.state[task'] \notin Handled
    /\ options.class = "clean" \/ ~raised' =>
          \A t \in Targets(project, task') : dag'.state[t] \in Handled
    /\ raised' \in BOOLEAN

LEMMA ReadyWalk ==
  ASSUME Types, NEW d, IsWalk(d), NEW n \in Node, NEW e \in Ready(project, d, n)
  PROVE  /\ Later(project, d, e) /\ e.currentTop = d.currentTop
         /\ \A t \in Targets(project, n) : e.state[t] \in Handled
<1>1. Targets(project, n) \in SUBSET Node
  BY ProjectSane, TargetsAreNodes
<1>2. e \in {UpToDate(d, Targets(project, n)), Marked(project, d, Targets(project, n))}
  BY DEF Ready
<1> QED  BY <1>1, <1>2, ProjectSane, UpToDateWalk, MarkedWalk

LEMMA ExamineWalk ==
  ASSUME Types, Entered, Examine
  PROVE  /\ Later(project, dag, dag') /\ dag'.currentTop \in Node /\ pc = "look"
         /\ Handed \/ (pc' = "next" /\ UNCHANGED <<task, raised>>)
         /\ UNCHANGED <<project, options, pool, ended>>
<1> DEFINE n  == Candidate(dag)
           w  == WithoutCandidate(dag)
           d0 == Visited(w, n)
<1> USE ProjectSane
<1>1. /\ IsWalk(dag) /\ HasCandidate(dag) /\ pc = "look" /\ dag.state[n] \notin Handled
      /\ dag.cand # <<>> => dag.currentTop \in Node
  BY DEF Types, Entered, Examine, Candidates
<1>2. n \in Node /\ Later(project, dag, w) /\ w.currentTop \in Node
  BY <1>1, WithoutCandidateWalk
<1>3. Later(project, w, d0) /\ d0.currentTop \in Node
  BY <1>2, VisitedWalk DEF Later
<1>4. PICK fresh \in SUBSET BeingWritten(d0) :
        LET d1   == Scanned(OnDisk, d0, fresh, n)
            kids == Children(project, d1, n)
        IN  \E order \in PushOrders(d1, kids) :
              LET d2 == Push(d1, order)
              IN  \/ /\ dag' = GiveUp(project, d2, n)
                     /\ pc' = "next" /\ UNCHANGED <<project, options, task, raised, pool, ended>>
                  \/ /\ dag' = [WaitFor(d1, n, kids) EXCEPT !.cand = d2.cand]
                     /\ pc' = "next" /\ UNCHANGED <<project, options, task, raised, pool, ended>>
                  \/ /\ dag' = WaitForEffects(project, d1, n)
                     /\ pc' = "next" /\ UNCHANGED <<project, options, task, raised, pool, ended>>
                  \/ \E d \in Ready(project, d1, n) : Hand(n, d, FALSE)
                  \/ CannotTell /\ Hand(n, d1, TRUE)
  BY Zenon DEF Examine
<1> DEFINE d1   == Scanned(OnDisk, d0, fresh, n)
           kids == Children(project, d1, n)
<1>5. PICK order \in PushOrders(d1, kids) :
        LET d2 == Push(d1, order)
        IN  \/ /\ dag' = GiveUp(project, d2, n)
               /\ pc' = "next" /\ UNCHANGED <<project, options, task, raised, pool, ended>>
            \/ /\ dag' = [WaitFor(d1, n, kids) EXCEPT !.cand = d2.cand]
               /\ pc' = "next" /\ UNCHANGED <<project, options, task, raised, pool, ended>>
            \/ /\ dag' = WaitForEffects(project, d1, n)
               /\ pc' = "next" /\ UNCHANGED <<project, options, task, raised, pool, ended>>
            \/ \E d \in Ready(project, d1, n) : Hand(n, d, FALSE)
            \/ CannotTell /\ Hand(n, d1, TRUE)
  BY <1>4, Zenon
<1> DEFINE d2 == Push(d1, order)
<1>6. kids \in SUBSET Node
  BY DEF Children
<1> HIDE DEF n, w, d0
<1>7. IsWalk(d0)
  BY <1>3 DEF Later
<1>8. Later(project, d0, d1) /\ d1.currentTop = d0.currentTop
  BY <1>2, <1>7, ScannedWalk
<1> HIDE DEF d1, kids
<1>9. IsWalk(d1) /\ Later(project, dag, d1) /\ d1.currentTop \in Node
  BY <1>2, <1>3, <1>8, LaterTransitive DEF Later
<1>10. Later(project, d1, d2) /\ d2.currentTop = d1.currentTop /\ d2.cand \in Seq(Node)
  BY <1>6, <1>9, PushWalk
<1> HIDE DEF d2
<1>11. IsWalk(d2)
  BY <1>10 DEF Later
<1>12. CASE /\ dag' = GiveUp(project, d2, n)
            /\ pc' = "next" /\ UNCHANGED <<project, options, task, raised, pool, ended>>
  <2>1. Later(project, d2, dag') /\ dag'.currentTop = d2.currentTop
    BY <1>2, <1>11, <1>12, GiveUpWalk
  <2> QED  BY <1>1, <1>9, <1>10, <1>12, <2>1, LaterTransitive
<1>13. CASE /\ dag' = [WaitFor(d1, n, kids) EXCEPT !.cand = d2.cand]
            /\ pc' = "next" /\ UNCHANGED <<project, options, task, raised, pool, ended>>
  <2>1. Later(project, d1, dag') /\ dag'.currentTop = d1.currentTop
    BY <1>2, <1>9, <1>10, <1>13, WaitForWalk
  <2> QED  BY <1>1, <1>9, <1>13, <2>1, LaterTransitive
<1>14. CASE /\ dag' = WaitForEffects(project, d1, n)
            /\ pc' = "next" /\ UNCHANGED <<project, options, task, raised, pool, ended>>
  <2>1. Later(project, d1, dag') /\ dag'.currentTop = d1.currentTop
    BY <1>2, <1>9, <1>14, WaitForEffectsWalk
  <2> QED  BY <1>1, <1>9, <1>14, <2>1, LaterTransitive
<1>15. CASE \E d \in Ready(project, d1, n) : Hand(n, d, FALSE)
  <2>1. PICK d \in Ready(project, d1, n) : Hand(n, d, FALSE)
    BY <1>15
  <2>2. Later(project, d1, d) /\ d.currentTop = d1.currentTop /\ \A t \in Targets(project, n) : d.state[t] \in Handled
    BY <1>2, <1>9, ReadyWalk
  <2> QED  BY <1>1, <1>2, <1>9, <2>1, <2>2, LaterTransitive DEF Hand, Handed, n
<1>16. CASE CannotTell /\ Hand(n, d1, TRUE)
  BY <1>1, <1>2, <1>9, <1>16 DEF CannotTell, Hand, Handed, n
<1> QED  BY <1>5, <1>12, <1>13, <1>14, <1>15, <1>16 DEF d2

LEMMA ScanRaisesWalk ==
  ASSUME Types, Entered, ScanRaises
  PROVE  /\ Later(project, dag, dag') /\ dag'.currentTop \in Node /\ pc = "look"
         /\ Handed /\ UNCHANGED <<project, options, pool, ended>>
<1> DEFINE n == Candidate(dag)
           w == WithoutCandidate(dag)
           d == Visited(w, n)
<1> USE ProjectSane
<1>1. /\ IsWalk(dag) /\ HasCandidate(dag) /\ pc = "look" /\ dag.state[n] \notin Handled
      /\ dag.cand # <<>> => dag.currentTop \in Node
  BY DEF Types, Entered, ScanRaises, Candidates
<1>2. n \in Node /\ Later(project, dag, w) /\ w.currentTop \in Node
  BY <1>1, WithoutCandidateWalk
<1>3. Later(project, w, d) /\ d.currentTop \in Node
  BY <1>2, VisitedWalk DEF Later
<1>4. PICK e \in Ready(project, d, n) \cup {f \in {d} : CannotTell} : Hand(n, e, TRUE)
  BY DEF ScanRaises
<1> HIDE DEF n, w, d
<1>5. Later(project, dag, d) /\ IsWalk(d)
  BY <1>2, <1>3, LaterTransitive DEF Later
<1>6. CASE e \in Ready(project, d, n)
  <2>1. Later(project, d, e) /\ e.currentTop = d.currentTop /\ \A t \in Targets(project, n) : e.state[t] \in Handled
    BY <1>2, <1>5, <1>6, ReadyWalk
  <2> QED  BY <1>1, <1>2, <1>3, <1>4, <1>5, <2>1, LaterTransitive DEF Hand, Handed, n
<1>7. CASE e = d /\ CannotTell
  BY <1>1, <1>2, <1>3, <1>4, <1>5, <1>7 DEF Hand, Handed, CannotTell, n
<1> QED  BY <1>4, <1>6, <1>7

LEMMA ExecuteWalk ==
  ASSUME Types, NEW n \in Node, Execute(n)
  PROVE  /\ Later(project, dag, dag') /\ Quiet(dag, dag') /\ dag'.cand = dag.cand
         /\ dag'.currentTop = dag.currentTop /\ runs' \in [Node -> Nat] /\ dag'.state = dag.state
<1>1. IsWalk(dag) /\ Sane(project)
  BY ProjectSane DEF Types
<1>2. dag' \in {dag, Stopped(dag)} /\ runs' \in [Node -> Nat]
  BY DEF Execute, Types
<1>3. Later(project, dag, dag) /\ Quiet(dag, dag)
  BY <1>1 DEF Later, Quiet
<1> QED  BY <1>1, <1>2, <1>3, StoppedWalk

\* The parts of a walk's future that every step has in common.
Onward == Types' /\ Entered' /\ Later(project, dag, dag') /\ UNCHANGED <<project, options>>

LEMMA TaskEntered ==
  ASSUME Types, Entered,
         \/ pc \in {"prepare", "executed", "failed"} \/ requestQ # <<>> \/ resultsQ # <<>>
         \/ \E w \in Worker : worker[w].does = "run"
  PROVE  dag.currentTop \in Node
BY TaskNode DEF Types, Entered

\* What a step leaves alone of the walk it leaves alone.
LEMMA StillWalk ==
  ASSUME Types, UNCHANGED dag
  PROVE  Later(project, dag, dag') /\ Quiet(dag, dag')
BY DEF Types, Later, Quiet

LEMMA EndOfTask ==
  ASSUME Types, Entered, NEW n \in Node, Complete(n) \/ Fail(n), dag.currentTop \in Node
  PROVE  /\ Later(project, dag, dag') /\ Quiet(dag, dag') /\ dag'.currentTop \in Node /\ IsWalk(dag')
BY CompleteWalk, FailWalk DEF Later

LEMMA MainOnward ==
  ASSUME Types, Entered, MainStep
  PROVE  Onward
<1> USE ProjectSane, TaskNode
<1>0. CASE TakeCandidate
  <2>1. UNCHANGED <<project, options, dag, task, raised, pool, ended>> /\ pc = "next" /\ pc' = "look"
    BY <1>0 DEF TakeCandidate
  <2>2. Later(project, dag, dag')
    BY <2>1, StillWalk
  <2> QED  BY <2>1, <2>2 DEF Onward, Types, Entered, pool, ended
<1>1. CASE SkipHandled
  <2>1. pc = "look" /\ IsWalk(dag) /\ HasCandidate(dag) /\ (dag.cand # <<>> => dag.currentTop \in Node)
    BY <1>1 DEF SkipHandled, Candidates, Types, Entered
  <2>2. Later(project, dag, dag') /\ dag'.currentTop \in Node
    BY <1>1, <2>1, WithoutCandidateWalk DEF SkipHandled
  <2> QED  BY <1>1, <2>1, <2>2 DEF SkipHandled, Onward, Types, Entered, Later, pool, ended
<1>2. CASE Examine
  BY <1>2, ExamineWalk DEF Onward, Types, Entered, Later, Handed, pool, ended
<1>3. CASE ScanRaises
  BY <1>3, ScanRaisesWalk DEF Onward, Types, Entered, Later, Handed, pool, ended
<1>4. CASE NoTaskLeft
  <2>1. Later(project, dag, dag') /\ (dag.cand = <<>> => dag'.cand = <<>>)
    BY <1>4, DrainedWalk, StillWalk DEF NoTaskLeft, Types
  <2> QED  BY <1>4, <2>1 DEF NoTaskLeft, Onward, Types, Entered, Later, pool, ended
<1>5. CASE PrepareFails \/ SkipCurrent \/ ConcludeSerially
  <2>1. /\ task \in Node /\ (Complete(task) \/ Fail(task)) /\ dag.currentTop \in Node
        /\ UNCHANGED <<project, options, pool, interrupted, runs>>
        /\ pc' = "next" /\ task' = NoTask /\ raised' = FALSE
    BY <1>5, TaskEntered DEF PrepareFails, SkipCurrent, ConcludeSerially, Prepared, Types
  <2> QED  BY <2>1, EndOfTask DEF Onward, Types, Entered, pool
<1>6. CASE Dispatch
  <2>1. task \in Node /\ pc = "prepare" /\ UNCHANGED dag
    BY <1>6 DEF Dispatch, Prepared, Types
  <2>2. Later(project, dag, dag') /\ dag'.currentTop \in Node
    BY <2>1, StillWalk, TaskEntered
  <2>3. requestQ' \in Seq(Node) /\ jobs' \in Int /\ pc' \in {"next", "wait"}
    BY <1>6, <2>1 DEF Dispatch, Types
  <2> QED  BY <1>6, <2>1, <2>2, <2>3 DEF Dispatch, Onward, Types, Entered, ended
<1>7. CASE ExecuteSerially
  <2>1. task \in Node /\ pc = "prepare" /\ Execute(task)
    BY <1>7 DEF ExecuteSerially, Prepared, Types
  <2>2. dag'.currentTop \in Node /\ Later(project, dag, dag') /\ runs' \in [Node -> Nat]
    BY <2>1, TaskEntered, ExecuteWalk
  <2> QED  BY <1>7, <2>1, <2>2 DEF ExecuteSerially, Onward, Types, Entered, Later, pool
<1>8. CASE GetResult
  <2>1. Head(resultsQ) \in Result /\ Tail(resultsQ) \in Seq(Result) /\ dag.currentTop \in Node
    BY <1>8, TaskEntered DEF GetResult, Types
  <2>2. Head(resultsQ).node \in Node /\ (Complete(Head(resultsQ).node) \/ Fail(Head(resultsQ).node))
    BY <1>8, <2>1 DEF GetResult, Result
  <2>3. Later(project, dag, dag') /\ dag'.currentTop \in Node /\ IsWalk(dag')
    BY <2>1, <2>2, EndOfTask
  <2> QED  BY <1>8, <2>1, <2>3 DEF GetResult, Onward, Types, Entered
<1>9. CASE PostSentinels \/ Cleanup
  BY <1>9, StillWalk DEF PostSentinels, Cleanup, Onward, Types, Entered, Later, pool, ended
<1> QED  BY <1>0, <1>1, <1>2, <1>3, <1>4, <1>5, <1>6, <1>7, <1>8, <1>9 DEF MainStep

LEMMA OtherOnward ==
  ASSUME Types, Entered, (\E w \in Worker : WorkerStep(w)) \/ Signal \/ UNCHANGED vars
  PROVE  Onward
<1> USE ProjectSane
<1>1. ASSUME NEW w \in Worker, Take(w)
      PROVE  Onward
  <2>1. requestQ # <<>> /\ Head(requestQ) \in Node /\ Tail(requestQ) \in Seq(Node) /\ dag.currentTop \in Node
    BY <1>1, TaskEntered DEF Take, Types
  <2>2. /\ Later(project, dag, dag') /\ dag'.currentTop \in Node /\ runs' \in [Node -> Nat]
    BY <1>1, <2>1, ExecuteWalk, StillWalk DEF Take, Types
  <2>3. worker' \in [Worker -> Thread] /\ \A v \in Worker : worker'[v].does = "run" => worker'[v].node \in Node
    BY <1>1, <2>1 DEF Take, Types, Thread, Run
  <2> QED  BY <1>1, <2>1, <2>2, <2>3 DEF Take, Onward, Types, Entered, Later
<1>2. ASSUME NEW w \in Worker, Deliver(w)
      PROVE  Onward
  <2>1. worker[w].node \in Node /\ dag.currentTop \in Node /\ dag' = dag
    BY <1>2, TaskEntered DEF Deliver, Types, walk
  <2>2. resultsQ' \in Seq(Result)
    BY <1>2, <2>1 DEF Deliver, Types, Result
  <2>3. worker' \in [Worker -> Thread] /\ \A v \in Worker : worker'[v].does = "run" => worker'[v].node \in Node
    BY <1>2 DEF Deliver, Types, Thread, Idle
  <2> QED  BY <1>2, <2>1, <2>2, <2>3, StillWalk DEF Deliver, Onward, Types, Entered, Later, walk, ended
<1>3. ASSUME NEW w \in Worker, Quit(w)
      PROVE  Onward
  <2>1. /\ worker' \in [Worker -> Thread] /\ \A v \in Worker : worker'[v].does = "run" => worker'[v].node \in Node
        /\ \A v \in Worker : worker'[v].does = "run" => worker[v].does = "run"
    BY <1>3 DEF Quit, Types, Thread
  <2> QED  BY <1>3, <2>1, StillWalk DEF Quit, Onward, Types, Entered, Later, walk, ended
<1>4. CASE Signal
  <2>1. /\ Later(project, dag, dag') /\ dag'.cand = dag.cand /\ dag'.currentTop = dag.currentTop
    BY <1>4, StoppedWalk DEF Signal, Types
  <2> QED  BY <1>4, <2>1 DEF Signal, Onward, Types, Entered, Later, pool
<1>5. CASE UNCHANGED vars
  BY <1>5, StillWalk DEF vars, walk, pool, ended, Onward, Types, Entered
<1> QED  BY <1>1, <1>2, <1>3, <1>4, <1>5 DEF WorkerStep

LEMMA StepOnward ==
  ASSUME Types, Entered, [Next]_vars
  PROVE  Onward
BY MainOnward, OtherOnward DEF Next, Over

LEMMA InitWalk ==
  ASSUME Init
  PROVE  Types /\ Entered /\ \A w \in Worker : worker[w].does # "run"
<1>1. Sane(project) /\ project.top \in Seq(Node)
  BY ProjectsSane DEF Init, Sane
<1>2. Reverse(project.top) \in Seq(Node)
  BY <1>1 DEF Reverse
<1>3. IsWalk(dag) /\ dag.cand = <<>>
  BY <1>2 DEF Init, NewWalk, IsWalk, NodeState
<1>4. worker \in [Worker -> Thread] /\ \A w \in Worker : worker[w].does # "run"
  <2>1. Idle \in Thread /\ [Idle EXCEPT !.does = "none"] \in Thread
        /\ Idle.does = "idle" /\ [Idle EXCEPT !.does = "none"].does = "none"
    BY DEF Idle, Thread
  <2>2. PICK S \in SUBSET Worker :
          worker = [w \in Worker |-> IF w \in S THEN Idle ELSE [Idle EXCEPT !.does = "none"]]
    BY DEF Init
  <2> QED  BY <2>1, <2>2
<1>5. /\ requestQ = <<>> /\ resultsQ = <<>> /\ jobs = 0 /\ runs \in [Node -> Nat] /\ pc = "next"
      /\ task = NoTask /\ raised = FALSE /\ interrupted = FALSE
  BY DEF Init
<1>6. project \in Projects /\ options \in OptionSets
  BY DEF Init
<1>7. requestQ \in Seq(Node) /\ resultsQ \in Seq(Result)
  BY <1>5
<1>8. Entered
  BY <1>3, <1>4, <1>5 DEF Entered
<1>9. /\ pc \in {"next", "look", "prepare", "executed", "failed", "wait", "join", "cleanup", "done"}
      /\ task \in Node \cup {NoTask} /\ (task \in Node <=> pc \in {"prepare", "executed", "failed"})
      /\ jobs \in Int
  BY <1>5, TaskNode
<1>10. interrupted \in BOOLEAN /\ raised \in BOOLEAN
  BY <1>5
<1>11. \A w \in Worker : worker[w].does = "run" => worker[w].node \in Node
  BY <1>4
<1>12. Types
  BY <1>3, <1>4, <1>5, <1>6, <1>7, <1>9, <1>10, <1>11 DEF Types
<1> QED  BY <1>4, <1>8, <1>12

\* The types are right for any projects, options and workers.
THEOREM WalkTypes == Spec => [](Types /\ Entered)
<1>1. Init => Types /\ Entered
  BY InitWalk
<1>2. Types /\ Entered /\ [Next]_vars => (Types /\ Entered)'
  BY StepOnward DEF Onward
<1> QED  BY <1>1, <1>2, PTL DEF Spec

----------------------------------------------------------------------------
(* No task is lost between the main thread and the workers.                *)

RunningWorkers == {w \in Worker : worker[w].does = "run"}

LEMMA RunningCount ==
  /\ IsFiniteSet(RunningWorkers) /\ Cardinality(RunningWorkers) \in Nat
  /\ RunningWorkers = {} => Cardinality(RunningWorkers) = 0
BY WorkersFinite, FS_Subset, FS_CardinalityType, FS_EmptySet DEF RunningWorkers

LEMMA CountKept ==
  ASSUME Types, JobsCounted, UNCHANGED pool, pc' = "wait" => pc = "wait" \/ jobs > 0
  PROVE  JobsCounted'
BY DEF JobsCounted, pool

LEMMA CountStep ==
  ASSUME Types, JobsCounted, [Next]_vars
  PROVE  JobsCounted'
<1>0. /\ jobs = Len(requestQ) + Cardinality(RunningWorkers) + Len(resultsQ)
      /\ Len(requestQ) \in Nat /\ Len(resultsQ) \in Nat /\ Cardinality(RunningWorkers) \in Nat
  BY RunningCount DEF JobsCounted, RunningWorkers, Types
<1> DEFINE running == Cardinality(RunningWorkers)
<1>a. (jobs' = Len(requestQ') + running' + Len(resultsQ')) /\ (pc' = "wait" => jobs' > 0) => JobsCounted'
  BY DEF JobsCounted, RunningWorkers
<1>1. CASE TakeCandidate \/ SkipHandled \/ Examine \/ ScanRaises
  BY <1>1, CountKept DEF TakeCandidate, SkipHandled, Examine, ScanRaises, Candidates, Hand
<1>2. CASE NoTaskLeft
  BY <1>2, CountKept DEF NoTaskLeft
<1>3. CASE PrepareFails \/ SkipCurrent \/ ExecuteSerially \/ ConcludeSerially
  BY <1>3, CountKept DEF PrepareFails, SkipCurrent, ExecuteSerially, ConcludeSerially
<1>4. CASE Dispatch
  <2>1. /\ Len(requestQ') = Len(requestQ) + 1 /\ jobs' = jobs + 1
        /\ RunningWorkers' = RunningWorkers /\ resultsQ' = resultsQ
    BY <1>4 DEF Dispatch, Types, RunningWorkers
  <2> QED  BY <1>0, <1>a, <2>1
<1>5. CASE GetResult
  <2>1. /\ Len(resultsQ') = Len(resultsQ) - 1 /\ jobs' = jobs - 1
        /\ RunningWorkers' = RunningWorkers /\ requestQ' = requestQ
        /\ pc' = "wait" => Len(resultsQ') > 0
    BY <1>5 DEF GetResult, Types, RunningWorkers
  <2>2. pc' = "wait" => jobs' > 0
    BY <1>0, <2>1
  <2> QED  BY <1>0, <1>a, <2>1, <2>2
<1>6. CASE PostSentinels
  <2>1. UNCHANGED <<jobs, requestQ, worker, resultsQ>> /\ pc' # "wait"
    BY <1>6 DEF PostSentinels, ended
  <2> QED  BY <2>1 DEF JobsCounted
<1>7. CASE Cleanup \/ Signal \/ UNCHANGED vars
  BY <1>7, CountKept DEF Cleanup, Signal, vars, walk
<1>8. ASSUME NEW w \in Worker, Take(w)
      PROVE  JobsCounted'
  <2>1. w \notin RunningWorkers /\ RunningWorkers' = RunningWorkers \cup {w}
    BY <1>8 DEF Take, RunningWorkers, Types, Idle, Run, Thread
  <2>2. Cardinality(RunningWorkers') = Cardinality(RunningWorkers) + 1
    BY <2>1, RunningCount, FS_AddElement
  <2>3. Len(requestQ') = Len(requestQ) - 1 /\ UNCHANGED <<jobs, resultsQ, pc>>
    BY <1>8 DEF Take, Types
  <2> QED  BY <1>0, <2>2, <2>3 DEF JobsCounted, RunningWorkers
<1>9. ASSUME NEW w \in Worker, Deliver(w)
      PROVE  JobsCounted'
  <2>1. w \in RunningWorkers /\ RunningWorkers' = RunningWorkers \ {w}
    BY <1>9 DEF Deliver, RunningWorkers, Types, Idle, Thread
  <2>2. Cardinality(RunningWorkers') = Cardinality(RunningWorkers) - 1
    BY <2>1, RunningCount, FS_RemoveElement
  <2>3. Len(resultsQ') = Len(resultsQ) + 1 /\ UNCHANGED <<jobs, requestQ, pc>>
    BY <1>9 DEF Deliver, Types, walk
  <2> QED  BY <1>0, <2>2, <2>3 DEF JobsCounted, RunningWorkers
<1>10. ASSUME NEW w \in Worker, Quit(w)
       PROVE  JobsCounted'
  <2>1. RunningWorkers' = RunningWorkers
    BY <1>10 DEF Quit, RunningWorkers, Types, Idle, Thread
  <2>2. UNCHANGED <<jobs, requestQ, resultsQ, pc>>
    BY <1>10 DEF Quit, walk
  <2> QED  BY <2>1, <2>2 DEF JobsCounted, RunningWorkers
<1> QED  BY <1>1, <1>2, <1>3, <1>4, <1>5, <1>6, <1>7, <1>8, <1>9, <1>10
            DEF Next, MainStep, WorkerStep, Over

\* Every dispatched task is in a queue or with a worker, so the main thread
\* never waits for a result that nobody will deliver.
THEOREM JobsNeverLost == Spec => []JobsCounted
<1>1. Init => JobsCounted
  <2> SUFFICES ASSUME Init PROVE JobsCounted
    OBVIOUS
  <2>1. RunningWorkers = {} /\ requestQ = <<>> /\ resultsQ = <<>> /\ jobs = 0 /\ pc = "next"
    BY InitWalk DEF Init, RunningWorkers
  <2> QED  BY <2>1, RunningCount DEF JobsCounted, RunningWorkers
<1>2. Types /\ Entered /\ JobsCounted /\ [Next]_vars => JobsCounted'
  BY CountStep
<1> QED  BY <1>1, <1>2, WalkTypes, PTL DEF Spec

----------------------------------------------------------------------------
(* A stop is final.                                                        *)

\* Nobody takes a candidate from a walk that is stopped.
LEMMA NothingTaken ==
  ASSUME [Next]_vars, dag.stopped
  PROVE  pc' = "look" => pc = "look"
<1>1. CASE TakeCandidate \/ SkipHandled \/ ScanRaises \/ NoTaskLeft \/ PrepareFails \/ SkipCurrent
  BY <1>1 DEF TakeCandidate, SkipHandled, ScanRaises, Hand, NoTaskLeft, PrepareFails, SkipCurrent
<1>2. CASE Examine
  BY <1>2, Zenon DEF Examine, Candidates
<1>3. CASE Dispatch \/ ExecuteSerially \/ ConcludeSerially \/ GetResult \/ PostSentinels \/ Cleanup
  BY <1>3 DEF Dispatch, ExecuteSerially, ConcludeSerially, GetResult, PostSentinels, Cleanup
<1>4. ASSUME NEW w \in Worker, Take(w) \/ Deliver(w) \/ Quit(w)
      PROVE  UNCHANGED pc
  BY <1>4 DEF Take, Deliver, Quit, walk
<1>5. CASE Signal \/ UNCHANGED vars
  BY <1>5 DEF Signal, vars, walk
<1> QED  BY <1>1, <1>2, <1>3, <1>4, <1>5 DEF Next, MainStep, WorkerStep, Over

LEMMA StopStep ==
  ASSUME Types, Entered, [Next]_vars, dag.stopped
  PROVE  dag'.stopped /\ (pc = "look" \/ Quiet(dag, dag'))
<1>1. dag'.stopped
  BY StepOnward DEF Onward, Later
<1> SUFFICES ASSUME pc # "look"
             PROVE  Quiet(dag, dag')
  BY <1>1
<1>2. ~TakeCandidate /\ ~SkipHandled /\ ~Examine /\ ~ScanRaises
  BY DEF TakeCandidate, SkipHandled, Examine, ScanRaises, Candidates
<1>3. CASE NoTaskLeft
  BY <1>3, ProjectSane, DrainedWalk DEF NoTaskLeft, Types
<1>4. CASE PrepareFails \/ SkipCurrent \/ ConcludeSerially
  <2>1. task \in Node /\ (Complete(task) \/ Fail(task)) /\ dag.currentTop \in Node
    BY <1>4, TaskEntered DEF PrepareFails, SkipCurrent, ConcludeSerially, Prepared, Types
  <2> QED  BY <2>1, EndOfTask
<1>5. CASE ExecuteSerially
  <2>1. task \in Node /\ Execute(task)
    BY <1>5 DEF ExecuteSerially, Prepared, Types
  <2> QED  BY <2>1, ExecuteWalk
<1>6. CASE GetResult
  <2>1. Head(resultsQ) \in Result /\ dag.currentTop \in Node
    BY <1>6, TaskEntered DEF GetResult, Types
  <2>2. Head(resultsQ).node \in Node /\ (Complete(Head(resultsQ).node) \/ Fail(Head(resultsQ).node))
    BY <1>6, <2>1 DEF GetResult, Result
  <2> QED  BY <2>1, <2>2, EndOfTask
<1>7. ASSUME NEW w \in Worker, Take(w)
      PROVE  Quiet(dag, dag')
  <2>1. Head(requestQ) \in Node
    BY <1>7 DEF Take, Types
  <2> QED  BY <1>7, <2>1, ExecuteWalk, StillWalk DEF Take
<1>8. CASE Signal
  BY <1>8, ProjectSane, StoppedWalk DEF Signal, Types
<1>9. CASE UNCHANGED dag
  BY <1>9, StillWalk
<1>10. ASSUME NEW w \in Worker, Deliver(w) \/ Quit(w)
       PROVE  UNCHANGED dag
  BY <1>10 DEF Deliver, Quit, walk
<1>11. Dispatch \/ PostSentinels \/ Cleanup \/ UNCHANGED vars => UNCHANGED dag
  BY DEF Dispatch, PostSentinels, Cleanup, vars, walk
<1> QED  BY <1>2, <1>3, <1>4, <1>5, <1>6, <1>7, <1>8, <1>9, <1>10, <1>11
            DEF Next, MainStep, WorkerStep, Over

\* After a failure without -k, a signal or a target that -q found out of date
\* the walk stays stopped: no candidate is taken any more, and nothing is begun
\* but the task of the one that was taken before.
THEOREM StopIsFinal == Spec => StopMeansStop
<1>1. Types /\ Entered /\ [Next]_vars =>
        [dag.stopped => /\ dag'.stopped
                        /\ pc' = "look" => pc = "look"
                        /\ \A n \in Node : dag'.state[n] = "executing" => dag.state[n] = "executing" \/ pc = "look"]_vars
  BY StopStep, NothingTaken DEF Quiet
<1> QED  BY <1>1, WalkTypes, PTL DEF Spec, StopMeansStop

----------------------------------------------------------------------------
(* No action is run twice.                                                 *)

\* What the task of n acts on.
Own(n) == Targets(project, n) \cap project.builder

\* A task that has not run yet, and that nobody will make again.
Due(n) == \A m \in Own(n) : runs[m] = 0 /\ dag.state[m] \in Handled

\* The inductive invariant: the targets of an executor run together, what has
\* run was handled, and the tasks under way are due and share no target.
OnceInv ==
    /\ options.class = "question" => \A n \in Node : runs[n] = 0
    /\ \A n \in project.builder : runs[n] = 0 \/ (runs[n] = 1 /\ dag.state[n] \in Handled)
    /\ \A n \in project.builder : \A t \in Targets(project, n) : runs[t] = runs[n]
    /\ options.class # "question" =>
          /\ \A i \in DOMAIN requestQ : Due(requestQ[i])
          /\ \A i, j \in DOMAIN requestQ : i # j => Own(requestQ[i]) \cap Own(requestQ[j]) = {}
          /\ pc = "prepare" /\ (options.class = "build" => ~raised) =>
                /\ Due(task)
                /\ \A i \in DOMAIN requestQ : Own(task) \cap Own(requestQ[i]) = {}

LEMMA OwnTargets ==
  ASSUME Types, NEW n \in Node, NEW m \in Own(n)
  PROVE  /\ n \in project.builder /\ m \in Node /\ Targets(project, m) = Targets(project, n)
         /\ n \in Targets(project, m) /\ Own(m) = Own(n)
<1>1. Sane(project) /\ m \in Targets(project, n) /\ m \in project.builder /\ m \in Node
  BY ProjectSane DEF Own, Sane
<1>2. Targets(project, m) = Targets(project, n)
  BY <1>1 DEF Sane, Targets
<1>3. n \in Targets(project, m)
  BY <1>1, <1>2 DEF Sane
<1>4. n \in project.builder
  BY <1>1, <1>3 DEF Sane
<1> QED  BY <1>1, <1>2, <1>3, <1>4 DEF Own

LEMMA OnceKept ==
  ASSUME Types, OnceInv, Later(project, dag, dag'), UNCHANGED <<project, options, runs, requestQ>>,
         pc' = "prepare" => UNCHANGED <<pc, task, raised>>
  PROVE  OnceInv'
<1>1. \A n : Own(n)' = Own(n)
  BY DEF Own, Targets
<1>2. \A n : Due(n) => Due(n)'
  BY <1>1 DEF Due, Own, Later
<1>3. \A n \in project.builder : dag.state[n] \in Handled => dag'.state[n] \in Handled
  BY DEF Later
<1> QED  BY <1>1, <1>2, <1>3 DEF OnceInv, Targets

LEMMA OnceHanded ==
  ASSUME Types, OnceInv, Later(project, dag, dag'), UNCHANGED <<project, options, runs, requestQ>>, Handed
  PROVE  OnceInv'
<1>1. \A n : Own(n)' = Own(n)
  BY DEF Own, Targets
<1>2. \A n : Due(n) => Due(n)'
  BY <1>1 DEF Due, Own, Later
<1>3. \A n \in project.builder : dag.state[n] \in Handled => dag'.state[n] \in Handled
  BY DEF Later
<1>4. ASSUME options.class # "question", options.class = "build" => ~raised'
      PROVE  /\ Due(task)'
             /\ \A i \in DOMAIN requestQ : Own(task') \cap Own(requestQ[i]) = {}
  <2>1. task' \in Node /\ \A t \in Targets(project, task') : dag'.state[t] \in Handled
    BY <1>4, PolicyRange DEF Handed
  <2>2. \A m \in Own(task') : runs[m] = 0
    <3>1. ASSUME NEW m \in Own(task')
          PROVE  runs[m] = 0
      <4>1. task' \in project.builder /\ m \in Targets(project, task')
        BY <2>1, OwnTargets DEF Own
      <4>2. runs[task'] = 0
        BY <4>1 DEF OnceInv, Handed
      <4> QED  BY <4>1, <4>2 DEF OnceInv
    <3> QED  BY <3>1
  <2>3. ASSUME NEW i \in DOMAIN requestQ, NEW m \in Own(task') \cap Own(requestQ[i])
        PROVE  FALSE
    <3>1. requestQ[i] \in Node
      BY DEF Types
    <3>2. task' \in project.builder /\ task' \in Targets(project, m)
      BY <2>1, OwnTargets
    <3>3. Targets(project, m) = Targets(project, requestQ[i])
      BY <3>1, OwnTargets
    <3>4. task' \in Own(requestQ[i])
      BY <3>2, <3>3 DEF Own
    <3>5. dag.state[task'] \in Handled
      BY <1>4, <3>4 DEF OnceInv, Due
    <3> QED  BY <3>5 DEF Handed
  <2>4. Due(task)'
    BY <2>1, <2>2 DEF Due, Own, Targets
  <2> QED  BY <2>3, <2>4
<1>5. Own(task)' = Own(task')
  BY DEF Own, Targets
<1>6. /\ (options.class = "question" => \A n \in Node : runs[n] = 0)'
      /\ (\A n \in project.builder : runs[n] = 0 \/ (runs[n] = 1 /\ dag.state[n] \in Handled))'
      /\ (\A n \in project.builder : \A t \in Targets(project, n) : runs[t] = runs[n])'
  BY <1>3 DEF OnceInv, Targets
<1>7. ASSUME options.class # "question"
      PROVE  /\ (\A i \in DOMAIN requestQ : Due(requestQ[i]))'
             /\ (\A i, j \in DOMAIN requestQ : i # j => Own(requestQ[i]) \cap Own(requestQ[j]) = {})'
  BY <1>1, <1>2, <1>7 DEF OnceInv
<1>8. ASSUME options.class # "question", options.class = "build" => ~raised'
      PROVE  (\A i \in DOMAIN requestQ : Own(task) \cap Own(requestQ[i]) = {})'
  BY <1>1, <1>4, <1>5, <1>8
<1> QED  BY <1>4, <1>6, <1>7, <1>8 DEF OnceInv

\* The action of a due task runs.
LEMMA OnceRun ==
  ASSUME Types, OnceInv, NEW n \in Node, Execute(n), UNCHANGED <<project, options>>,
         options.class # "question" => Due(n)
  PROVE  /\ options.class = "question" => \A m \in Node : runs'[m] = 0
         /\ \A m \in project.builder : runs'[m] = 0 \/ (runs'[m] = 1 /\ dag'.state[m] \in Handled)
         /\ \A m \in project.builder : \A t \in Targets(project, m) : runs'[t] = runs'[m]
         /\ \A m \in project.builder : m \notin Own(n) => runs'[m] = runs[m]
<1> USE ProjectSane
<1>1. dag'.state = dag.state
  BY ExecuteWalk
<1>2. CASE options.class = "question"
  BY <1>1, <1>2 DEF Execute, OnceInv
<1>3. CASE options.class # "question"
  <2>1. runs' = [m \in Node |-> IF m \in Targets(project, n) THEN runs[m] + 1 ELSE runs[m]]
    BY <1>3 DEF Execute
  <2>2. \A m \in project.builder : m \in Node /\ (m \in Targets(project, n) <=> m \in Own(n))
    BY DEF Own, Sane
  <2>3. \A m \in project.builder : runs'[m] = 0 \/ (runs'[m] = 1 /\ dag'.state[m] \in Handled)
    BY <1>1, <1>3, <2>1, <2>2 DEF OnceInv, Due
  <2>4. ASSUME NEW m \in project.builder, NEW t \in Targets(project, m)
        PROVE  runs'[t] = runs'[m]
    <3>1. m \in Node /\ t \in Node /\ runs[t] = runs[m]
      BY TargetsAreNodes DEF OnceInv, Sane
    <3>2. Targets(project, t) = Targets(project, m) /\ t \in project.builder
      BY <3>1 DEF Sane, Targets
    <3>3. t \in Targets(project, n) <=> m \in Targets(project, n)
      BY <3>1, <3>2 DEF Sane, Targets
    <3> QED  BY <2>1, <3>1, <3>3
  <2> QED  BY <1>3, <2>1, <2>2, <2>3, <2>4
<1> QED  BY <1>2, <1>3

LEMMA OnceDispatch ==
  ASSUME Types, OnceInv, Dispatch
  PROVE  OnceInv'
<1>1. /\ task \in Node /\ pc = "prepare" /\ (options.class = "build" => ~raised)
      /\ requestQ' = Append(requestQ, task) /\ pc' # "prepare"
      /\ UNCHANGED <<project, options, dag, runs>>
  BY DEF Dispatch, Prepared, Types, ended
<1>2. \A n : Own(n)' = Own(n)
  BY <1>1 DEF Own, Targets
<1>3. \A n : Due(n) => Due(n)'
  BY <1>1, <1>2 DEF Due
<1>4. ASSUME options.class # "question"
      PROVE  /\ (\A i \in DOMAIN requestQ : Due(requestQ[i]))'
             /\ (\A i, j \in DOMAIN requestQ : i # j => Own(requestQ[i]) \cap Own(requestQ[j]) = {})'
  <2>1. /\ DOMAIN requestQ' = 1..(Len(requestQ) + 1) /\ DOMAIN requestQ = 1..Len(requestQ)
        /\ Len(requestQ) \in Nat /\ requestQ'[Len(requestQ) + 1] = task
        /\ \A i \in DOMAIN requestQ : requestQ'[i] = requestQ[i]
    BY <1>1 DEF Types
  <2>2. /\ \A i \in DOMAIN requestQ : Due(requestQ[i]) /\ Own(task) \cap Own(requestQ[i]) = {}
        /\ \A i, j \in DOMAIN requestQ : i # j => Own(requestQ[i]) \cap Own(requestQ[j]) = {}
        /\ Due(task)
    BY <1>1, <1>4 DEF OnceInv
  <2>3. \A i \in DOMAIN requestQ' : i \in DOMAIN requestQ \/ i = Len(requestQ) + 1
    BY <2>1
  <2>4. \A i \in DOMAIN requestQ' : Due(requestQ'[i])
    BY <2>1, <2>2, <2>3
  <2>5. \A i, j \in DOMAIN requestQ' : i # j => Own(requestQ'[i]) \cap Own(requestQ'[j]) = {}
    BY <2>1, <2>2, <2>3
  <2> QED  BY <1>2, <1>3, <2>4, <2>5 DEF Due, Own, Targets
<1>5. /\ (options.class = "question" => \A n \in Node : runs[n] = 0)'
      /\ (\A n \in project.builder : runs[n] = 0 \/ (runs[n] = 1 /\ dag.state[n] \in Handled))'
      /\ (\A n \in project.builder : \A t \in Targets(project, n) : runs[t] = runs[n])'
  BY <1>1 DEF OnceInv, Targets
<1> QED  BY <1>1, <1>4, <1>5 DEF OnceInv

LEMMA OnceSerially ==
  ASSUME Types, OnceInv, ExecuteSerially
  PROVE  OnceInv'
<1>1. /\ task \in Node /\ pc = "prepare" /\ (options.class = "build" => ~raised) /\ Execute(task)
      /\ pc' # "prepare" /\ UNCHANGED <<project, options, requestQ>>
  BY DEF ExecuteSerially, Prepared, Types, pool
<1>2. options.class # "question" => Due(task) /\ \A i \in DOMAIN requestQ : Own(task) \cap Own(requestQ[i]) = {}
  BY <1>1 DEF OnceInv
<1>3. /\ options.class = "question" => \A m \in Node : runs'[m] = 0
      /\ \A m \in project.builder : runs'[m] = 0 \/ (runs'[m] = 1 /\ dag'.state[m] \in Handled)
      /\ \A m \in project.builder : \A t \in Targets(project, m) : runs'[t] = runs'[m]
      /\ \A m \in project.builder : m \notin Own(task) => runs'[m] = runs[m]
  BY <1>1, <1>2, OnceRun
<1>4. dag'.state = dag.state /\ \A n : Own(n)' = Own(n)
  BY <1>1, ExecuteWalk DEF Own, Targets
<1>5. ASSUME options.class # "question"
      PROVE  /\ (\A i \in DOMAIN requestQ : Due(requestQ[i]))'
             /\ (\A i, j \in DOMAIN requestQ : i # j => Own(requestQ[i]) \cap Own(requestQ[j]) = {})'
  <2>1. ASSUME NEW i \in DOMAIN requestQ, NEW m \in Own(requestQ[i])
        PROVE  runs'[m] = 0 /\ dag'.state[m] \in Handled
    BY <1>2, <1>3, <1>4, <1>5, <2>1 DEF OnceInv, Due, Own
  <2> QED  BY <1>1, <1>4, <1>5, <2>1 DEF OnceInv, Due
<1> QED  BY <1>1, <1>3, <1>5 DEF OnceInv, Targets

LEMMA OnceTaken ==
  ASSUME Types, Entered, OnceInv, NEW w \in Worker, Take(w)
  PROVE  OnceInv'
<1> DEFINE n == Head(requestQ)
<1>1. /\ n \in Node /\ n = requestQ[1] /\ 1 \in DOMAIN requestQ /\ requestQ' = Tail(requestQ)
      /\ UNCHANGED <<project, options, pc, task, raised>>
      /\ (UNCHANGED <<dag, runs>> \/ Execute(n))
  BY DEF Take, Types
<1>2. /\ \A i \in DOMAIN requestQ' : i + 1 \in DOMAIN requestQ /\ requestQ'[i] = requestQ[i + 1] /\ i + 1 # 1
      /\ \A i, j \in DOMAIN requestQ' : i # j => i + 1 # j + 1
  BY <1>1 DEF Types
<1> HIDE DEF n
<1>3. options.class # "question" => Due(n) /\ \A i \in DOMAIN requestQ' : Own(n) \cap Own(requestQ'[i]) = {}
  BY <1>1, <1>2 DEF OnceInv
<1>4. dag'.state = dag.state /\ \A m : Own(m)' = Own(m)
  BY <1>1, ExecuteWalk DEF Own, Targets
<1>5. /\ options.class = "question" => \A m \in Node : runs'[m] = 0
      /\ \A m \in project.builder : runs'[m] = 0 \/ (runs'[m] = 1 /\ dag'.state[m] \in Handled)
      /\ \A m \in project.builder : \A t \in Targets(project, m) : runs'[t] = runs'[m]
      /\ \A m \in project.builder : m \notin Own(n) => runs'[m] = runs[m]
  <2>1. CASE Execute(n)
    BY <1>1, <1>3, <2>1, OnceRun
  <2>2. CASE UNCHANGED <<dag, runs>>
    BY <2>2 DEF OnceInv
  <2> QED  BY <1>1, <2>1, <2>2
<1>6. ASSUME options.class # "question"
      PROVE  /\ (\A i \in DOMAIN requestQ : Due(requestQ[i]))'
             /\ (\A i, j \in DOMAIN requestQ : i # j => Own(requestQ[i]) \cap Own(requestQ[j]) = {})'
  <2>1. ASSUME NEW i \in DOMAIN requestQ', NEW m \in Own(requestQ'[i])
        PROVE  runs'[m] = 0 /\ dag'.state[m] \in Handled
    <3>1. m \notin Own(n) /\ m \in project.builder
      BY <1>3, <1>6 DEF Own
    <3>2. runs[m] = 0 /\ dag.state[m] \in Handled
      BY <1>2, <1>6 DEF OnceInv, Due
    <3> QED  BY <1>4, <1>5, <3>1, <3>2
  <2>2. \A i, j \in DOMAIN requestQ' : i # j => Own(requestQ'[i]) \cap Own(requestQ'[j]) = {}
    BY <1>2, <1>6 DEF OnceInv
  <2> QED  BY <1>1, <1>4, <2>1, <2>2 DEF Due, Own, Targets
<1>7. ASSUME options.class # "question", pc = "prepare", options.class = "build" => ~raised
      PROVE  /\ Due(task)'
             /\ (\A i \in DOMAIN requestQ : Own(task) \cap Own(requestQ[i]) = {})'
  <2>1. Due(task) /\ \A i \in DOMAIN requestQ : Own(task) \cap Own(requestQ[i]) = {}
    BY <1>7 DEF OnceInv
  <2>2. \A i \in DOMAIN requestQ' : Own(task) \cap Own(requestQ'[i]) = {}
    BY <1>2, <2>1
  <2>3. \A m \in Own(task) : runs'[m] = 0 /\ dag'.state[m] \in Handled
    BY <1>1, <1>4, <1>5, <2>1 DEF Due, Own
  <2> QED  BY <1>1, <1>4, <2>2, <2>3 DEF Due, Own, Targets
<1> QED  BY <1>1, <1>5, <1>6, <1>7 DEF OnceInv, Targets

LEMMA OnceStep ==
  ASSUME Types, Entered, OnceInv, [Next]_vars
  PROVE  OnceInv'
<1>1. Later(project, dag, dag')
  BY StepOnward DEF Onward
<1>2. CASE Examine
  BY <1>1, <1>2, ExamineWalk, OnceHanded, OnceKept DEF pool, ended
<1>3. CASE ScanRaises
  BY <1>3, ScanRaisesWalk, OnceHanded DEF pool, ended
<1>4. CASE \/ TakeCandidate \/ SkipHandled \/ NoTaskLeft \/ PrepareFails \/ SkipCurrent
           \/ ConcludeSerially \/ GetResult \/ PostSentinels \/ Cleanup
  <2>1. /\ UNCHANGED <<project, options, runs, requestQ>>
        /\ pc' = "prepare" => UNCHANGED <<pc, task, raised>>
    BY <1>4 DEF TakeCandidate, SkipHandled, NoTaskLeft, PrepareFails, SkipCurrent, ConcludeSerially,
                GetResult, PostSentinels, Cleanup, pool, ended
  <2> QED  BY <1>1, <2>1, OnceKept
<1>5. CASE Signal \/ UNCHANGED vars
  BY <1>1, <1>5, OnceKept DEF Signal, vars, walk, pool, ended
<1>6. ASSUME NEW w \in Worker, Deliver(w) \/ Quit(w)
      PROVE  OnceInv'
  <2>1. UNCHANGED <<project, options, runs, requestQ, pc, task, raised>>
    BY <1>6 DEF Deliver, Quit, walk, ended
  <2> QED  BY <1>1, <2>1, OnceKept
<1> QED  BY <1>2, <1>3, <1>4, <1>5, <1>6, OnceDispatch, OnceSerially, OnceTaken
         DEF Next, MainStep, WorkerStep, Over

\* No action is run twice in one build, whatever fails and whoever stops it.
THEOREM OnlyOnce == Spec => []AtMostOnce
<1>1. Init => OnceInv
  <2> SUFFICES ASSUME Init PROVE OnceInv
    OBVIOUS
  <2>1. /\ runs = [n \in Node |-> 0] /\ requestQ = <<>> /\ pc = "next" /\ Types
    BY InitWalk DEF Init
  <2>2. \A n \in project.builder : n \in Node /\ Targets(project, n) \subseteq Node
    BY <2>1, ProjectSane, TargetsAreNodes DEF Sane
  <2> QED  BY <2>1, <2>2 DEF OnceInv
<1>2. Types /\ Entered /\ OnceInv /\ [Next]_vars => OnceInv'
  BY OnceStep
<1>3. OnceInv => AtMostOnce
  BY DEF OnceInv, AtMostOnce
<1> QED  BY <1>1, <1>2, <1>3, WalkTypes, PTL DEF Spec
==============================================================================

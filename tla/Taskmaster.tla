----------------------------- MODULE Taskmaster -----------------------------
(***************************************************************************)
(* The walk over the dependency graph that decides what SCons builds next  *)
(* (SCons/Taskmaster.py with the Node and Executor methods it calls), as   *)
(* operators: each takes the project and the walk's state and returns the  *)
(* state after one call.  BuildJobs.tla turns them into steps.             *)
(*                                                                         *)
(* A project p is what the SConstruct file and the disk say:               *)
(*   targets[n]      all targets of n's executor (<<n>> for a plain node)  *)
(*   sources[n]      its explicit dependencies                             *)
(*   prereqs[n]      its order-only prerequisites                          *)
(*   includes[n]     the files the content of n includes, once n is up to  *)
(*                   date; before[n] is what the old file on disk includes *)
(*   effects[n]      its side effects                                      *)
(*   builder         the nodes that have a builder                         *)
(*   missing         the files that neither exist nor can be built         *)
(*   top             the requested targets                                 *)
(* The walk's state d has a field per attribute of the nodes (state, ref,  *)
(* wp, wse, implicit) and of the Taskmaster (cand, topLeft, currentTop,    *)
(* pending, stopped).                                                      *)
(***************************************************************************)
EXTENDS Integers, Sequences, FiniteSets, SequencesExt, FiniteSetsExt

CONSTANTS Node, NoNode, NotScanned

ASSUME NodesFinite == IsFiniteSet(Node)

\* Node.__init__.py orders the states; these are the ones up to EXECUTING
\* and the ones after PENDING.
NodeState == {"no_state", "pending", "executing", "up_to_date", "executed", "failed"}
Unready   == {"no_state", "pending", "executing"}
\* Mutation: a node that is being built is looked at again.
HandledDone == {"up_to_date", "executed", "failed"}
Handled   == NodeState \ {"no_state", "pending"}
Finished  == {"up_to_date", "executed"}

\* Everything reachable from S along the edges of succ, S included.
Closure(succ, S) ==
    LET reach[k \in 0..Cardinality(Node)] ==
            IF k = 0 THEN S
            ELSE LET near == reach[k - 1] IN near \cup UNION {succ[n] : n \in near}
    IN  reach[Cardinality(Node)]

Targets(p, n) == ToSet(p.targets[n])
Sources(p, n) == UNION {ToSet(p.sources[t]) : t \in Targets(p, n)}
Effects(p, T) == UNION {p.effects[t] : t \in T}
Derived(p)    == p.builder \cup Effects(p, Node)

\* A null executor, the one of a node without a builder, has no action.
ActionTargets(p, n) == IF n \in p.builder THEN Targets(p, n) ELSE {}

NewWalk(p) ==
    [state   |-> [n \in Node |-> "no_state"], ref      |-> [n \in Node |-> 0],
     wp      |-> [n \in Node |-> {}],         wse      |-> [n \in Node |-> {}],
     cand    |-> <<>>,                        implicit |-> [n \in Node |-> NotScanned],
     topLeft |-> Reverse(p.top),              currentTop |-> NoNode,
     pending |-> {},                          stopped  |-> FALSE]

----------------------------------------------------------------------------
(* Choosing the next node: find_next_candidate, no_next_candidate.         *)

HasCandidate(d) == d.cand # <<>> \/ d.topLeft # <<>>
Candidate(d)    == IF d.cand # <<>> THEN Last(d.cand) ELSE Last(d.topLeft)

WithoutCandidate(d) ==
    IF d.cand # <<>>
    THEN [d EXCEPT !.cand = Front(d.cand)]
    ELSE [d EXCEPT !.topLeft = Front(d.topLeft), !.currentTop = Last(d.topLeft)]

\* will_not_build: the nodes, and everything that waits for them, leave the
\* waiting lists and pending_children; failed says whether they are marked.
WillNotBuild(d, nodes, failed) ==
    LET gone == Closure(d.wp, nodes)
    IN  [d EXCEPT
          !.state   = [n \in Node |-> IF failed /\ n \in gone THEN "failed" ELSE @[n]],
          !.ref     = [n \in Node |-> @[n] - Cardinality({c \in gone : n \in d.wp[c]})],
          !.wp      = [n \in Node |-> IF n \in gone THEN {} ELSE @[n]],
          !.pending = @ \ gone]

Drained(d) == [WillNotBuild(d, ToSet(d.cand), FALSE) EXCEPT !.cand = <<>>]
Stopped(d) == [d EXCEPT !.stopped = TRUE]

----------------------------------------------------------------------------
(* Looking at a node: the body of the loop of _find_next_ready_node.       *)

Visited(d, n) == [d EXCEPT !.state[n] = IF @ = "no_state" THEN "pending" ELSE @]

\* What a scan of file f finds.  A file being written (f in fresh or not)
\* may show either content.
Shows(p, d, fresh, f) ==
    IF f \notin p.builder \/ d.state[f] \in Finished \/ f \in fresh
    THEN p.includes[f] ELSE p.before[f]

Writing(p, d) == {f \in p.builder : d.state[f] = "executing"}

Found(p, d, fresh, n) ==
    LET shown == [f \in Node |-> Shows(p, d, fresh, f)]
    IN  Closure(shown, UNION {shown[s] : s \in Sources(p, n)})

\* Executor.get_all_children: a target that was not scanned yet, or was
\* reset, scans for all targets of its executor.
Scanned(p, d, fresh, n) ==
    LET T == Targets(p, n) \cap p.builder
        found == IF n \in p.builder THEN Found(p, d, fresh, n) ELSE {}
        again == \E t \in T : d.implicit[t] = NotScanned
    IN  [d EXCEPT !.implicit = [t \in Node |->
            CASE t \in T /\ again ->
                    IF @[t] = NotScanned THEN found ELSE @[t] \cup found
              [] t = n /\ T = {} -> {}
              [] OTHER -> @[t]]]

Children(p, d, n) ==
    Node \cap (Sources(p, n) \cup (UNION {ToSet(p.prereqs[t]) : t \in ActionTargets(p, n)})
                 \cup UNION {d.implicit[t] : t \in Targets(p, n)})

\* The children that were never looked at go on the stack, in any order:
\* the order is the SConstruct's, or a random one with --random.
PushOrders(d, kids) == SetToSeqs({c \in kids : d.state[c] = "no_state"})
Push(d, order)      == [d EXCEPT !.cand = @ \o order]

\* Mutation: a failed child does not count.
ChildFailedNever(d, kids) == FALSE
ChildFailed(d, kids) == \E c \in kids : d.state[c] = "failed"
NotReady(d, kids)    == {c \in kids : d.state[c] \in Unready}

GiveUp(p, d, n) ==
    [d EXCEPT !.state = [t \in Node |-> IF t \in ActionTargets(p, n) THEN "failed" ELSE @[t]]]

\* Mutation: the children found pending are not remembered.
WaitForTrusting(d, n, kids) ==
    LET slow == NotReady(d, kids)
    IN  [d EXCEPT !.ref[n] = @ + Cardinality({c \in slow : n \notin d.wp[c]}),
                  !.wp = [c \in Node |-> IF c \in slow THEN @[c] \cup {n} ELSE @[c]]]

\* The node waits for its unready children; those found pending are
\* remembered, they may close a cycle.
WaitFor(d, n, kids) ==
    LET slow == NotReady(d, kids)
    IN  [d EXCEPT
          !.ref[n]  = @ + Cardinality({c \in slow : n \notin d.wp[c]}),
          !.wp      = [c \in Node |-> IF c \in slow THEN @[c] \cup {n} ELSE @[c]],
          !.pending = @ \cup {c \in kids : d.state[c] = "pending"}]

\* Mutation: side effects in use are not looked at.
BusyEffectsNone(p, d, n) == {}

BusyEffects(p, d, n) ==
    {s \in Effects(p, ActionTargets(p, n)) : d.state[s] = "executing"}
WaitForEffects(p, d, n) ==
    [d EXCEPT !.wse = [s \in Node |->
        IF s \in BusyEffects(p, d, n) THEN @[s] \cup {n} ELSE @[s]]]

----------------------------------------------------------------------------
(* The methods of a Task, for the targets T of an executor.                *)

Marked(p, d, T) ==
    [d EXCEPT !.state = [n \in Node |-> IF n \in T \cup Effects(p, T) THEN "executing" ELSE @[n]]]
UpToDate(d, T) ==
    [d EXCEPT !.state = [n \in Node |-> IF n \in T THEN "up_to_date" ELSE @[n]]]

Released(p, d, T) ==
    LET done == {t \in T : d.state[t] = "executing"}
    IN  [d EXCEPT !.state = [n \in Node |->
            CASE n \in done -> "executed"
              [] n \in Effects(p, done) \ done -> "no_state"
              [] OTHER -> @[n]]]

\* Mutation: built does not reset the implicit dependencies of the parents.
ExecutedNoRescan(p, d, T) == Released(p, d, T)

\* executed_with_callbacks: built() makes the parents that wait for an
\* executed target scan again.
Executed(p, d, T) ==
    LET done == {t \in T : d.state[t] = "executing"}
    IN  [Released(p, d, T) EXCEPT !.implicit = [n \in Node |->
            IF \E t \in done : n \in d.wp[t] THEN NotScanned ELSE @[n]]]

\* Mutation: the nodes that wait for a side effect are not put back.
PostprocessedNoEffects(p, d, T) ==
    LET ref   == [n \in Node |-> d.ref[n] - Cardinality({c \in T : n \in d.wp[c]})]
        freed == {n \in UNION {d.wp[c] : c \in T} : ref[n] = 0}
    IN  {[d EXCEPT !.ref = ref, !.wp = [n \in Node |-> IF n \in T THEN {} ELSE @[n]],
                   !.pending = @ \ {t \in T : d.wp[t] # {}}, !.cand = @ \o order] :
         order \in SetToSeqs(freed)}

\* postprocess: the state afterwards for each order in which the nodes that
\* became free may be put back on the stack (sets and dictionaries decide).
Postprocessed(p, d, T) ==
    LET held    == {s \in Effects(p, T) : d.state[s] = "executing"}
        counted == T \cup held
        ref     == [n \in Node |-> d.ref[n] - Cardinality({c \in counted : n \in d.wp[c]})]
        queued  == {n \in UNION {d.wse[s] : s \in Effects(p, T)} : d.ref[n] = 0}
        freed   == {n \in UNION {d.wp[c] : c \in counted} : ref[n] = 0}
        orders  == {both[1] \o both[2] : both \in SetToSeqs(queued) \X SetToSeqs(freed)}
    IN  {[d EXCEPT
           !.state   = [n \in Node |-> IF n \in held THEN "no_state" ELSE @[n]],
           !.ref     = ref,
           !.wp      = [n \in Node |-> IF n \in T THEN {} ELSE @[n]],
           !.pending = @ \ {t \in T : d.wp[t] # {}},
           !.cand    = @ \o order] : order \in orders}

----------------------------------------------------------------------------
(* cleanup: what is left in pending_children at the end of the build.      *)

OnCycle(d, n)    == n \in Closure(d.wp, d.wp[n])
Cycles(d)        == {n \in d.pending : OnCycle(d, n) \/ d.state[n] # "executed"}
=============================================================================

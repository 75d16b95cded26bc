---------------------------- MODULE MCBuildJobs -----------------------------
(* Small projects and command lines for BuildJobs.                         *)
EXTENDS BuildJobs, TLC

\* A project from what differs from "six plain files".  Nodes are numbers.
Plain(x) == [n \in Node |-> x]
With(f, x) == [n \in Node |-> IF n \in DOMAIN f THEN f[n] ELSE x]
Project(top, sources) ==
    [targets |-> [n \in Node |-> <<n>>], sources |-> With(sources, <<>>),
     prereqs |-> Plain(<<>>), includes |-> Plain({}), before |-> Plain({}),
     effects |-> Plain({}), builder |-> DOMAIN sources, missing |-> {}, top |-> top]

\* SideEffect makes the targets the sources of the file they write on the side.
Writes(p, f) ==
    [p EXCEPT !.effects = With(f, {}),
              !.sources = [n \in Node |->
                  IF \E m \in DOMAIN f : n \in f[m]
                  THEN SetToSeq({m \in DOMAIN f : n \in f[m]}) ELSE @[n]]]

\* Two objects from one generated file, linked.
Diamond == Project(<<1>>, 1 :> <<2, 3>> @@ 2 :> <<4>> @@ 3 :> <<4>> @@ 4 :> <<5>>)

\* 2 is generated and turns out to include 3, which is generated as well and
\* includes 4.
Headers == [Project(<<1>>, 1 :> <<2>> @@ 2 :> <<5>> @@ 3 :> <<5>> @@ 4 :> <<>>) EXCEPT
              !.includes = With(2 :> {3} @@ 3 :> {4}, {})]

\* One action makes 2 and 3; 1 needs 2, 4 needs 3, both are asked for.
Pair == [Project(<<1, 4>>, 1 :> <<2>> @@ 4 :> <<3>> @@ 2 :> <<5>> @@ 3 :> <<5>>) EXCEPT
           !.targets = [n \in Node |-> IF n \in {2, 3} THEN <<2, 3>> ELSE <<n>>]]

\* 2, 3 and 4 write the same file on the side.
SideEffect == Writes(Project(<<1>>, 1 :> <<2, 3, 4>> @@ 2 :> <<>> @@ 3 :> <<>> @@ 4 :> <<2>>),
                     2 :> {6} @@ 3 :> {6} @@ 4 :> {6})

\* A cycle below the first of two targets.
Loop == Project(<<1, 5>>, 1 :> <<2, 4>> @@ 2 :> <<3>> @@ 3 :> <<2>> @@ 4 :> <<>> @@ 5 :> <<4>>)

\* A source that does not exist, a target that does not exist, an order-only
\* prerequisite.
Incomplete == [Project(<<1, 6>>, 1 :> <<2, 3>> @@ 2 :> <<5>> @@ 3 :> <<>>) EXCEPT
                 !.missing = {5, 6}, !.prereqs = With(3 :> <<2>>, <<>>)]

AllProjects == {Diamond, Headers, Pair, SideEffect, Loop, Incomplete}

Options(kind, onFailure, num, raising, signal) ==
    [class |-> kind, policy |-> onFailure, jobs |-> num, faults |-> raising, exits |-> {},
     signals |-> signal]
Exiting(S, o) == [o EXCEPT !.exits = S]

\* Every policy with failing actions and a signal, or with failing scans and
\* preparations; -q and -c with and without failing scans.  (What may fail
\* need not fail: the runs without failures are among these.)  Failures may exit
\* with 3, or with 0 or 1 and so look like something else.
Policies == {"stop", "keep_going", "ignore"}
BuildOptions ==
    {Exiting({3}, Options("build", p, j, {"execute"}, TRUE)) : p \in Policies, j \in 1..2}
      \cup {Exiting({0, 1}, Options("build", "keep_going", j, {"execute"}, TRUE)) : j \in 1..2}
      \cup {Exiting(IF j = 1 THEN {3} ELSE {0, 1}, Options("build", p, j, {"scan", "ready", "prepare"}, FALSE)) :
               p \in Policies, j \in 1..2}
      \cup {Options(c, "stop", j, f, TRUE) : c \in {"question", "clean"}, j \in 1..2, f \in {{}, {"scan"}}}

\* For liveness: the projects in which somebody waits for a file that another
\* task holds, and the options that cut a run short.
LiveProjects == {SideEffect, Pair, Loop}
LiveOptions ==
    {Options("build", p, 2, {"execute"}, FALSE) : p \in {"stop", "keep_going"}}
      \cup {Options("question", "stop", 2, {}, TRUE), Options("build", "stop", 1, {"ready"}, TRUE)}

\* 1 uses the file that 2 writes on the side: SideEffect(5, 2) and
\* Depends(1, 5) in an SConstruct.
UsedEffect == {Writes(Project(<<1>>, 1 :> <<2, 5>> @@ 2 :> <<3>>), 2 :> {5})}
Parallel   == {Options("build", "stop", 2, {}, FALSE)}

\* What the instances of the runs leave out, since it fails (see the README):
\* with -k, files that lose an include when they are made anew.  The old
\* content of 4 includes 5, the new one does not: KeepsGoing is violated.
LostInclude == {[Project(<<1>>, 1 :> <<2, 3>> @@ 2 :> <<4>> @@ 3 :> <<2>> @@ 4 :> <<>> @@ 5 :> <<>>)
                   EXCEPT !.before = With(4 :> {5}, {})]}
GoingOn     == {Options("build", "keep_going", 2, {"execute"}, FALSE)}

\* A generated header, 4, whose old content includes 5, which is made from 1;
\* 1 is made from 3, which includes 4.  Nothing needs itself, but the walk finds
\* a cycle: CyclesReported and NothingLeftOut are violated.
OldLoop        == {[Project(<<1>>, 1 :> <<3>> @@ 4 :> <<>> @@ 5 :> <<1>>)
                      EXCEPT !.includes = With(3 :> {4}, {}), !.before = With(3 :> {4} @@ 4 :> {5}, {})]}
OldLoopOptions == {Options("build", "stop", 1, {}, FALSE)}

\* With -k, files written on the side that others include.  2, 3 and 4 all
\* write 6, and 3 waits for 5, which fails: 3 and the waiting 6 are given up
\* while 2 still writes 6, and 4 starts.  EffectsExclusive is violated (with
\* GoingOn and three workers).
SharedLog == {Writes(Project(<<1>>, 1 :> <<2, 3, 4, 6>> @@ 2 :> <<>> @@ 3 :> <<5>> @@ 4 :> <<>> @@ 5 :> <<>>),
                     2 :> {6} @@ 3 :> {6} @@ 4 :> {6})}

\* And DependenciesFirst is violated here.  One action makes 1 and 2, another 3
\* and 4.  9 includes 4; 5 turns out to include 6, and 4 to include 11; the old
\* content of 6 includes 7.
Twins == {[Project(<<3, 10, 1, 2>>,
                   1 :> <<9>> @@ 2 :> <<9>> @@ 3 :> <<5, 8>> @@ 4 :> <<5, 8>> @@ 10 :> <<8>>
                     @@ [n \in {5, 6, 7, 8, 9, 11} |-> <<>>])
             EXCEPT !.targets = [n \in Node |-> CASE n \in {1, 2} -> <<1, 2>>
                                                  [] n \in {3, 4} -> <<3, 4>>
                                                  [] OTHER -> <<n>>],
                    !.includes = With(9 :> {4} @@ 5 :> {6} @@ 4 :> {11}, {}),
                    !.before = With(9 :> {4} @@ 6 :> {7}, {})]}
=============================================================================

----------------------------- MODULE BuildJobs ------------------------------
(***************************************************************************)
(* One run of SCons: the jobs of SCons/Job.py (Serial, Parallel with its   *)
(* ThreadPool of Workers) taking tasks from the Taskmaster, the three kinds*)
(* of task of SCons/Script/Main.py (build, question -q, clean -c), and the *)
(* signal handler.  The main thread is pc, the worker threads are worker.  *)
(*                                                                         *)
(* The project and the options are chosen in the initial state.  options:  *)
(*   class    "build", "question" (-q) or "clean" (-c)                     *)
(*   policy   what a failure does: "stop", "keep_going" (-k), "ignore" (-i)*)
(*   jobs     1: Serial; more: Parallel with that many workers             *)
(*   faults   which calls may raise: "scan", "ready", "prepare", "execute" *)
(*   exits    the statuses, as the system reports them, with which an      *)
(*            action or a scanner that fails may end by sys.exit()         *)
(*   signals  whether SIGINT, SIGTERM or SIGHUP may arrive                 *)
(***************************************************************************)
EXTENDS Taskmaster

CONSTANTS Worker,      \* the threads a Parallel job may start
          Projects,    \* the projects looked at
          OptionSets,  \* the command lines looked at
          NoTask

ASSUME WorkersFinite == IsFiniteSet(Worker)
ASSUME OptionAssumption ==
    \A o \in OptionSets : /\ o.jobs \in Nat \ {0} /\ o.class \in {"build", "question", "clean"}
                          /\ o.policy \in {"stop", "keep_going", "ignore"} /\ o.exits \subseteq 0..255
ASSUME TaskNode      == NoTask \notin Node
\* The targets of an executor share it, and have a builder or not; SideEffect
\* refuses a side effect that has one.
ASSUME ProjectAssumption ==
    \A p \in Projects :
        /\ p \in [targets  : [Node -> Seq(Node)],    sources : [Node -> Seq(Node)],
                  prereqs  : [Node -> Seq(Node)],    top     : Seq(Node),
                  includes : [Node -> SUBSET Node],  before  : [Node -> SUBSET Node],
                  effects  : [Node -> SUBSET Node],  builder : SUBSET Node, missing : SUBSET Node]
        /\ \A n \in Node : /\ n \in Targets(p, n) /\ p.effects[n] \cap p.builder = {}
                          /\ \A t \in Targets(p, n) : p.targets[t] = p.targets[n]
        /\ \A n \in p.builder : Targets(p, n) \subseteq p.builder

\* ... and makes the targets sources of their side effects.
ASSUME EffectAssumption ==
    \A p \in Projects : \A n \in Node : \A s \in p.effects[n] : n \in Sources(p, s)

VARIABLES project, options, dag,
          pc,          \* where the main thread is
          task,        \* the node of its current task, or NoTask
          raised,      \* whether an exception is recorded in that task
          jobs,        \* Parallel.start's count of dispatched tasks
          requestQ, sentinels, resultsQ,   \* the queues of the ThreadPool
          worker,      \* per worker: idle, quit, or the task it runs
          interrupted, status,
          cycle,       \* cleanup raised "Found dependency cycle(s)"
          runs,        \* how often the action of a node was started
          broken       \* nodes whose task failed

walk  == <<dag, pc, task, raised>>
pool  == <<jobs, requestQ, sentinels, resultsQ, worker>>
ended == <<interrupted, status, cycle, runs, broken>>
vars  == <<project, options, walk, pool, ended>>

Serial == options.jobs = 1
Pool   == {w \in Worker : worker[w].does # "none"}
Idle   == [does |-> "idle", node |-> NoTask, doomed |-> FALSE]
Run(n, doomed) == [does |-> "run", node |-> n, doomed |-> doomed]

Init ==
    /\ project \in Projects /\ options \in OptionSets
    /\ dag = NewWalk(project) /\ pc = "next" /\ task = NoTask /\ raised = FALSE
    /\ jobs = 0 /\ requestQ = <<>> /\ sentinels = 0 /\ resultsQ = <<>>
    /\ \E S \in SUBSET Worker :
          /\ Cardinality(S) = IF options.jobs = 1 THEN 0 ELSE options.jobs
          /\ worker = [w \in Worker |-> IF w \in S THEN Idle ELSE [Idle EXCEPT !.does = "none"]]
    /\ interrupted = FALSE /\ status = 0 /\ cycle = FALSE
    /\ runs = [n \in Node |-> 0] /\ broken = {}

----------------------------------------------------------------------------
(* next_task: one look at one candidate at a time, because the signal      *)
(* handler and a worker with -q may stop the walk between two of them, and *)
(* between taking a candidate and looking at it.                           *)

\* make_ready: clean marks everything; build and question mark the targets
\* of a task one of whose targets is out of date.  A target whose old file
\* includes other files than its new one cannot be current.
Outdated(p, n) == n \in p.builder /\ p.includes[n] # p.before[n]
Ready(p, d, n) ==
    LET T       == Targets(p, n)
        clean   == options.class = "clean"
        current == ~clean /\ \A t \in T : ~Outdated(p, t)
        stale   == clean \/ T \cap p.builder # {}
    IN  {e \in {UpToDate(d, T), Marked(p, d, T)} :
            \/ current /\ e = UpToDate(d, T)
            \/ stale   /\ e = Marked(p, d, T)}

\* make_ready raised: whether the target is current is not known.
CannotTell == "ready" \in options.faults /\ options.class # "clean"

\* What a scan may find on the disk: with -c a finished file is gone, with -q
\* nothing is written.
OnDisk == IF options.class # "clean" THEN project
          ELSE [project EXCEPT !.includes = [f \in Node |-> IF f \in project.builder THEN {} ELSE @[f]]]
BeingWritten(d) == IF options.class = "build" THEN Writing(project, d) ELSE {}

\* Mutation: stop() is not noticed.
TakeCandidateAlways ==
    /\ pc = "next" /\ HasCandidate(dag) /\ pc' = "look"
    /\ UNCHANGED <<project, options, dag, task, raised, pool, ended>>

\* next_candidate: a stop() that comes later is noticed in the next turn.  The
\* candidate leaves the stack, which only this thread uses, when it is looked at.
TakeCandidate ==
    /\ pc = "next" /\ ~dag.stopped /\ HasCandidate(dag) /\ pc' = "look"
    /\ UNCHANGED <<project, options, dag, task, raised, pool, ended>>

Candidates == pc = "look" /\ HasCandidate(dag)

SkipHandled ==
    /\ Candidates /\ dag.state[Candidate(dag)] \in Handled
    /\ dag' = WithoutCandidate(dag) /\ pc' = "next"
    /\ UNCHANGED <<project, options, task, raised, pool, ended>>

\* next_task hands a task for n to the job, with or without an exception.
Hand(n, d, exc) ==
    /\ dag' = d /\ pc' = "prepare" /\ task' = n /\ raised' = exc
    /\ UNCHANGED <<project, options, pool, ended>>

Examine ==
    /\ Candidates /\ dag.state[Candidate(dag)] \notin Handled
    /\ LET n  == Candidate(dag)
           d0 == Visited(WithoutCandidate(dag), n)
       IN  \E fresh \in SUBSET BeingWritten(d0) :
             LET d1   == Scanned(OnDisk, d0, fresh, n)
                 kids == Children(project, d1, n)
             IN  \E order \in PushOrders(d1, kids) :
                   LET d2 == Push(d1, order)
                   IN  \/ /\ ChildFailed(d1, kids)
                          /\ dag' = GiveUp(project, d2, n) /\ pc' = "next"
                          /\ UNCHANGED <<project, options, task, raised, pool, ended>>
                       \/ /\ ~ChildFailed(d1, kids) /\ NotReady(d1, kids) # {}
                          /\ dag' = [WaitFor(d1, n, kids) EXCEPT !.cand = d2.cand] /\ pc' = "next"
                          /\ UNCHANGED <<project, options, task, raised, pool, ended>>
                       \/ /\ ~ChildFailed(d1, kids) /\ NotReady(d1, kids) = {}
                          /\ BusyEffects(project, d1, n) # {}
                          /\ dag' = WaitForEffects(project, d1, n) /\ pc' = "next"
                          /\ UNCHANGED <<project, options, task, raised, pool, ended>>
                       \/ /\ ~ChildFailed(d1, kids) /\ NotReady(d1, kids) = {}
                          /\ BusyEffects(project, d1, n) = {}
                          /\ \/ \E d \in Ready(project, d1, n) : Hand(n, d, FALSE)
                             \/ CannotTell /\ n \in project.builder /\ Hand(n, d1, TRUE)

\* The scanner or get_all_children raised: the task is made all the same,
\* its children were not looked at.
ScanRaises ==
    /\ Candidates /\ "scan" \in options.faults
    /\ LET n == Candidate(dag)
           d == Visited(WithoutCandidate(dag), n)
       IN  /\ dag.state[n] \notin Handled /\ n \in project.builder
           /\ \E e \in Ready(project, d, n) \cup {f \in {d} : CannotTell} : Hand(n, e, TRUE)

\* Mutation: Parallel.start ends the loop as soon as there is no task.
NoTaskLeftAtOnce ==
    /\ pc = "next" /\ (dag.stopped \/ ~HasCandidate(dag))
    /\ dag' = IF dag.stopped THEN Drained(dag) ELSE dag
    /\ pc' = IF Serial THEN "cleanup" ELSE "join"
    /\ task' = NoTask /\ raised' = FALSE
    /\ UNCHANGED <<project, options, pool, ended>>

\* next_task returned None: nothing left, or the walk was stopped.
NoTaskLeft ==
    /\ pc = "next" /\ (dag.stopped \/ ~HasCandidate(dag))
    /\ dag' = IF dag.stopped THEN Drained(dag) ELSE dag
    /\ pc' = CASE Serial -> "cleanup" [] jobs > 0 -> "wait" [] OTHER -> "join"
    /\ task' = NoTask /\ raised' = FALSE
    /\ UNCHANGED <<project, options, pool, ended>>

----------------------------------------------------------------------------
(* The end of a task: executed() or failed(), and postprocess().           *)

Policy == IF options.class = "build" THEN options.policy ELSE "stop"

\* A failure may be an exit() of the SConstruct's code if it comes from a scan or
\* an action; after an interrupt Job.py puts an exception of its own in its
\* place, but not for what Parallel could not prepare.  (An exit() elsewhere in
\* the preparation is like any other exception.)
OwnExit == \/ pc = "prepare" /\ raised /\ "scan" \in options.faults /\ ~(Serial /\ interrupted)
           \/ pc = "failed" /\ ~interrupted
           \/ pc = "wait" /\ ~Head(resultsQ).ok /\ ~interrupted

\* convert_to_BuildError: an exit() keeps its status, which may be 0; for all
\* else it is 2.
ExitStatus == {2} \cup (IF OwnExit THEN options.exits ELSE {})

\* Mutation: the exit status is set only when the build is stopped.
FailQuietly(n) ==
    LET T      == Targets(project, n)
        marked == WillNotBuild(dag, T, TRUE)
        after  == CASE Policy = "ignore"     -> Executed(project, dag, T)
                    [] Policy = "keep_going" -> marked
                    [] Policy = "stop"       -> Stopped(marked)
    IN  /\ dag' \in Postprocessed(project, after,
                        IF Policy = "stop" THEN {dag.currentTop} ELSE T)
        /\ status' \in IF options.class = "build" /\ Policy = "stop" THEN ExitStatus ELSE {status}
        /\ broken' = IF Policy = "ignore" THEN broken ELSE broken \cup T

\* do_failed: fail_stop leaves the requested target to postprocess; -i goes on
\* as if the task had been executed.  The last failure decides the exit status.
Fail(n) ==
    LET T      == Targets(project, n)
        marked == WillNotBuild(dag, T, TRUE)
        after  == CASE Policy = "ignore"     -> Executed(project, dag, T)
                    [] Policy = "keep_going" -> marked
                    [] Policy = "stop"       -> Stopped(marked)
    IN  /\ dag' \in Postprocessed(project, after,
                        IF Policy = "stop" THEN {dag.currentTop} ELSE T)
        /\ status' \in IF options.class = "build" /\ Policy # "ignore" THEN ExitStatus ELSE {status}
        /\ broken' = IF Policy = "ignore" THEN broken ELSE broken \cup T

Absent(n) == n \in project.missing \ Derived(project)
Top       == ToSet(project.top)

\* BuildTask.executed: a requested file that neither exists nor can be built
\* fails.  clean and question leave out the callbacks.
Complete(n) ==
    IF options.class = "build" /\ n \in Top /\ Absent(n) THEN Fail(n)
    ELSE LET T     == Targets(project, n)
             after == CASE options.class = "build"    -> Executed(project, dag, T)
                        [] options.class = "clean"    -> Released(project, dag, T)
                        [] options.class = "question" -> dag
         IN  dag' \in Postprocessed(project, after, T) /\ UNCHANGED <<status, broken>>

----------------------------------------------------------------------------
(* Preparing a task in the main thread.                                    *)

\* Executor.prepare and Node.prepare: a source, dependency or include that
\* neither exists nor can be built.
Lacks(n) ==
    LET included == UNION ({dag.implicit[t] : t \in Targets(project, n)} \ {NotScanned})
    IN  n \in project.builder /\ \E c \in Sources(project, n) \cup included : Absent(c)

NeedsExecute == options.class # "build" \/ dag.state[Head(project.targets[task])] = "executing"

PrepareFails ==
    /\ pc = "prepare" /\ options.class = "build"
    /\ raised \/ Lacks(task) \/ ("prepare" \in options.faults /\ task \in project.builder)
    /\ Fail(task) /\ pc' = "next" /\ task' = NoTask /\ raised' = FALSE
    /\ UNCHANGED <<project, options, pool, interrupted, cycle, runs>>

Prepared == pc = "prepare" /\ (options.class = "build" => ~raised /\ ~Lacks(task))

SkipCurrent ==
    /\ Prepared /\ ~NeedsExecute
    /\ Complete(task) /\ pc' = "next" /\ task' = NoTask /\ raised' = FALSE
    /\ UNCHANGED <<project, options, pool, interrupted, cycle, runs>>

\* Mutation: one task more than there are workers.
DispatchOneMore ==
    /\ Prepared /\ NeedsExecute /\ ~Serial
    /\ requestQ' = Append(requestQ, task) /\ jobs' = jobs + 1
    /\ pc' = IF jobs' <= options.jobs THEN "next" ELSE "wait"
    /\ task' = NoTask /\ raised' = FALSE
    /\ UNCHANGED <<project, options, dag, sentinels, resultsQ, worker, ended>>

Dispatch ==
    /\ Prepared /\ NeedsExecute /\ ~Serial
    /\ requestQ' = Append(requestQ, task) /\ jobs' = jobs + 1
    /\ pc' = IF jobs' < options.jobs THEN "next" ELSE "wait"
    /\ task' = NoTask /\ raised' = FALSE
    /\ UNCHANGED <<project, options, dag, sentinels, resultsQ, worker, ended>>

----------------------------------------------------------------------------
(* Task.execute, in the main thread (Serial) or in a worker.               *)

MayFail == options.class = "build" /\ "execute" \in options.faults

\* The action of a build or clean task runs; -q only looks whether the
\* target is current and stops the walk if it is not.
NotCurrent(n) == dag.state[Head(project.targets[n])] # "up_to_date" \/ (n \in Top /\ Absent(n))
Execute(n) ==
    IF options.class = "question"
    THEN /\ dag'    = IF NotCurrent(n) THEN Stopped(dag) ELSE dag
         /\ status' = IF NotCurrent(n) THEN 1 ELSE status
         /\ UNCHANGED runs
    ELSE /\ runs' = [m \in Node |-> IF m \in Targets(project, n) THEN runs[m] + 1 ELSE runs[m]]
         /\ UNCHANGED <<dag, status>>

ExecuteSerially ==
    /\ Prepared /\ NeedsExecute /\ Serial
    /\ Execute(task) /\ pc' \in {"executed"} \cup (IF MayFail THEN {"failed"} ELSE {})
    /\ UNCHANGED <<project, options, task, raised, pool, interrupted, cycle, broken>>

ConcludeSerially ==
    /\ \/ pc = "executed" /\ Complete(task)
       \/ pc = "failed" /\ Fail(task)
    /\ pc' = "next" /\ task' = NoTask /\ raised' = FALSE
    /\ UNCHANGED <<project, options, pool, interrupted, cycle, runs>>

\* Worker.run: a task taken after the interrupt is not executed.
Take(w) ==
    /\ worker[w] = Idle /\ requestQ # <<>>
    /\ worker' = [worker EXCEPT ![w] = Run(Head(requestQ), interrupted)]
    /\ requestQ' = Tail(requestQ)
    /\ IF interrupted THEN UNCHANGED <<dag, status, runs>> ELSE Execute(Head(requestQ))
    /\ UNCHANGED <<project, options, pc, task, raised, jobs, sentinels, resultsQ,
                   interrupted, cycle, broken>>

Deliver(w) ==
    /\ worker[w].does = "run"
    /\ \E ok \in BOOLEAN :
          /\ IF worker[w].doomed THEN ~ok ELSE ok \/ MayFail
          /\ resultsQ' = Append(resultsQ, [node |-> worker[w].node, ok |-> ok])
    /\ worker' = [worker EXCEPT ![w] = Idle]
    /\ UNCHANGED <<project, options, walk, jobs, requestQ, sentinels, ended>>

Quit(w) ==
    /\ worker[w] = Idle /\ requestQ = <<>> /\ sentinels > 0
    /\ worker' = [worker EXCEPT ![w].does = "quit"] /\ sentinels' = sentinels - 1
    /\ UNCHANGED <<project, options, walk, jobs, requestQ, resultsQ, ended>>

\* Mutation: only a task that succeeded is counted as done.
GetResultCountsOk ==
    /\ pc = "wait" /\ resultsQ # <<>>
    /\ IF Head(resultsQ).ok THEN Complete(Head(resultsQ).node) ELSE Fail(Head(resultsQ).node)
    /\ jobs' = IF Head(resultsQ).ok THEN jobs - 1 ELSE jobs
    /\ resultsQ' = Tail(resultsQ)
    /\ pc' = IF Tail(resultsQ) = <<>> THEN "next" ELSE "wait"
    /\ UNCHANGED <<project, options, task, raised, requestQ, sentinels, worker,
                   interrupted, cycle, runs>>

\* Parallel.start handles all results that are there before it asks for the
\* next tasks.
GetResult ==
    /\ pc = "wait" /\ resultsQ # <<>>
    /\ IF Head(resultsQ).ok THEN Complete(Head(resultsQ).node) ELSE Fail(Head(resultsQ).node)
    /\ jobs' = jobs - 1 /\ resultsQ' = Tail(resultsQ)
    /\ pc' = IF Tail(resultsQ) = <<>> THEN "next" ELSE "wait"
    /\ UNCHANGED <<project, options, task, raised, requestQ, sentinels, worker,
                   interrupted, cycle, runs>>

----------------------------------------------------------------------------
(* The end of the run, and the signal handler.                             *)

\* Mutation: one None for all the workers.
PostOneSentinel ==
    /\ pc = "join" /\ pc' = "cleanup" /\ sentinels' = 1
    /\ UNCHANGED <<project, options, dag, task, raised, jobs, requestQ, resultsQ, worker, ended>>

\* ThreadPool.cleanup posts one None per worker; it waits for each of them
\* for a second at most, so the main thread may be faster.
PostSentinels ==
    /\ pc = "join" /\ pc' = "cleanup"
    /\ sentinels' = Cardinality(Pool)
    /\ UNCHANGED <<project, options, dag, task, raised, jobs, requestQ, resultsQ, worker, ended>>

Cleanup ==
    /\ pc = "cleanup" /\ pc' = "done"
    /\ cycle' = (Cycles(dag) # {})
    /\ status' = IF interrupted \/ cycle' THEN 2 ELSE status
    /\ UNCHANGED <<project, options, dag, task, raised, pool, interrupted, runs, broken>>

\* Python runs the handler between two steps of the main thread, not while
\* it is blocked in ThreadPool.get.
Signal ==
    /\ options.signals /\ ~interrupted /\ pc # "done"
    /\ pc = "wait" => resultsQ # <<>>
    /\ interrupted' = TRUE /\ dag' = Stopped(dag)
    /\ UNCHANGED <<project, options, pc, task, raised, pool, status, cycle, runs, broken>>

MainStep == \/ TakeCandidate \/ SkipHandled \/ Examine \/ ScanRaises \/ NoTaskLeft
            \/ PrepareFails \/ SkipCurrent \/ Dispatch
            \/ ExecuteSerially \/ ConcludeSerially \/ GetResult
            \/ PostSentinels \/ Cleanup
WorkerStep(w) == Take(w) \/ Deliver(w) \/ Quit(w)

\* The process has ended.
Over == pc = "done" /\ sentinels = 0 /\ UNCHANGED vars

Next == MainStep \/ (\E w \in Worker : WorkerStep(w)) \/ Signal \/ Over

Spec == Init /\ [][Next]_vars

\* The main thread and the workers keep running, every action comes to an
\* end: SCons has no time limit of its own.
FairSpec == Spec /\ WF_vars(MainStep) /\ \A w \in Worker : WF_vars(WorkerStep(w))

----------------------------------------------------------------------------
(* Properties.                                                             *)

Running  == {worker[w].node : w \in {v \in Worker : worker[v].does = "run"}}
InFlight == Running \cup ToSet(requestQ)
              \cup (IF pc \in {"executed", "failed"} THEN {task} ELSE {})

\* What the SConstruct says n depends on, and what n really depends on, with
\* the content its sources have in the end (-c only follows the SConstruct).
Declared(n) == Sources(project, n) \cup UNION {ToSet(project.prereqs[t]) : t \in Targets(project, n)}
Needs(n) ==
    Declared(n) \cup IF options.class = "clean" THEN {}
        ELSE Closure(project.includes, UNION {project.includes[s] : s \in Sources(project, n)})
Wanted == Closure([n \in Node |-> Needs(n)], Top)
Cyclic == \E n \in Wanted : n \in Closure([m \in Node |-> Needs(m)], Needs(n))

\* An exception raised while a node was looked at fails its task.  -c and -q
\* do not notice it and -i goes on, although its children may not have been
\* looked at: the properties of the walk are about the other runs.
Swallowing == (options.class # "build" \/ Policy = "ignore") /\ options.faults \cap {"scan", "ready"} # {}

TypeOK ==
    /\ project \in Projects /\ options \in OptionSets
    /\ DOMAIN dag = DOMAIN NewWalk(project)
    /\ dag.state \in [Node -> NodeState] /\ dag.ref \in [Node -> Int]
    /\ dag.wp \in [Node -> SUBSET Node] /\ dag.wse \in [Node -> SUBSET Node]
    /\ \A n \in Node : dag.implicit[n] \in (SUBSET Node) \cup {NotScanned}
    /\ dag.cand \in Seq(Node) /\ dag.topLeft \in Seq(Node) /\ dag.pending \in SUBSET Node
    /\ pc \in {"next", "look", "prepare", "executed", "failed", "wait", "join", "cleanup", "done"}
    /\ task \in Node \cup {NoTask} /\ (task # NoTask) = (pc \in {"prepare", "executed", "failed"})
    /\ jobs \in 0..options.jobs /\ sentinels \in Nat /\ requestQ \in Seq(Node)
    /\ status \in 0..2 \cup options.exits /\ {raised, interrupted, cycle} \subseteq BOOLEAN
    /\ runs \in [Node -> Nat] /\ broken \in SUBSET Node

\* The count of dispatched tasks is the number of tasks in the queues and in
\* the workers, so the main thread blocks in get() only if a result will
\* come.
JobsCounted ==
    /\ jobs = Len(requestQ) + Cardinality({w \in Worker : worker[w].does = "run"}) + Len(resultsQ)
    /\ pc = "wait" => jobs > 0

\* No action is run twice in one build.
AtMostOnce == \A n \in project.builder : runs[n] <= 1

\* Two actions with a common side effect never run at the same time.  (Not so
\* after a scan that raised: its task takes and gives back the side effects
\* without having waited for them.)
EffectsExclusive ==
    options.class # "question" /\ "scan" \notin options.faults => \A m, n \in InFlight :
        m = n \/ Effects(project, Targets(project, m)) \cap Effects(project, Targets(project, n)) = {}

\* A node the walk has begun with and not finished is not forgotten: it is on
\* the stack or the current task, or it counts the children it waits for and
\* each of them is attended to, or it waits for a side effect in use.
Held == UNION {Targets(project, n) : n \in InFlight \cup {r.node : r \in ToSet(resultsQ)}
                                             \cup ({task} \ {NoTask})}
Attended(c) == \/ dag.state[c] = "no_state" /\ c \in ToSet(dag.cand)
               \/ dag.state[c] = "pending"
               \/ dag.state[c] \in {"executing", "up_to_date"} /\ c \in Held
NobodyForgotten ==
    ~Swallowing /\ ~dag.stopped /\ broken = {} /\ ~cycle => \A n \in Node : dag.state[n] = "pending" =>
        LET children == {c \in Node : n \in dag.wp[c]}
        IN  \/ n \in ToSet(dag.cand) \cup {task}
            \/ /\ children # {} /\ dag.ref[n] = Cardinality(children)
               /\ \A c \in children : Attended(c)
            \/ \E s \in Node : n \in dag.wse[s] /\ dag.state[s] = "executing"

\* Without a failure, a signal or a cycle everything that was asked for is up
\* to date in the end, or cleaned.
NothingLeftOut ==
    /\ pc = "done" /\ ~interrupted /\ broken = {} /\ ~Cyclic
    /\ options.class # "question" /\ ~Swallowing
    => ~cycle /\ \A n \in Wanted : dag.state[n] \in Finished

\* With -k everything that does not depend on a failure is built, and nothing
\* that does.  What only a failed task would have used may be left alone.
KeepsGoing ==
    (pc = "done" /\ Policy = "keep_going" /\ ~interrupted /\ ~Cyclic) =>
        \A n \in Closure([m \in Node |-> IF m \in broken THEN {} ELSE Declared(m)], Top) :
            (dag.state[n] \in Finished) = (Closure([m \in Node |-> Needs(m)], {n}) \cap broken = {})

\* A cycle is reported if there is one and nothing stopped the walk before,
\* and never where there is none.
CyclesReported ==
    pc = "done" => /\ Cyclic /\ ~dag.stopped /\ broken = {} /\ ~Swallowing => cycle
                   /\ cycle => Cyclic \/ broken # {} \/ interrupted \/ Swallowing

\* The exit status: 0 only if every target that was asked for is up to date,
\* and 1 only if -q found one that is not, unless an action or a scanner may exit
\* with just that: SCons passes it on even if it is 0, and with -k also in the
\* place of an earlier failure's.  An interrupt or a cycle ends in 2 whatever
\* else has failed.
StatusTellsTruth ==
    pc = "done" =>
        /\ status = 0 /\ 0 \notin options.exits /\ options.class = "build" /\ Policy # "ignore"
             => broken = {} /\ ~interrupted /\ \A n \in Wanted : dag.state[n] \in Finished
        /\ status = 0 /\ options.class = "question" => \A n \in Top : dag.state[n] = "up_to_date" /\ ~Absent(n)
        /\ status = 1 => options.class = "question" \/ 1 \in options.exits
        /\ interrupted \/ cycle => status = 2

\* What the comment in _find_next_ready_node says of a node that waits: it is
\* put back on the list when everything it waits for has finished.
PutBackWhenFinished ==
    pc = "done" /\ ~dag.stopped /\ broken = {} /\ ~Cyclic =>
        ~ \E n \in Node : dag.state[n] = "pending" /\ dag.ref[n] > 0

\* A node is acted upon, or passed over as current, only after everything it
\* depends on, generated headers found by scanning again included.
Begun(d, n) == d.state[n] \in Finished \cup {"executing"}
DependenciesFirst ==
    [][~Swallowing => \A n \in project.builder :
         /\ Begun(dag', n) /\ ~Begun(dag, n)
         /\ options.class # "question" /\ ~raised'
         => \A c \in Needs(n) : dag.state[c] \in Finished]_vars

\* A stop is final: after it no further candidate is taken, and no task is begun
\* but that of the candidate the main thread had already taken.
StopMeansStop ==
    [][dag.stopped => /\ dag'.stopped
                      /\ pc' = "look" => pc = "look"
                      /\ \A n \in Node : dag'.state[n] = "executing" => dag.state[n] = "executing" \/ pc = "look"]_vars

\* Every run ends, and its workers with it.
BuildEnds == ~Swallowing => <>(pc = "done" /\ \A w \in Worker : worker[w].does \in {"none", "quit"})
=============================================================================

# A verification project for c'mon

c'mon (`src/`) is a Windows program in C++ and wxWidgets that watches telephone
lines.  Call monitors (plug-ins for the AVM Fritz!Box, for Windows TAPI, and a
dummy) report calls, the application keeps a journal of them in SQLite, shows a
window for each incoming call, and looks up the names of the parties in address
books and on web pages.

The repository also ships its build engine: SCons 2.2.0 in `tools/scons/`, which
every `build_*.cmd` starts with `python tools\scons\scons.py`.  It is most of the
Python in the tree.

This directory holds TLA+ modules for the parts of both programs where threads,
events, files and a database meet, TLC configurations that check them on small
instances, and TLAPS proofs of theorems about them.  `third_party/`, `setup/` and
`i18n/` are vendored or build material and are left aside.

## 1. The system

### Components

| Component | State | Operations | Threads |
|---|---|---|---|
| Call tracking, `gui/mainapp.cpp` | `m_ActiveCalls` (key to entry) | `newCall`, `callStatus`, `callInfo`, `resolverResponse` post events; `OnNewCall`, `OnCallStateUpdate`, `OnCallInfoUpdate`, `OnResolverResponse` handle them | posts from any thread, handlers on the GUI thread |
| Journal entry, `gui/journal/journalentry.cpp` | one call: key, dirty flag, state, result, begin, duration, addresses, names | setters, `setState` | GUI |
| Journal store, `gui/journal/journalmodel.cpp` | tables `calls`, `config` | `insertUpdateEntry`, `getEntry`, `purgeEntries`, filters and sorting | GUI |
| Resolver, `gui/resolver/` | request list, semaphore, resolver list and its mutex | asynchronous and synchronous `resolve`, list edits, `shutdown` | GUI and a worker |
| Fritz!Box monitor, `plugin_cp_fritz/` | flags, socket, line buffer, observers | `init`, `shutdown`, `monitor`, `handleFritzMessage`; the panel's button and refresh | GUI and a monitor thread |
| TAPI monitor, `plugin_cp_tapi/` | lines and calls | message loop, `OnTafEvent` | GUI and a monitor thread |
| Dummy monitor, `plugin_cp_dummy/` | two scripts | `Test`, `TestOutgoing` | GUI |
| Notifications, `gui/notification.cpp` | list of windows | `notify`, `killWnd`, animation | GUI |
| Plug-in loader, `gui/pluginloader.cpp` | proxies with a mutex each | register, unregister, `free` | any |
| Database back end, `gui/db/backend.cpp` | the SQLite session | open or create | GUI |
| Journal page, `gui/journalpage.cpp` | a copy of the displayed rows | delayed refresh, lookup from the context menu | GUI |
| Address books, `plugin_ab_sqlite/`, `plugin_ab_psql/` | contacts and phones in a database | insert, update, delete, `resolve` | GUI and worker |
| Contacts pages, CSV import, shared classes, log, main frame | | | GUI |

And of SCons, below `tools/scons/scons-local-2.2.0/SCons/`:

| Component | State | Operations | Threads |
|---|---|---|---|
| Taskmaster, `Taskmaster.py`, `Node/__init__.py`, `Executor.py` | per node state, `ref_count`, `waiting_parents`, `waiting_s_e`, `implicit`; candidates, `pending_children` | `next_task`, `make_ready`, `prepare`, the ends of a task, `postprocess`, `will_not_build`, `stop`, `cleanup` | main |
| Jobs, `Job.py` | number of jobs, request and result queue, workers | `Serial.start`, `Parallel.start`, `ThreadPool`, the signal handler | main and workers |
| Tasks, `Script/Main.py` | exit status | `BuildTask`, `CleanTask`, `QuestionTask`, `-k`, `-i` | main; `execute` in a worker |
| Up-to-date decision, `Node/FS.py`, `Node/__init__.py`, `Environment.py` | `NodeInfo`, `BuildInfo` | the deciders, `get_csig`, `get_max_drift_csig`, scans, `built`, `visited` | main and workers |
| `.sconsign`, `SConsign.py`, `dblite.py` | signatures and timestamps of the last runs | read, `store_info`, `merge`, `write` | main |
| `CacheDir.py` | files named by build signature, shared with other users | retrieve, push | workers, other processes |
| Builders, scanners, tools, configure contexts, options | tables and strings | | main |

### How they interact

A monitor calls its observers on its own thread; `CMainApp` turns each call into
an event for the GUI thread (`wxQueueEvent`), so events of one sender keep their
order and handlers never overlap.  A handler changes a journal entry, saves it,
and may queue a request for the resolver's worker; the worker's answer comes back
as an event of its own, carrying the *row id* of the entry and not the entry.  By
then the call may be over, or its call id may belong to another call.  At the end
`CleanUp` is to detach the monitors, stops the worker and destroys everything.

In SCons the main thread walks the graph: it looks at one candidate after the other,
puts the unready children in front of it, and makes a task of the first node whose
children are all done.  With `-jN` tasks go to the workers through one queue and come
back through another; the graph is changed by the main thread only, except that
`execute` runs in the worker, and with `-q` stops the walk from there.  The signal
handler stops it from anywhere in the main thread.  What a run has learned is merged into
`.sconsign` at its end, and the next run decides from that and the disk what to build.

### What is hard, and what makes each part correct

* Call tracking and journal: late answers, reused call ids, several calls at once,
  statements that fail, rows that are purged.  *A row tells the truth about the
  call it was made for; entries and rows stay matched; the dirty flag does not lie.*
* Resolver: two threads, a semaphore that must agree with a list, a list edited
  while it is walked, shutdown at any time.  *First in, first out; at most one
  answer; the user's order and the web restriction are respected; shutdown ends.*
* Fritz!Box monitor: flags without a lock, reconnection, a wait that may time
  out, a byte stream cut anywhere.  *One monitor at a time, a panel that catches
  up, whole lines in order.*
* TAPI monitor, address books, plug-in proxies, journal page: see the plan.
* Taskmaster and jobs: nodes reached over several parents, counts of what a node
  waits for, results in any order, headers that are generated and scanned again, actions
  with several targets, files written on the side, cycles, failures, signals.  *Everything
  is built once and after what it depends on; nobody waits for ever; a cycle is
  reported if there is one; the exit status tells the truth, unless an action chooses it
  itself.*
* What is remembered between runs: edits before, during and after a run, signatures
  and timestamps of different age, kills and interrupts, a cache others write to.
  *A run that succeeds leaves what a build from scratch would; a second one builds
  nothing.*

The hazards, each at its line, are in `PROJECT.json`.  Smaller ones, which no run is
about: `findActiveEntry` (`mainapp.cpp:301`) mixes up entries whose key is 0 when the
database is not ok; a name is lost if the update of the temporary entry fails
(`mainapp.cpp:575`); a slow web lookup blocks the GUI thread that wants the list's mutex
(`resolvermodel.cpp:363`); `moveDown` on the last entry relies on the page's button
(`resolvermodel.cpp:161`); two resolvers may share a position (`resolvermodel.cpp:123`);
`m_Listeners` is walked while it may change (`cpf_monitor.cpp:117`); the end event is
never reset (`cpf_monitor.cpp:189`); the longest wait before a new attempt is 30.5 s and
not the 30 s of the comment (`cpf_monitor.cpp:373`); outgoing calls are announced though
`src/README.md:13` speaks of incoming ones only (`cpf_monitor.cpp:239`); a `CTafLock`
without a name is gone before it protects anything (`taf.cpp:701`).

## 2. Modules

| Module | Models | Composes |
|---|---|---|
| `ResolverService` | what `CMainApp` relies on: requests dealt with in order, each answered at most once, none after shutdown | |
| `ResolverQueue` | the mechanism in `resolvermodel.cpp` with its two threads | refines `ResolverService` |
| `ResolverQueueProofs` | theorems about `ResolverQueue` | |
| `JournalEntry` | `CJournalEntry` as operators from entry to entry | |
| `CallTracking` | `CMainApp`'s handlers and `CJournalModel`, with providers and a resolver as environment | extends `JournalEntry` |
| `CallTrackingProofs`, `CallTruthProofs` | theorems about `CallTracking` | |
| `FritzMonitor` | life cycle of the Fritz!Box thread under the panel's Start/Stop button | |
| `FritzFeed` | from the byte stream to the observers, with the application's registration | |
| `FritzMonitorProofs`, `FritzFeedProofs` | theorems about the two | |
| `Taskmaster` | the walk over the dependency graph, as operators on its state | |
| `BuildJobs` | one run of SCons: main thread, workers, signal handler, three kinds of task | extends `Taskmaster` |
| `BuildJobsProofs`, `BuildOrderProofs` | theorems about `BuildJobs`, the latter extends the former | |
| `IncrementalBuild` | sequences of runs over changing files, `.sconsign` and the cache | |
| `IncrementalBuildProofs` | theorems about `IncrementalBuild` | |
| `MCResolverQueue`, `MCCallTracking`, `MCBuildJobs`, `MCIncrementalBuild` | small instances for TLC | |

Operators whose comment begins with "Mutation:" are plausible bugs of
the definition they stand next to.  Nothing uses them; putting one in the place of
its original must make TLC report the property that guards against it.  The
pairs are listed in `PROJECT.json`.

### ResolverQueue

`gpc` and `wpc` say where the two threads are.  `Resolve` and `PostRequest` are two
steps because `push_back` and `Post` are two calls, though both happen under
`m_csRequestList`; the worker's `Wait`, `CheckTerminate` and `Pop` are three, since
everything may happen in between.  `Lock`, `NextResolver`, `Found`, `NotFound` are
`processRequest`, one resolver per step, with the list mutex held from `Lock` on.
Edits of the list hold that mutex from start to end and wait for nobody, so each is
one step.  The synchronous lookup is `BeginLookup` and `EndLookup`.  `Pop` requires
a non-empty list: `front()` of an empty one is undefined, and `NoEmptyPop` shows
that the worker never gets there with an empty list.  Left out: the contents of
names, logging, and the positions saved to the database.

`Implements` maps the service's pending requests to the list, with the request in
the worker's hands in front, and to nothing once `shutdown()` has returned; its
answers are the posted responses without the resolver that gave them.

### CallTracking

Variable `call` is the truth about the line: each call's key, direction, other
party, phase and outcome.  Handlers never read it.  `evq` is the GUI thread's queue;
`entry` holds the `CJournalEntry` objects, named by the call they were created for;
`active` is `m_ActiveCalls`; `windows` the entries that have a notification
window; `table` and `nextcallid` the database; `reqs` the resolver's queue, of
which `ResolverQueue` shows that it is first in, first out.

`OnNewCall`, `OnCallStateUpdate`, `OnCallInfoUpdate` and `OnResolverResponse` are
whole handlers, with the save at their end and the purge that an insert brings.
`Saved` gives every outcome of `insertUpdateEntry`: `Faults` names the statements
that may fail (`"begin"`, `"insert"`, `"update"`, `"purge"`), and a failure leaves the
entry as the code leaves it: with its new key, if it failed after `setDbKey`.

Providers report what the three monitors can report: a new call, numbers (both
at once as the Fritz!Box does, or one side with the network's name as TAPI does), the
states ringback, busy, connected, on hold, disconnected, and finally IDLE.  With
`MayLose` a provider may forget a call without a word (a broken connection to the box,
`CTafLine::closeCalls`) and use its id again.  Formatting of numbers is the constant
function `Format`, with `Kind` telling internal and international ones.  Each of the
states that the program maps to "pending" is represented by one of them.  TAPI calls
of unknown type and the mapping of ACCEPTED to CONNECTED are not among the inputs.

Purging by age is a cut at any row, since rows are made in the order of time.

### FritzMonitor and FritzFeed

`FritzMonitor` keeps the flags `m_bRunMonitor`, `m_bMonitorIsRunning`,
`m_bMonitorIsConnected`, the handle's thread, and per thread the place in `monitor()`
and `retryCount`; each read or write of a shared flag is a step.  The panel is open
throughout.  `Join` may give up (`JoinMayTimeOut`), as after the code's ten seconds.

`FritzFeed` lets the box say CALL, RING, CONNECT and DISCONNECT for its call ids,
each line in two fragments, and `recv()` return any number of them.  `HandleLine` is the
loop over the buffer that ends at the first line that is not complete.  A broken
connection (`Drop`) loses what is under way and the partial line.  `said`, `handled`, the
number `since` with which the connection began and the field `n` of a notice are history:
`NoGap` says that what was handled on this connection, what the buffer holds (`Heard`) and
what is on the wire (`UnderWay`) are together what the box has said since.

### Taskmaster and BuildJobs

A project says what the SConstruct and the disk say: sources, prerequisites, the targets
of each action, side effects, what exists, and what each file includes.  `includes` is what
a file includes once it is up to date, `before` what the old one on disk does: a scan
of a generated file that comes too early finds the latter, and the code's answer, to scan
again in `built()`, has to put it right.  The walk's state `dag` has one field per
attribute of the nodes and of the Taskmaster, and each operator of `Taskmaster` is one of
its methods with the methods of `Node` and `Executor` it calls.

`BuildJobs` makes steps of them.  A turn of the loop in `_find_next_ready_node` is two:
`TakeCandidate` calls `next_candidate()`, which `stop()` replaces, and `SkipHandled`,
`Examine` or `ScanRaises` deals with the node.  So a signal or a worker's `stop()` may come
between any two turns, and within one: then the node just taken may still be begun, which is
what `StopMeansStop` allows and no more.  (The model leaves the node on the stack until it
is examined; nobody else reads the stack.) `pc` is the main thread's place, `worker` the
threads', `requestQ`, `resultsQ` and `sentinels` the two queues.  `PrepareFails`,
`ScanRaises` and failing actions are the exceptions that `options.faults` allows.  An action
or a scan may also call `exit()`: `BuildTask.failed` passes an explicit exit's status on to
`do_failed`, which makes it the exit status of SCons (`Errors.py:152`, "might be 0, OK
here"), while every other exception, and `exit()` elsewhere in the preparation, makes it 2.
`options.exits` is the set of statuses that may be so chosen and `ExitStatus` those `Fail`
may set.  `broken` and `runs` are history.  `Over` is the process at its end, so a state
without a step is a real deadlock.

### IncrementalBuild

A content stands for its MD5 signature, and what an action makes records the command
and the contents it was made from, so that "as if built from scratch" can be
compared (`Compiled`).  A run reads `.sconsign` (`Start`), looks at the nodes one by
one (`VisitSource`, `Scan`, `FindCurrent`, `FindChanged`), where a scan pushes the children
in front of the list and a node met again is passed over (`SkipHandled`), copies from the cache or runs
the action (`Begin`, `Copied`, `Acted`, `Failed`), and in the end merges and writes
(`WalkOver`, `UnlinkDb`, `RenameDb`: `dblite.sync` unlinks the old file before the
rename).  `Killed` ends the process anywhere, a target half written or `.sconsign` gone.
Between and, with `midway`, during runs, files are edited, put back or deleted, and
the command line changes.  `ninfo`, `kids` and `found` are what a process has computed and
forgets at its end; `stored` are the nodes it will merge.  What the sources of a target
include is a set, whose order does not matter to the code's comparison as long as it is the
same from run to run.  The SConstruct has no cycle (`NoCycle`; what happens with one is the
matter of `BuildJobs`) and no target but those `Goal` needs (`GoalAssumption`).

## 3. Runs

| Run | Question | Bounds | Distinct states |
|---|---|---|---|
| `resolver` | wake-ups match work, no empty pop, web restriction, user's order, refinement; every request served, shutdown ends | 3 requests, 2 resolvers, 2 numbers | 473,000 |
| `tracking` | rows tell the truth about their call; missed, answered, busy and duration; windows follow calls | 2 calls, one after the other or at once, 2 ids, both directions, 2 parties, queue of 1 report | 3,005,000 |
| `tracking_faults` | key ownership, dirty flag, purge by count | 2 calls, 2 ids, updates and purges fail, calls get lost, journal of 1 row | 1,202,000 |
| `tracking_live` | ended calls leave, names arrive | 2 calls, 2 ids, 1 party, purge by age | 37,000 |
| `fritz_lifecycle` | one monitor, panel catches up, stop takes effect, button comes back | 3 threads, reconnects while fewer than 2 refreshes wait | 41,000 |
| `fritz_feed` | whole lines, no gap, one call per id | 2 ids, 4 lines, connections may break | 433,000 |
| `fritz_feed_cleanup` | *violated:* CleanUp unregisters | | |
| `build` | order, once, side effects, nobody forgotten, cycles, `-k`, exit status | 6 projects of up to 6 nodes, serial and 2 workers, 22 command lines | 427,000 |
| `build_live` | every run ends, with its workers | 3 projects, 4 command lines, 2 workers | 14,000 |
| `build_side_effect` | *violated:* a waiting node is put back | 1 project, 2 workers, no failures | |
| `incremental` | runs that succeed leave what a build from scratch would; nothing is built twice; the cache is honest | 3 sources, 2 targets, 2 command lines, edits up to second 3 or 4, 4 deciders | 4,414,000 |
| `incremental_drift` | *violated:* a signature is that of the content | old files, interrupts | |

**Why the bounds are enough.**  Two calls are the least with which a name can go to the
wrong one, and with two ids they may share one or go on at once.  Three requests give one in
the worker's hands and a queue of two, so order matters.  Two resolvers, one local and one
on the web, with a number both know and one only the web knows, make every branch of the
walk happen.  Four lines from the box allow a call, its end and the same id again with
another call in between.  A queue bound restricts only the providers: the resolver's answers
always fit.  Three threads allow a start, a stop, and a start while the first thread is
still in a blocking `connect()`.

The projects of `MCBuildJobs` are the shapes that make the walk hard: a diamond, generated
headers that include each other, an action with two targets of which different parents need
one each, three actions that write the same file on the side, a cycle beside targets that
can be built, and missing files with an order-only prerequisite.  Two workers are enough for
every order of two results and for a third task that waits.  Every failure policy meets
failing actions and a signal, or failing scans and preparations, and `-q` and `-c` a signal,
with and without failing scans.  What fails may exit with 3, a status nobody else sets, and
with `-k`, or when scans fail beside two workers, with 0 or 1, which look like success and
like the answer of `-q`.

In `MCIncrementalBuild` a program is made from a source and a generated file; the second
versions of the source and of the generator include a header.  Three seconds allow an
edit before and after a run and one that undoes it.  Runs that are killed, fail or are
interrupted (`Rough`), files that go back and forth with signatures of old files
(`Smooth`), such signatures beside killed runs (`Aging`), and a cache with either of the first two
(`Shared`) are separate, because the combinations
fail as described below.

**Deadlock** is checked in the runs of SCons.  It is not in the others, because each of
these systems really stops: the resolver after shutdown, the monitor after the program has
gone, the others when the bound on calls or lines is reached.  That nothing stops too
early is the matter of the liveness properties.

**Fairness.**  In `ResolverQueue` each thread goes on when it can, and `Lock` is
strongly fair since the GUI may take the mutex again and again and Win32 serves waiters
in order.  What the user does is never forced; what was begun is finished.  In
`CallTracking` the GUI thread handles its events and the resolver its requests; a
provider need not report anything.  In `FritzMonitor` each thread goes on, except that
an established connection may last as long as it likes while the monitor is to run
(`select` returns after five seconds, so `m_bRunMonitor` is looked at again and again);
the GUI thread finishes what it began and handles refresh events, and nobody has to
click.  In `BuildJobs` the main thread and each worker go on when they can, and every action
comes to an end (SCons sets no limit of its own); signals are never forced.

### What the runs show

The properties hold, under these conditions, which are part of what was learned (the
steps in brackets are the states of the shortest trace that TLC finds otherwise):

* `RowAttribution`, `JournalTellsTruth` and `WindowsFollowCalls` need providers that report
  the end of every call.  If a call is lost and its id used again, `m_ActiveCalls.insert`
  (`mainapp.cpp:455`) keeps the old entry: later events go to the old call's row and the new
  window is never closed.  `KeyOwnership` and `CleanMeansSaved` survive this.
* `KeyOwnership` needs inserts that do not fail half way: `setDbKey` runs before the
  commit (`journalmodel.cpp:241`), so a rollback leaves the entry with a key that is
  handed out again.  Failing updates and purges do no harm.  `CleanMeansSaved` needs the
  same: with `Faults = {"insert"}` TLC finds a state 7 steps deep in which an entry counts as
  saved in a row that another call gets.
* `RowAttribution` needs transactions that begin as well: with `Faults = {"begin"}` an entry
  keeps key 0, and `findActiveEntry` takes it for the one whose names have arrived (9 steps).
* `JournalTellsTruth` needs updates that succeed too: the save after the last event of a call
  is not repeated (5 steps).
* `NamesArrive` needs a database that works: a late answer whose update fails is
  forgotten.
* `OneMonitor` needs the new thread to run before the next click (`PromptStart`):
  `startMonitor` (`cpf_monitor.cpp:197`) looks at a flag which the new thread sets.

* The properties of the walk need exceptions that are noticed (`Swallowing`): with `-c`,
  `-q` and `-i` a failing scan is passed over (`Script/Main.py:379`) and the task counts
  as executed although its dependencies were not looked at.  `EffectsExclusive` needs
  scans that do not fail: the task made after such a failure does not wait for side effects.
  With `-k` it also needs that nothing depends on what is written on the side.  A node that
  waits is given up when something it depends on fails, and a side effect can be such a node:
  in `SharedLog` of `MCBuildJobs` it is marked failed while one action still writes it, so
  that the next one does not see it in use (`GoingOn`, three workers).
* With `-k`, `KeepsGoing` needs generated headers that drop no dependency when they are
  rebuilt, and `DependenciesFirst` no action with several targets that also includes such a
  header.  The run has headers that gain an include and, in another project, such an
  action.
  `will_not_build` (`Taskmaster.py:974`) follows and empties `waiting_parents`, in which a
  node stays that after a rescan no longer depends on the failed one, though the docstring of
  `fail_continue` (line 349) speaks of "all of their dependent parent nodes".  In the
  instance `LostInclude` of `MCBuildJobs` such a node is given up without need (found 24
  steps deep); in `Twins` the emptied set no longer tells the second target of an action to be
  scanned again (`Node/__init__.py:383`), and the action runs before the header it includes
  is generated (47 steps).  To see this, give `Projects` and `OptionSets` these values, and
  `Node` the numbers 1 to 6 or 1 to 11.
* `StatusTellsTruth` says that a build that ended with 0 is whole only if no action or scan can
  exit with 0.  Where one can, a broken build ends with 0, as the code means it to; and with
  `-k` each failure overwrites the exit status (`Script/Main.py:200`), so that an `exit(0)` hides
  what failed before it.  Without this condition TLC finds a broken build that ends with 0
  (7 steps).  Likewise 1 is the answer of `-q` only if nothing exits with 1.  An
  interrupt or a cycle ends with 2 all the same: both set the status after the last failure.
* `CyclesReported` allows a false report after a failure or an interrupt: nodes that were
  left over look as if they waited for each other.
* `CyclesReported` and `NothingLeftOut` need generated files whose old content does not lead
  to other files than the new one.  What is found by scanning an old file is waited for, and
  nothing takes it back when the file has been made anew; in `OldLoop` of `MCBuildJobs`
  the old header includes what is made from its user, and a cycle is reported where there is none.
* `Fresh` needs `--max-drift=-1` where runs are interrupted or fail and the decider takes
  signatures (`content`, `MD5-timestamp`).  What `incremental_drift` shows of the cause has
  this effect: an edited source is looked at, the run is interrupted before its signature is
  taken, and `merge` puts the old signature beside the new timestamp.  Something else is
  edited, and once the source counts as old a later run believes the signature, leaves the
  stale target and ends with 0.  `Stopping` of `MCIncrementalBuild`, as `OptionSets`, shows
  it (33 steps).  `timestamp-match` asks for no signature and holds with both.  Runs that
  are only killed never write `.sconsign`, so they do no such harm, and are checked with old
  signatures for all three.
* `Fresh` also needs runs that are not cut short, by a kill or by a failing action, and followed by a
  revert (a partial target then has an old entry that matches; 35 steps), no file that is
  changed and changed back during a run (27 steps), and edits in a later second than the build's.
  The last means for the deciders by timestamp that nobody edits during a run: what is made
  again within the same second looks the same (29 steps).  `timestamp-newer`
  needs runs that neither are killed (35 steps) nor fail or are interrupted (37 steps): a
  half-written target is newer than its sources.
* The run checks `Fresh` for the combinations in `MCOptionSets`: `Rough`, `Smooth`, `Aging` and
  `Shared`.  No more is claimed of other ones.
* `CacheHonest` needs sources that are not edited during a run: the signature is taken
  before the action reads the file (10 steps).  It also needs `--max-drift=-1` beside
  interrupted runs (30 steps) or beside killed ones and reverts (34 steps): an old signature
  is believed, and what is built goes to the cache under it.
* `NothingTwice` needs nothing: it holds after kills, interrupts, reverts and edits at any
  moment, for each decider.

Three runs find the code at odds with the repository's own words:

* `mainapp.cpp:186` says "Unregister from call monitor plug-ins", but line 190
  registers once more.
* A comment in `Taskmaster.py` (872) says that a node that waits is put back on the list when
  all it waits for has finished.  `executed()` (line 299) gives a side effect back
  before `postprocess()` looks for nodes that wait for it, and these are forgotten: with
  `-j2` a target that depends on the side effect of another one is not built, and
  the exit status is 0.
* `FS.py:2916` says that `get_csig` returns the signature of the content.  After an
  interrupted run `merge` (`SConsign.py:185`) has put a new timestamp beside an old
  signature, and once the file counts as old that signature is believed.

## 4. Theorems

All are proved for every value of the constants, from the assumptions named in the
modules (`ResolverAssumption`, `TrackingAssumption`, `EmptyAssumption`, `EffectAssumption`,
and for SCons `NodesFinite`, `WorkersFinite`, `ProjectAssumption`, `TaskNode`,
`FileAssumption`, `NoCycle`, `GoalAssumption` and two called `OptionAssumption`), which
say what kind of thing each constant is, and for a project that the targets of an action
share it, that a side effect has no builder, as `SideEffect` demands, and, from run to run,
that the SConstruct has no cycle.  Where a theorem needs more, it is a hypothesis of the
theorem, and what happens without it is told above.  A hypothesis about options or project
is about those of the behaviour at hand, as in `Spec /\ LoneTargets => DependenciesFirst`, and
leaves the other members of `OptionSets` and `Projects` alone.

`ResolverQueueProofs`:

* `TypeCorrect` (types, and no resolver is listed twice), with lemmas about swapping,
  removing and appending; `TypesKept` is its first half.
* `QueueCorrect`: `TokensPayForWork` is an equation between semaphore, list and the
  threads' places.  It does not give `NoEmptyPop` by itself, since the worker could
  be past its look at `m_bTerminate` when shutdown's token is the only one.  The
  inductive invariant `QueueInv` adds that `bTerminate` holds exactly from
  `SetTerminate` on, hence before that token is posted.  `TokensBalance` and
  `PopIsSafe` are the two parts.
* `FirstMatch` and `OnlineAllowed`: the invariant `WalkInv` ties the mutex to the
  worker's place and says that no resolver already passed overrules the answer; edits
  cannot disturb it because they need the mutex.
* `ImplementsService`: every step is a step of the service or a stutter.

`CallTrackingProofs`:

* `TrackCorrect`, inductive invariant `TrackInv`: types; entries belong to calls; every
  "new" event in the queue is about a call that has no entry yet and no two are about
  the same call; different keys lead to different entries.  The last two are needed
  because a handler creates an entry under the name of the call in its event, and
  because `Forget` must not leave another key with a dangling entry.  `TypeCorrect`
  follows.
* `KeysOwned`: under `"insert" \notin Faults`, `KeyOwnership` is preserved by every step
  given `TrackInv`.
* `RecentRowsStayHolds`, without any condition: rows have only keys that were given out
  (`RowsIssued`), so there is a newest one of those a purge takes; it has `MaxCount`
  newer ones, and these all stay (`PurgedRecent`).

`CallTruthProofs`:

* `CleanMeansSavedHolds`, under `"insert" \notin Faults`: the inductive `CleanInv` adds
  `KeyOwnership` and that no row has a key that is yet to be given, since a new row must not
  overwrite the row of an entry that counts as saved.
* `LineHolds` and `WindowsFollowCallsHolds`, under `~MayLose`: `LineInv` relates the queue to
  the lines.  Of all calls with one id only the last may go on; what waits is in the order of the
  calls, "new" first and IDLE last; a call that is over and still has an entry has its IDLE in
  the queue; and an entry is in the map under its own key.  `WindowsFollowCalls` then is
  one more conjunct.
* `RowAttributionHolds`, with inserts that do not fail either: `TruthInv` adds that every event
  in the queue, every request of the resolver, every entry and every row is true of the call
  it was made for, and that a row id leads to the row of one call only.  This is what makes
  a late answer harmless.
* `JournalTellsTruthHolds`, with updates that succeed: `JourneyInv` adds the course of a call:
  which words about it still wait in the queue, given its phase, and what the entry has made
  of those already handled.

`FritzMonitorProofs`:

* `OneMonitorHolds`, under `PromptStart`: `SoleMonitor` adds to the property that a created
  thread counts as well, that a thread at work has set `m_bMonitorIsRunning`, and that the panel's
  handlers never see a thread that has not begun.
* `PanelCatchesUpHolds`, without any condition: the property is inductive given the types.

`FritzFeedProofs`, whose inductive invariant is `FeedInv`:

* `LinesIntactHolds` and `NoGapHolds`: `StreamInv` says, with indices instead of
  concatenations, that buffer and wire hold the fragments of the messages from
  the first that was not handled on, half of one possibly missing in front.
* `OneCallPerIdHolds`: `BoxInv` is what the box promises, an end between two calls with one
  id, and `ToldInv` carries it over to the observers as long as they are registered at most
  once.

`BuildJobsProofs`, for any finite project, any options and any number of workers:

* `WalkTypes`: types of the walk and the jobs, and a task in the main thread's hands has
  been entered into the graph.  One lemma per operator of `Taskmaster` says what it may
  change.
* `JobsNeverLost`: `JobsCounted`.  Each worker step moves one task from a queue to a
  worker or on; the lemma `CountStep` counts the workers that run.
* `StopIsFinal`: `StopMeansStop`, for each step of main thread, workers and signal handler: once
  stopped, no candidate is taken and nothing begun but the one taken before.
* `OnlyOnce`: `AtMostOnce` is not inductive.  `OnceInv` adds that the targets of an action
  are always started together, that what has run was handled by the walk, and that tasks
  under way are due exactly once and share no target.

`BuildOrderProofs`, likewise:

* `TypesHold`: `TypeOK`, which needs that the parallel job never has more tasks under way than
  it counts and that an exit status is only set where the code sets it.
* `StatusOfFailures`: the part of `StatusTellsTruth` that is about failures, signals and
  cycles, for every run and every set of explicit statuses: a build that broke ends with 2 or
  one of these, an interrupt or a cycle with 2, and 1 comes from `-q` or is one of these.
  `NotedFailures` follows every assignment to the exit status, the workers' with `-q` included;
  that `do_failed` does not come after `jobs_postfunc` is `LoopLeft`, nothing is under way once
  the loop is left.  `ExitStatusTrue` below has the rest.
* `DependenciesComeFirst`: with `-k` for projects whose actions have one target each
  (`LoneTargets`), otherwise for all.  That all children known now are done when a node is
  acted upon follows from the walk's counts; that all children it *turns out* to have are known
  does not.  `ScanInv` says that the scan of a node not yet handled is either up to date
  (`ScanOK`, `Known`), or it came too early and the file to blame is still ahead (`Behind`):
  not yet done, and with the node among its `waiting_parents`, so that `built()` makes it
  rescan; or it has failed and the node will not be built (`Doomed`).  `TasksHandled` says
  what is true of tasks under way.
* `EffectsNeverShared`, under `SideFiles`: only what is built writes on the side, and with `-k`
  nothing depends on what is so written.  `Apart` gives each task a place
  (the main thread, a position in a queue, a worker) and says that no two places have a file on
  the side in common; for the next task this follows from `Claimed`, what is written by a
  task under way is marked "executing" unless the walk was stopped and its last candidate has been
  dealt with (`Halted`), and `NoneWaits` keeps it
  so with `-k`: a side effect is never among what is given up.
* `EverybodyRemembered`: `NobodyForgotten`, if what is written on the side is used by nobody
  (`UnusedEffects`); the run `build_side_effect` shows what happens otherwise.  `Remembers`
  says of each node of the walk that its count is exactly the number of nodes it is
  entered with, that each of these is attended to, and that it is on the stack if nothing is
  left to wait for; it is stated for the graph with some nodes taken out of the account
  (those that the task at hand is about to finish), so that each half of a step can be looked
  at alone.  `Settled` is what the main thread, the queues and the workers add: nodes under way are
  just the targets of tasks.

* `ExitStatusTrue`: all of `StatusTellsTruth`, under `UnusedEffects`, `PlainLeaves` (a file
  without a builder has no sources or prerequisites of its own, since the walk does not
  follow them) and `AnswersHeard` (with `-q` no scan raises; the run checks that case too).
  `Progress` is the inductive invariant.  Its parts: who waits does so in some order, except
  for those that wait for a node in `pending_children` (`InOrder`, with an explicit ranking
  that every step extends), so that a walk that ends with anybody waiting finds a cycle;
  what was asked for has been looked at (`Left`, `AllAsked`); and the targets that were
  begun are closed under what they really need, without a cycle among them (`Based`).
* `NothingIsLeftOut` and `CyclesAreReported` (the latter without `-q`): `NothingLeftOut` and
  `CyclesReported`, if also no old content of a generated file leads elsewhere than the new one
  (`NothingObsolete`).  `Within` adds that only what is wanted is looked at, and that who
  waits, waits for something it needs.  If somebody still waits at the end there is a
  cycle: of those that wait, take one that needs the fewest nodes; it waits for one that needs
  as many, so that one is among its own needs (`PendingCyclic`).  Every instance of
  `MCBuildJobs.cfg` meets the hypotheses `UnusedEffects`, `PlainLeaves` and
  `NothingObsolete`; `OldLoop` shows what the last one is for.

`IncrementalBuildProofs`, for any files, contents, includes, command lines and sets of options:

* `SoundHolds`: types, and the order of the walk.  A target that has been scanned waits in the
  list behind each of its children that is not done, and all that stands before it has a
  lower rank; so its children are done when it is looked at, and a successful
  run reaches everything.  The rank exists by `NoCycle`; `GoalAssumption` replaces the
  induction along it.
* `KnowsHolds`: until somebody edits a file, the children, scans, timestamps and signatures
  that a run has computed are those of the disk, except for the signatures of files that count
  as old.
* `NothingTwiceHolds`, without any condition: `SettledInv` says that after a successful run
  `.sconsign` matches the disk in just what the decider in force asks (`Matching`, `Agrees`),
  and that the next run does not come to know anything else.  Signatures need not be right for
  that, only the same as last time.
* `CacheHonestHolds`, if beside a cache nobody edits files during a run, old signatures are
  not believed, and the decider is not `MD5-timestamp` (`HonestOptions`); actions may fail and
  runs be killed at any moment.  `CacheInv` says that what an action is about to produce is what
  its signature stands for.
* `FreshHolds`, if SCons decides by content, no run is cut short, files are not edited during a
  run, and old signatures are not believed beside a cache (`CompleteOptions`); files may go
  back to earlier contents and targets be deleted.  `RememberedInv`: what `.sconsign`
  says of a target was true when its present content was made (`TrueOfTarget`), and the
  signature of a source is right as long as its timestamp is the stored one
  (`TrueOfSource`).

Only model-checked: the liveness properties (fairness and ENABLED are beyond the prover);
of `BuildJobs` `KeepsGoing`; of
`IncrementalBuild` `Fresh` and `CacheHonest` for the deciders by timestamp, for runs that
are cut short and for old signatures beside a cache, as far as the runs' options go.

## 5. Plan

Done, in this order because calls, names and rows are what the program is for:
resolver service and queue with proofs; journal entry and call tracking with proofs;
Fritz!Box life cycle and feed; then the build engine, within one run with proofs and from
run to run.

Next, modules:

1. `CallProvider`: what `CMainApp` expects of a monitor (new, info and status, IDLE per
   id), abstracted from `CallTracking`'s provider and shown to be implemented by
   `FritzFeed` as long as the connection lasts.
2. `TapiMonitor`: `taf.cpp`'s lines, calls, reports and thread, with ACCEPTED, calls of
   unknown type, call information before the first report, and `closeCalls`.
3. `Shutdown`: `CleanUp`'s order against running monitors and the worker.
4. `ResolverList`: positions, saving, loading; `AppendEntry`'s equal positions.
5. `JournalList`: the page's delayed copy against active entries.
6. `Notification`: windows closed by the user against `killWnd`; what windows show when
   the database is not ok and all keys are 0.
7. `Addressbook`: keys, dirty phones, transactions of the two back ends.
8. `PluginLoader`: proxies and GUIDs; two address books with one GUID.
9. Algorithms: `CPhone`'s kinds of number, CSV fields, log rotation.

Next, theorems: `KeepsGoing` and, with `-q`, `CyclesReported` of `BuildJobs`; `Fresh` for
the deciders by timestamp and for runs that are cut short.

## 6. Not modelled

Pure display (main frame, preference pages, resources, pictures), the text of log and
journal, regular expressions and HTTP in `rexweb.cpp`, SQL itself, the vendored
libraries, and the parts the plan still lists.  `PROJECT.json` says so for each
component.

Of SCons: configure contexts, reading SConscript files and options, variant directories,
repositories, `--implicit-cache`, `Ignore`, batches, `--interactive`, and the tables and
string processing of tools, platforms, packaging, substitution and `scons-time`.  These are
most of its lines and most of the Python in the tree; they are sequential and keep no
state that a run or another thread depends on, so there is little a model would tell.
Contents stand for signatures, so MD5 collisions are left out, and so are files that
cannot be read.

## 7. Running

    tlc -workers 2 -config MCCallTracking.cfg MCCallTracking
    tlc -workers 2 -config MCBuildJobs.cfg MCBuildJobs
    tlapm ResolverQueueProofs.tla

and `tlapm` likewise for `CallTrackingProofs`, `CallTruthProofs`, `FritzMonitorProofs`,
`FritzFeedProofs`, `BuildJobsProofs`, `BuildOrderProofs` and `IncrementalBuildProofs`.  The
longest, `BuildOrderProofs`, takes about a quarter of an hour from nothing.

The runs of `FritzMonitor` and `FritzFeed` name those modules directly; their constants
are numbers and Booleans, given in the `.cfg` files.

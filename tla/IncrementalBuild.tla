-------------------------- MODULE IncrementalBuild --------------------------
(***************************************************************************)
(* What SCons remembers from one run to the next: a sequence of runs over  *)
(* source files that are edited between the runs and during them.  The     *)
(* decision whether a target is current (SCons/Node/__init__.py, FS.py,    *)
(* Environment.py), the .sconsign file (SConsign.py, dblite.py) and the    *)
(* cache of derived files shared with others (CacheDir.py).                *)
(*                                                                         *)
(* One run walks the targets one by one, as with -j1; BuildJobs has what   *)
(* parallel runs add.  A signature is the content itself: no two contents  *)
(* have the same MD5.  A timestamp is in whole seconds (FS.Base.getmtime). *)
(* options, fixed for the life of a checkout:                              *)
(*   decider    "content", "timestamp-match", "timestamp-newer",           *)
(*              "MD5-timestamp"                                            *)
(*   drift      whether signatures of old files are taken from .sconsign   *)
(*              (the default; --max-drift=-1 turns it off)                 *)
(*   cache      whether there is a CacheDir                                *)
(*   midway     files may be edited while SCons runs                       *)
(*   kills      SCons may be killed at any moment                          *)
(*   stops      actions may fail, and SCons may be interrupted             *)
(*   reverts    files may return to an earlier content, targets be deleted *)
(*   until      bound: the last second in which something is edited        *)
(***************************************************************************)
EXTENDS Integers, Sequences, FiniteSets, SequencesExt, FiniteSetsExt

CONSTANTS Source,
          Target,       \* the targets that Goal needs, itself included
          Explicit,     \* per target, the files its SConstruct line names
          Includes,     \* per content of a source, the set of files it includes
          Contents,     \* per source, the contents it may have, in order
          Flags,        \* the command lines the SConstruct may have
          Goal,         \* the target asked for
          OptionSets

ASSUME FileAssumption ==
    /\ IsFiniteSet(Source) /\ IsFiniteSet(Target) /\ Source \cap Target = {}
    /\ "unknown" \notin Source \cup Target
    /\ \A t \in Target : Explicit[t] \in Seq(Source \cup Target)
    /\ \A s \in Source : /\ 1 \in DOMAIN Contents[s] /\ \A i \in DOMAIN Contents[s] : Contents[s][i] # <<>>
                        /\ \A i \in DOMAIN Contents[s] : Includes[Contents[s][i]] \subseteq Source

\* The SConstruct has no cycle, and every target is there for Goal's sake.
ASSUME NoCycle ==
    \E rank \in [Target -> 1..Cardinality(Target)] :
        \A t \in Target : \A u \in Target \cap ToSet(Explicit[t]) : rank[u] < rank[t]
ASSUME GoalAssumption ==
    /\ Goal \in Target
    /\ \A S \in SUBSET Target :
          Goal \in S /\ (\A t \in S : Target \cap ToSet(Explicit[t]) \subseteq S) => S = Target

ASSUME OptionAssumption ==
    /\ "none" \notin Flags
    /\ \A o \in OptionSets :
          o.until \in Nat /\ o.decider \in {"content", "timestamp-match", "timestamp-newer", "MD5-timestamp"}

VARIABLES options, disk, now, flags,
          db,           \* the .sconsign file
          cache,        \* the cached files, by build signature
          pc, todo,     \* what the run does, and the nodes it has to look at
          known,        \* the entries read from .sconsign
          aged,         \* files of that second or before count as old
          ninfo, kids, found,   \* per node: NodeInfo, children, scan result
          stored,       \* the nodes to be merged into .sconsign
          output,       \* what the running action or copy will produce
          status, undisturbed, repeated,
          settled       \* nothing has changed since a run that succeeded

world == <<options, now, flags>>
run   == <<known, aged, kids, found, repeated>>
vars  == <<world, disk, db, cache, pc, todo, run, ninfo, stored, output, status, undisturbed, settled>>

File    == Source \cup Target
None    == <<>>                              \* no content, no signature
NoInfo  == [csig |-> None, time |-> 0]
NoEntry == [csig |-> None, time |-> 0, sigs |-> <<>>, act |-> "none"]
EmptyDb == [f \in File |-> NoEntry]
Gone    == [content |-> None, time |-> 0]
Unknown == <<"unknown">>
Unscanned == {"unscanned"}
Exists(f) == disk[f] # Gone

\* What an action makes of the contents of a target's children, and what it
\* leaves behind if it is cut short.
Made(t, fl, inputs) == <<t, <<fl>>>> \o inputs
Partial(t)          == <<t, <<"partial">>>>

Init ==
    /\ options \in OptionSets
    /\ now = 1 /\ flags \in Flags /\ aged = 0
    /\ disk = [f \in File |-> IF f \in Source THEN [content |-> Contents[f][1], time |-> 1] ELSE Gone]
    /\ db = EmptyDb /\ known = EmptyDb /\ cache = <<>>
    /\ pc = "off" /\ todo = <<>> /\ ninfo = [f \in File |-> NoInfo]
    /\ kids = [t \in Target |-> Unknown] /\ found = [s \in Source |-> Unscanned]
    /\ stored = {} /\ output = None /\ status = 0
    /\ undisturbed = TRUE /\ repeated = FALSE /\ settled = FALSE

\* The process is gone, and with it all it knew.
ProcessEnds ==
    /\ pc' = "off" /\ todo' = <<>> /\ ninfo' = [f \in File |-> NoInfo] /\ known' = EmptyDb
    /\ kids' = [t \in Target |-> Unknown] /\ found' = [s \in Source |-> Unscanned]
    /\ stored' = {} /\ output' = None /\ status' = 0
    /\ undisturbed' = TRUE /\ repeated' = FALSE

----------------------------------------------------------------------------
(* The start of a run: dblite opens .sconsign, an absent one is empty.     *)
(* Time has passed since the last run: files up to second old are now      *)
(* older than max_drift.                                                   *)

Start ==
    /\ pc = "off"
    /\ \E old \in aged..(now - 1) : aged' = IF options.drift THEN old ELSE 0
    /\ known' = db /\ todo' = <<Goal>> /\ pc' = "walk"
    /\ repeated' = settled /\ settled' = FALSE
    /\ UNCHANGED <<world, disk, db, cache, ninfo, kids, found, stored, output, status, undisturbed>>

\* get_max_drift_csig: the stored signature of a file that is older than
\* max_drift and has the stored timestamp.
\* Mutation: any old file keeps the stored signature.
MaxDriftCsigAnyTime(f, time) == IF options.drift /\ time <= aged THEN known[f].csig ELSE None
MaxDriftCsig(f, time) ==
    IF options.drift /\ time <= aged /\ known[f].time = time THEN known[f].csig ELSE None

\* get_csig: the signature in the NodeInfo, or that of the content on disk.
Csig(f) == IF ninfo[f].csig # None THEN ninfo[f].csig ELSE disk[f].content

Node == Head(todo)

\* A candidate that an earlier look has dealt with is passed over.
SkipHandled ==
    /\ pc = "walk" /\ todo # <<>> /\ Node \in stored /\ todo' = Tail(todo)
    /\ UNCHANGED <<world, disk, db, cache, pc, run, ninfo, stored, output, status, undisturbed, settled>>

Looking == pc = "walk" /\ todo # <<>> /\ Node \notin stored

\* A source is up to date: visited() notes its timestamp.
VisitSource ==
    /\ Looking /\ Node \in Source
    /\ ninfo' = [ninfo EXCEPT ![Node] =
                    [csig |-> MaxDriftCsig(Node, disk[Node].time), time |-> disk[Node].time]]
    /\ stored' = stored \cup {Node} /\ todo' = Tail(todo)
    /\ UNCHANGED <<world, disk, db, cache, pc, run, output, status, undisturbed, settled>>

\* The sources and the implicit dependencies of a target, given what each
\* source includes.
Children(t, includes) ==
    Explicit[t] \o SetToSeq(UNION {includes[s] : s \in Source \cap ToSet(Explicit[t])})

\* The children come first.
Ahead(children) == children \o todo

\* A source is scanned once in a run, when the first target that uses it is
\* looked at.
Scan ==
    /\ Looking /\ Node \in Target /\ kids[Node] = Unknown
    /\ found' = [s \in Source |-> IF s \in ToSet(Explicit[Node]) /\ found[s] = Unscanned
                                  THEN Includes[disk[s].content] ELSE found[s]]
    /\ kids' = [kids EXCEPT ![Node] = Children(Node, found')]
    /\ todo' = Ahead(Children(Node, found'))
    /\ UNCHANGED <<world, disk, db, cache, pc, known, aged, repeated, ninfo, stored, output,
                   status, undisturbed, settled>>

----------------------------------------------------------------------------
(* The decision: Node.changed with the decider of the environment.         *)

Before(t, i) == IF i <= Len(known[t].sigs) THEN known[t].sigs[i] ELSE NoInfo

SameTime(c, was) == ninfo[c].time = was.time
ChangedSinceLastBuild(t, c, was) ==
    CASE options.decider = "content"         -> Csig(c) # was.csig
      [] options.decider = "timestamp-match" -> ~SameTime(c, was)
      [] options.decider = "timestamp-newer" -> ninfo[c].time > disk[t].time
      [] options.decider = "MD5-timestamp"   -> ~SameTime(c, was) /\ Csig(c) # was.csig

\* The signature the decider leaves in the NodeInfo of the child.
CsigAfter(c, was) ==
    CASE options.decider = "content" -> Csig(c)
      [] options.decider = "MD5-timestamp" ->
            IF ~SameTime(c, was) THEN Csig(c) ELSE IF was.csig # None THEN was.csig ELSE ninfo[c].csig
      [] OTHER -> ninfo[c].csig

\* Mutation: a changed command line is no reason to build.
ChangedNoCommand(t) ==
    \/ Len(kids[t]) # Len(known[t].sigs)
    \/ \E i \in DOMAIN kids[t] : ChangedSinceLastBuild(t, kids[t][i], Before(t, i))
Changed(t) ==
    \/ Len(kids[t]) # Len(known[t].sigs)
    \/ \E i \in DOMAIN kids[t] : ChangedSinceLastBuild(t, kids[t][i], Before(t, i))
    \/ known[t].act # flags

Decided(t) ==
    [f \in File |->
        IF \E i \in DOMAIN kids[t] : kids[t][i] = f
        THEN [csig |-> CsigAfter(f, Before(t, CHOOSE i \in DOMAIN kids[t] : kids[t][i] = f)),
              time |-> ninfo[f].time]
        ELSE ninfo[f]]

Deciding == Looking /\ Node \in Target /\ kids[Node] # Unknown

FindCurrent ==
    /\ Deciding /\ Exists(Node) /\ ~Changed(Node)
    /\ ninfo' = [Decided(Node) EXCEPT ![Node] =
                    [csig |-> MaxDriftCsig(Node, disk[Node].time), time |-> disk[Node].time]]
    /\ stored' = stored \cup {Node} /\ todo' = Tail(todo)
    /\ UNCHANGED <<world, disk, db, cache, pc, run, output, status, undisturbed, settled>>

\* prepare removes the old file.
FindChanged ==
    /\ Deciding /\ (~Exists(Node) \/ Changed(Node))
    /\ ninfo' = Decided(Node) /\ disk' = [disk EXCEPT ![Node] = Gone] /\ pc' = "execute"
    /\ UNCHANGED <<world, db, cache, todo, run, stored, output, status, undisturbed, settled>>

----------------------------------------------------------------------------
(* Task.execute: the file comes from the cache or from the action.         *)

\* get_cachedir_bsig asks for the signatures of all children.
WithCsigs(t)  ==
    [f \in File |-> IF f \in ToSet(kids[t]) THEN [csig |-> Csig(f), time |-> ninfo[f].time] ELSE ninfo[f]]
BuildSig(t)   == Made(t, flags, [i \in DOMAIN kids[t] |-> Csig(kids[t][i])])
Cached(t)     == options.cache /\ BuildSig(t) \in DOMAIN cache

\* The files the action reads: those it is given and those they include now.
RealKids(t) == Children(t, [s \in Source |-> Includes[disk[s].content]])
Compiled(t) == Made(t, flags, [i \in DOMAIN RealKids(t) |-> disk[RealKids(t)[i]].content])

Begin ==
    /\ pc = "execute"
    /\ ninfo' = IF options.cache THEN WithCsigs(Node) ELSE ninfo
    /\ output' = IF Cached(Node) THEN cache[BuildSig(Node)].content ELSE Compiled(Node)
    /\ disk' = [disk EXCEPT ![Node] = [content |-> Partial(Node), time |-> now]]
    /\ pc' = IF Cached(Node) THEN "copy" ELSE "act"
    /\ UNCHANGED <<world, db, cache, todo, run, stored, status, undisturbed, settled>>

\* built() and visited() after the file has got its content: a new NodeInfo.
Built(content, time) ==
    /\ disk' = [disk EXCEPT ![Node] = [content |-> content, time |-> time]]
    /\ ninfo' = [ninfo EXCEPT ![Node] =
           [csig |-> IF MaxDriftCsig(Node, time) # None THEN MaxDriftCsig(Node, time) ELSE content,
            time |-> time]]
    /\ stored' = stored \cup {Node} /\ todo' = Tail(todo) /\ pc' = "walk" /\ output' = None
    /\ UNCHANGED <<world, db, run, status, undisturbed, settled>>

\* The copy keeps the timestamp of the cached file, except with the decider
\* timestamp-newer.
Copied ==
    /\ pc = "copy"
    /\ Built(output, IF options.decider = "timestamp-newer" THEN now ELSE cache[BuildSig(Node)].time)
    /\ UNCHANGED cache

\* push_to_cache: not if somebody else was faster.
Acted ==
    /\ pc = "act"
    /\ Built(output, now)
    /\ cache' = IF options.cache /\ ~Cached(Node)
                THEN [k \in DOMAIN cache \cup {BuildSig(Node)} |->
                        IF k = BuildSig(Node) THEN [content |-> output, time |-> now] ELSE cache[k]]
                ELSE cache

\* fail_stop: whatever the action has written stays.
Failed ==
    /\ pc = "act" /\ options.stops
    /\ \E left \in {disk[Node], Gone} : disk' = [disk EXCEPT ![Node] = left]
    /\ status' = 2 /\ pc' = "write" /\ output' = None
    /\ UNCHANGED <<world, db, cache, todo, run, ninfo, stored, undisturbed, settled>>

Interrupted ==
    /\ pc = "walk" /\ options.stops
    /\ status' = 2 /\ pc' = "write"
    /\ UNCHANGED <<world, disk, db, cache, todo, run, ninfo, stored, output, undisturbed, settled>>

WalkOver ==
    /\ pc = "walk" /\ todo = <<>> /\ pc' = "write"
    /\ UNCHANGED <<world, disk, db, cache, todo, run, ninfo, stored, output, status, undisturbed, settled>>

----------------------------------------------------------------------------
(* The end of the run: SConsign.write.                                     *)

\* What a target remembers of its children.
\* Mutation: what .sconsign had of them when the run began.
SignaturesAsRead(t) == [i \in DOMAIN kids[t] |-> [csig |-> known[kids[t][i]].csig, time |-> known[kids[t][i]].time]]
Signatures(t) == [i \in DOMAIN kids[t] |-> ninfo[kids[t][i]]]

\* Base.merge: what a node does not know now stays as it was stored.
Merged ==
    [f \in File |->
        IF f \notin stored THEN known[f]
        ELSE [csig |-> IF ninfo[f].csig # None THEN ninfo[f].csig ELSE known[f].csig,
              time |-> ninfo[f].time,
              sigs |-> IF f \in Source THEN known[f].sigs ELSE Signatures(f),
              act  |-> IF f \in Source THEN known[f].act ELSE flags]]

\* dblite.sync has written the new file and unlinks the old one ...
UnlinkDb ==
    /\ pc = "write" /\ pc' = "rename" /\ db' = EmptyDb
    /\ UNCHANGED <<world, disk, cache, todo, run, ninfo, stored, output, status, undisturbed, settled>>

\* ... to give its name to the new one.
RenameDb ==
    /\ pc = "rename" /\ db' = Merged /\ ProcessEnds
    /\ settled' = (status = 0 /\ undisturbed)
    /\ UNCHANGED <<world, disk, cache, aged>>

Killed ==
    /\ options.kills /\ pc # "off" /\ ProcessEnds
    /\ UNCHANGED <<world, disk, db, cache, aged, settled>>

----------------------------------------------------------------------------
(* The users.  An edit falls into a later second than everything before.   *)

Idle == pc = "off" \/ options.midway

Disturb == /\ undisturbed' = (pc = "off") /\ settled' = FALSE
           /\ UNCHANGED <<options, db, cache, pc, todo, run, ninfo, stored, output, status>>

Edit ==
    /\ Idle /\ now < options.until /\ now' = now + 1
    /\ \E s \in Source : \E i \in DOMAIN Contents[s] :
          /\ Contents[s][i] # disk[s].content
          /\ options.reverts \/ \A j \in i..Len(Contents[s]) : Contents[s][j] # disk[s].content
          /\ disk' = [disk EXCEPT ![s] = [content |-> Contents[s][i], time |-> now']]
    /\ UNCHANGED flags /\ Disturb

ChangeFlags ==
    /\ pc = "off" /\ options.reverts /\ now < options.until /\ now' = now + 1
    /\ flags' \in Flags \ {flags} /\ UNCHANGED disk /\ Disturb

\* scons -c, or the user, removes a target.
Delete ==
    /\ pc = "off" /\ options.reverts /\ \E t \in Target : Exists(t) /\ disk' = [disk EXCEPT ![t] = Gone]
    /\ UNCHANGED <<now, flags>> /\ Disturb

\* Somebody with the same sources pushes a target to the cache.
OthersPush ==
    /\ options.cache /\ Idle /\ now < options.until /\ now' = now + 1
    /\ \E t \in Target :
          LET key == Compiled(t)
          IN  /\ \A c \in ToSet(Explicit[t]) : Exists(c) /\ (c \in Target => disk[c].content = Compiled(c))
              /\ key \notin DOMAIN cache
              /\ cache' = [k \in DOMAIN cache \cup {key} |->
                             IF k = key THEN [content |-> key, time |-> now'] ELSE cache[k]]
    /\ UNCHANGED <<options, flags, disk, db, pc, todo, run, ninfo, stored, output, status,
                   undisturbed, settled>>

RunStep == \/ Start \/ SkipHandled \/ VisitSource \/ Scan \/ FindCurrent \/ FindChanged
           \/ Begin \/ Copied \/ Acted \/ Failed \/ Interrupted \/ WalkOver
           \/ UnlinkDb \/ RenameDb \/ Killed
Next == RunStep \/ Edit \/ ChangeFlags \/ Delete \/ OthersPush

Spec == Init /\ [][Next]_vars

----------------------------------------------------------------------------
(* Properties.                                                             *)

\* A run that ends with status 0, with no edit since its start, leaves every
\* target as if it had been built from scratch.  Earlier runs may have been
\* killed, interrupted or have failed, with these exceptions: timestamp-newer
\* takes a half-written target for current; where runs are cut short or files
\* edited during them, no file may go back to an earlier content; with the
\* deciders by timestamp nobody may edit during a run (what is made again in the
\* same second looks the same); and once a run was interrupted or has failed,
\* content and MD5-timestamp need --max-drift=-1, since .sconsign may have an old
\* signature beside a new timestamp (CsigIsContent).
Fresh == settled => \A t \in Target : disk[t].content = Compiled(t)

\* A run after a run that succeeded, with no change in between, builds
\* nothing and copies nothing.
NothingTwice == repeated /\ undisturbed => pc \notin {"execute", "copy", "act"}

\* Whatever the cache holds under a build signature was made from what the
\* signature stands for: others may use it.
CacheHonest == \A k \in DOMAIN cache : cache[k].content = k

\* What get_csig promises, the digested signature of the content: a signature
\* in use is that of the content of the file, if nobody edits it meanwhile.
CsigIsContent ==
    pc # "off" /\ undisturbed => \A f \in File : ninfo[f].csig \in {None, disk[f].content}
=============================================================================

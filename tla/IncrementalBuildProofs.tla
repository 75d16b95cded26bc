----------------------- MODULE IncrementalBuildProofs ------------------------
(***************************************************************************)
(* What SCons makes of what it remembers, for any files, contents and      *)
(* includes: a run after one that succeeded builds nothing, the cache      *)
(* holds what its signatures stand for, and a run that succeeds leaves     *)
(* what a build from scratch would.                                        *)
(***************************************************************************)
EXTENDS IncrementalBuild, FiniteSetTheorems, SequenceTheorems, TLAPS

----------------------------------------------------------------------------
(* What holds by the way the steps are made.                               *)

Busy        == pc \in {"execute", "copy", "act"}
Versions(s) == {Contents[s][i] : i \in DOMAIN Contents[s]}

Asked(t)    == \A c \in ToSet(kids[t]) : ninfo[c].csig # None

ChildrenOf(t, children) ==
    /\ children \in Seq(File)
    /\ ToSet(Explicit[t]) \subseteq ToSet(children)
    /\ ToSet(children) \subseteq ToSet(Explicit[t]) \cup Source

DiskOK ==
    /\ options \in OptionSets /\ flags \in Flags
    /\ now \in Nat \ {0} /\ aged \in Nat /\ aged < now /\ (~options.drift => aged = 0)
    /\ disk = [f \in File |-> disk[f]] /\ \A f \in File : disk[f].time \in 0..now
    /\ \A s \in Source : disk[s].content \in Versions(s)
    /\ \A t \in Target : disk[t] = Gone \/ disk[t].content # None
    /\ \A k \in DOMAIN cache : cache[k].time \in 1..now /\ cache[k].content # None

RunOK ==
    /\ pc \in {"off", "walk", "write", "rename"} \/ Busy
    /\ ninfo = [f \in File |-> ninfo[f]] /\ kids = [t \in Target |-> kids[t]]
    /\ \A s \in Source : found[s] = Unscanned \/ found[s] \subseteq Source
    /\ \A t \in Target : kids[t] = Unknown \/ ChildrenOf(t, kids[t])
    /\ todo \in Seq(File) /\ stored \subseteq File
    /\ Busy => todo # <<>> /\ Node \in Target \ stored /\ kids[Node] # Unknown
    /\ \A t \in Target \cap stored : Exists(t)
    /\ pc = "act" => output # None
    /\ pc = "copy" => options.cache
    /\ pc = "copy" => /\ Asked(Node) /\ BuildSig(Node) \in DOMAIN cache
                      /\ output = cache[BuildSig(Node)].content
    /\ pc \in {"write", "rename"} /\ status = 0 => todo = <<>>
    /\ pc = "off" => stored = {} /\ kids = [t \in Target |-> Unknown] /\ found = [s \in Source |-> Unscanned]
    /\ settled => pc = "off"

----------------------------------------------------------------------------
(* The walk.  A target that has been scanned waits behind its children, and *)
(* only behind what comes before it in the order of the SConstruct.        *)

Rank == CHOOSE rank \in [Target -> 1..Cardinality(Target)] :
            \A t \in Target : \A u \in Target \cap ToSet(Explicit[t]) : rank[u] < rank[t]

Lower(f, t) == f \in Target => Rank[f] < Rank[t]
Known(t)    == kids[t] # Unknown
Waits(t)    == Known(t) /\ t \notin stored

Behind(t, i)  == todo[i] = t /\ \A j \in 1..(i - 1) : Lower(todo[j], t)
Covered(t, i) == \A c \in ToSet(kids[t]) : c \in stored \/ \E j \in 1..(i - 1) : todo[j] = c
InWalk(f)     == f \in stored \/ \E i \in DOMAIN todo : todo[i] = f

WalkInv ==
    /\ \A t \in Target : Waits(t) => \E i \in DOMAIN todo : Behind(t, i)
    /\ \A t \in Target : Waits(t) => \A i \in DOMAIN todo : todo[i] = t => Covered(t, i)
    /\ \A t \in Target \cap stored : Known(t) /\ ToSet(kids[t]) \subseteq stored
    /\ pc # "off" => InWalk(Goal)
    /\ pc # "off" => \A s \in Source : InWalk(s) => \E t \in Target : Known(t) /\ s \in ToSet(kids[t])

----------------------------------------------------------------------------
(* What a run knows, as long as nobody edits anything.                     *)

InRun    == pc # "off" /\ undisturbed
Old(f)   == options.drift /\ disk[f].time <= aged

KnowsInv ==
    InRun =>
      /\ \A s \in Source : found[s] \in {Unscanned, Includes[disk[s].content]}
      /\ \A t \in Target : Known(t) => kids[t] = RealKids(t)
      /\ \A f \in stored : Exists(f) /\ ninfo[f].time = disk[f].time
      /\ options.decider # "MD5-timestamp" =>
           \A f \in stored : ninfo[f].csig \in {None, disk[f].content} \/ Old(f)
      /\ options.decider = "timestamp-newer" =>
           \A t \in Target \cap stored : \A c \in ToSet(kids[t]) : disk[c].time <= disk[t].time
      /\ options.decider = "content" =>
           \A t \in Target : t \in stored \/ (Busy /\ t = Node) => Asked(t)

----------------------------------------------------------------------------
(* Nothing twice: d has, of every target, what the next run will ask for.  *)

Agrees(d, t, i) ==
    LET c   == RealKids(t)[i]
        was == d[t].sigs[i]
    IN  /\ was.time = disk[c].time
        /\ options.decider = "timestamp-newer" => disk[c].time <= disk[t].time
        /\ options.decider = "content" =>
             /\ was.csig = d[c].csig /\ d[c].csig # None /\ d[c].time = disk[c].time
             /\ d[c].csig = disk[c].content \/ Old(c)

Matching(d) ==
    \A t \in Target :
        /\ Exists(t) /\ d[t].act = flags /\ Len(d[t].sigs) = Len(RealKids(t))
        /\ \A i \in DOMAIN RealKids(t) : Agrees(d, t, i)

SettledInv ==
    /\ settled => Matching(db)
    /\ repeated /\ InRun =>
         /\ ~Busy /\ Matching(known)
         /\ options.decider = "content" =>
              \A t \in Target : \A c \in ToSet(RealKids(t)) \cap stored : Csig(c) = known[c].csig

----------------------------------------------------------------------------
(* The cache.  A signature is that of the content unless the file was       *)
(* edited since, is taken from .sconsign for being old, or was believed     *)
(* for its timestamp.                                                      *)

HonestOptions == options.cache => ~options.midway /\ ~options.drift /\ options.decider # "MD5-timestamp"

CacheInv ==
    /\ CacheHonest
    /\ undisturbed \/ options.midway
    /\ options.cache /\ pc = "act" => output = BuildSig(Node)

----------------------------------------------------------------------------
(* Fresh: what .sconsign says of a file is true of it.                     *)

CompleteOptions ==
    /\ options.decider = "content" /\ ~options.midway /\ ~options.kills /\ ~options.stops
    /\ ~(options.drift /\ options.cache)

TrueOfTarget(d, t) ==
    /\ DOMAIN d[t].sigs = 1..Len(d[t].sigs)
    /\ Exists(t) => /\ d[t].csig \in {None, disk[t].content}
                    /\ d[t].act # "none" => disk[t].content =
                           Made(t, d[t].act, [i \in DOMAIN d[t].sigs |-> d[t].sigs[i].csig])
TrueOfSource(d, s) ==
    /\ d[s].time \in 0..now
    /\ d[s].csig # None /\ d[s].time = disk[s].time => d[s].csig = disk[s].content

Handled(t) == t \in stored \/ (Busy /\ t = Node)

RememberedInv ==
    /\ status = 0
    /\ pc = "off" => /\ \A t \in Target : TrueOfTarget(db, t)
                     /\ \A s \in Source : TrueOfSource(db, s)
    /\ pc # "off" => /\ \A t \in Target : ~Handled(t) => TrueOfTarget(known, t)
                     /\ \A s \in Source : TrueOfSource(known, s)
                     /\ \A f \in stored : ninfo[f].csig \in {None, disk[f].content}
                     /\ \A t \in Target \cap stored :
                          /\ disk[t].content = Compiled(t)
                          /\ ninfo[t].csig = None => known[t].csig \in {None, disk[t].content}
    /\ pc \in {"copy", "act"} => output = Compiled(Node)

----------------------------------------------------------------------------
(* Sequences of files.                                                     *)

LEMMA SetToSeqType ==
  ASSUME NEW S, IsFiniteSet(S)
  PROVE  SetToSeq(S) \in Seq(S)
<1>1. Cardinality(S) \in Nat /\ ExistsBijection(1..Cardinality(S), S)
  BY FS_CardinalityType
<1>2. \E f \in [1..Cardinality(S) -> S] : IsInjective(f)
  BY <1>1 DEF ExistsBijection, Bijection, Injection
<1>3. SetToSeq(S) \in [1..Cardinality(S) -> S]
  BY <1>2 DEF SetToSeq
<1> QED  BY <1>1, <1>3

LEMMA ToSetConcat ==
  ASSUME NEW S, NEW a \in Seq(S), NEW b \in Seq(S)
  PROVE  a \o b \in Seq(S) /\ ToSet(a \o b) = ToSet(a) \cup ToSet(b)
<1>1. /\ a \o b \in Seq(S) /\ Len(a \o b) = Len(a) + Len(b)
      /\ \A i \in 1..(Len(a) + Len(b)) : (a \o b)[i] = IF i <= Len(a) THEN a[i] ELSE b[i - Len(a)]
  OBVIOUS
<1>2. ASSUME NEW x \in ToSet(a) PROVE x \in ToSet(a \o b)
  BY <1>1, <1>2 DEF ToSet
<1>3. ASSUME NEW x \in ToSet(b) PROVE x \in ToSet(a \o b)
  <2>1. PICK i \in 1..Len(b) : x = b[i]
    BY <1>3 DEF ToSet
  <2>2. Len(a) + i \in 1..Len(a \o b) /\ (a \o b)[Len(a) + i] = x
    BY <1>1, <2>1
  <2> QED  BY <1>1, <2>2 DEF ToSet
<1>4. ASSUME NEW x \in ToSet(a \o b) PROVE x \in ToSet(a) \cup ToSet(b)
  <2>1. PICK i \in 1..(Len(a) + Len(b)) : x = (a \o b)[i]
    BY <1>1, <1>4 DEF ToSet
  <2>2. CASE i <= Len(a)
    BY <1>1, <2>1, <2>2 DEF ToSet
  <2>3. CASE i > Len(a)
    BY <1>1, <2>1, <2>3 DEF ToSet
  <2> QED  BY <2>1, <2>2, <2>3
<1> QED  BY <1>1, <1>2, <1>3, <1>4

----------------------------------------------------------------------------
(* The order of the targets, and their children.                           *)

LEMMA RankOrder ==
  /\ Rank \in [Target -> 1..Cardinality(Target)]
  /\ \A t \in Target : \A u \in Target \cap ToSet(Explicit[t]) : Rank[u] < Rank[t]
BY NoCycle DEF Rank

LEMMA RankNat == \A t \in Target : Rank[t] \in Nat
<1>1. Cardinality(Target) \in Nat
  BY FileAssumption, FS_CardinalityType
<1> QED  BY <1>1, RankOrder

LEMMA ExplicitFiles == \A t \in Target : Explicit[t] \in Seq(File) /\ ToSet(Explicit[t]) \subseteq File
BY FileAssumption DEF File, ToSet

LEMMA ChildrenType ==
  ASSUME NEW t \in Target, NEW includes,
         \A s \in Source \cap ToSet(Explicit[t]) : includes[s] \subseteq Source
  PROVE  ChildrenOf(t, Children(t, includes))
<1> DEFINE I == UNION {includes[s] : s \in Source \cap ToSet(Explicit[t])}
<1>1. I \subseteq Source
  OBVIOUS
<1>2. IsFiniteSet(I)
  BY <1>1, FileAssumption, FS_Subset
<1>3. SetToSeq(I) \in Seq(I)
  BY <1>2, SetToSeqType
<1>4. SetToSeq(I) \in Seq(File) /\ ToSet(SetToSeq(I)) \subseteq Source
  BY <1>1, <1>3 DEF File, ToSet
<1>5. Explicit[t] \in Seq(File)
  BY ExplicitFiles
<1>6. Children(t, includes) = Explicit[t] \o SetToSeq(I)
  BY DEF Children
<1> HIDE DEF I
<1>7. /\ Children(t, includes) \in Seq(File)
      /\ ToSet(Children(t, includes)) = ToSet(Explicit[t]) \cup ToSet(SetToSeq(I))
  BY <1>4, <1>5, <1>6, ToSetConcat
<1> QED  BY <1>4, <1>7 DEF ChildrenOf

LEMMA ChildrenSame ==
  ASSUME NEW t, NEW f, NEW g, \A s \in Source \cap ToSet(Explicit[t]) : f[s] = g[s]
  PROVE  Children(t, f) = Children(t, g)
<1>1. {f[s] : s \in Source \cap ToSet(Explicit[t])} = {g[s] : s \in Source \cap ToSet(Explicit[t])}
  OBVIOUS
<1> QED  BY <1>1 DEF Children

LEMMA ChildrenLower ==
  ASSUME NEW t \in Target, NEW children, ChildrenOf(t, children)
  PROVE  /\ \A c \in ToSet(children) : c \in File /\ Lower(c, t)
         /\ t \notin ToSet(children)
<1>1. \A c \in ToSet(children) : c \in File
  BY ExplicitFiles DEF ChildrenOf, File
<1>2. \A c \in ToSet(children) : c \in Target => c \in ToSet(Explicit[t])
  BY FileAssumption DEF ChildrenOf
<1>3. \A c \in ToSet(children) : c \in Target => Rank[c] < Rank[t]
  BY <1>2, RankOrder
<1> QED  BY <1>1, <1>3, RankNat DEF Lower


----------------------------------------------------------------------------
(* DiskOK and RunOK.                                                       *)

LEMMA SourceContents ==
  ASSUME DiskOK
  PROVE  \A s \in Source : disk[s].content # None /\ Includes[disk[s].content] \subseteq Source
BY FileAssumption DEF DiskOK, Versions, None

LEMMA RealKidsType ==
  ASSUME DiskOK, NEW t \in Target
  PROVE  ChildrenOf(t, RealKids(t))
<1> DEFINE includes == [s \in Source |-> Includes[disk[s].content]]
<1>1. \A s \in Source \cap ToSet(Explicit[t]) : includes[s] \subseteq Source
  BY SourceContents
<1> HIDE DEF includes
<1>2. ChildrenOf(t, Children(t, includes))
  BY <1>1, ChildrenType
<1> QED  BY <1>2 DEF RealKids, includes

\* What an action makes is something.
LEMMA MadeSome ==
  ASSUME NEW t, NEW fl, NEW S, NEW inputs \in Seq(S)
  PROVE  Made(t, fl, inputs) # None
<1> DEFINE A == {t, <<fl>>} \cup S
<1>1. <<t, <<fl>>>> \in Seq(A) /\ inputs \in Seq(A)
  OBVIOUS
<1>2. Len(Made(t, fl, inputs)) = 2 + Len(inputs)
  BY <1>1 DEF Made
<1> QED  BY <1>2 DEF None

LEMMA CompiledSome ==
  ASSUME DiskOK, NEW t \in Target
  PROVE  Compiled(t) # None
<1> DEFINE inputs == [i \in DOMAIN RealKids(t) |-> disk[RealKids(t)[i]].content]
<1>1. RealKids(t) \in Seq(File)
  BY RealKidsType DEF ChildrenOf
<1>2. inputs \in Seq({disk[f].content : f \in File})
  BY <1>1
<1> HIDE DEF inputs
<1>3. Made(t, flags, inputs) # None
  BY <1>2, MadeSome
<1> QED  BY <1>3 DEF Compiled, inputs

LEMMA PartialSome == \A t : Partial(t) # None
<1>1. \A t : Len(Partial(t)) = 2
  BY DEF Partial
<1> QED  BY <1>1 DEF None

LEMMA HeadFile ==
  ASSUME RunOK, todo # <<>>
  PROVE  Node \in File /\ Node = todo[1] /\ Tail(todo) \in Seq(File)
BY DEF RunOK, Node

LEMMA DiskInit == Init => DiskOK
<1> SUFFICES ASSUME Init PROVE DiskOK
  OBVIOUS
<1>1. \A s \in Source : Contents[s][1] \in Versions(s)
  BY FileAssumption DEF Versions
<1>2. /\ \A f \in File : disk[f].time \in 0..now
      /\ \A s \in Source : disk[s].content \in Versions(s)
      /\ \A t \in Target : disk[t] = Gone
  BY <1>1, FileAssumption DEF Init, File, Gone
<1> QED  BY <1>2 DEF Init, DiskOK

\* The steps that leave disk, cache and clock alone, and those that write the
\* file at hand.
LEMMA DiskStays ==
  ASSUME DiskOK, UNCHANGED <<world, disk, cache, aged>>
  PROVE  DiskOK'
BY DEF DiskOK, world, Versions, File

LEMMA DiskWrites ==
  ASSUME DiskOK, UNCHANGED <<world, aged>>, NEW t \in Target, NEW file,
         file = Gone \/ (file.content # None /\ file.time \in 1..now),
         disk' = [disk EXCEPT ![t] = file],
         \A k \in DOMAIN cache' : cache'[k].time \in 1..now /\ cache'[k].content # None
  PROVE  DiskOK'
<1>1. t \in File /\ t \notin Source
  BY FileAssumption DEF File
<1>2. \A f \in File : disk'[f] = IF f = t THEN file ELSE disk[f]
  BY <1>1 DEF DiskOK
<1>3. file.time \in 0..now
  BY DEF Gone, DiskOK
<1>4. \A f \in File : disk'[f].time \in 0..now
  BY <1>2, <1>3 DEF DiskOK
<1>5. /\ \A s \in Source : disk'[s].content \in Versions(s)
      /\ \A u \in Target : disk'[u] = Gone \/ disk'[u].content # None
  BY <1>1, <1>2 DEF DiskOK, File
<1>6. disk' = [f \in File |-> disk'[f]]
  BY DEF DiskOK
<1> QED  BY <1>4, <1>5, <1>6 DEF DiskOK, world, Versions, File


----------------------------------------------------------------------------
(* WalkInv, for each thing a step may do to the list of nodes to look at.  *)

LEMMA KnownSequence ==
  ASSUME NEW t, NEW children, ChildrenOf(t, children)
  PROVE  children # Unknown
<1>1. "unknown" \notin File
  BY FileAssumption DEF File
<1> QED  BY <1>1 DEF ChildrenOf, Unknown

\* A target that is about to be decided on has all its children behind it.
LEMMA KidsStored ==
  ASSUME RunOK, WalkInv, todo # <<>>, Node \in Target \ stored, Known(Node)
  PROVE  ToSet(kids[Node]) \subseteq stored
<1>1. 1 \in DOMAIN todo /\ todo[1] = Node
  BY DEF RunOK, Node
<1>2. Covered(Node, 1)
  BY <1>1 DEF WalkInv, Waits
<1> QED  BY <1>2 DEF Covered

LEMMA WalkKeeps ==
  ASSUME WalkInv, UNCHANGED <<todo, kids, stored>>, pc' # "off" => pc # "off"
  PROVE  WalkInv'
BY DEF WalkInv, Waits, Known, Behind, Covered, Lower, InWalk

LEMMA WalkPops ==
  ASSUME RunOK, WalkInv, pc # "off", todo # <<>>, todo' = Tail(todo), kids' = kids,
         stored' = stored \cup {Node},
         Node \in Target => Known(Node) /\ ToSet(kids[Node]) \subseteq stored
  PROVE  WalkInv'
<1>1. /\ todo \in Seq(File) /\ Len(todo) \in Nat \ {0} /\ todo' \in Seq(File) /\ Len(todo') = Len(todo) - 1
      /\ Node = todo[1] /\ \A i \in 1..Len(todo') : todo'[i] = todo[i + 1]
  BY DEF RunOK, Node
<1>2. DOMAIN todo = 1..Len(todo) /\ DOMAIN todo' = 1..Len(todo')
  BY <1>1
<1>3. ASSUME NEW t \in Target, Waits(t)' PROVE Waits(t) /\ t # Node
  BY <1>3 DEF Waits, Known
<1>4. ASSUME NEW t \in Target, Waits(t)'
      PROVE  \E i \in DOMAIN todo' : Behind(t, i)'
  <2>1. PICK i \in 1..Len(todo) : Behind(t, i)
    BY <1>2, <1>3, <1>4 DEF WalkInv
  <2>2. i # 1
    BY <1>1, <1>3, <1>4, <2>1 DEF Behind
  <2>3. i - 1 \in 1..Len(todo') /\ todo'[i - 1] = t
    BY <1>1, <2>1, <2>2 DEF Behind
  <2>4. \A j \in 1..((i - 1) - 1) : Lower(todo'[j], t)
    BY <1>1, <2>1, <2>2 DEF Behind
  <2> QED  BY <1>2, <2>3, <2>4 DEF Behind, Lower
<1>5. ASSUME NEW t \in Target, Waits(t)', NEW i \in DOMAIN todo', todo'[i] = t
      PROVE  Covered(t, i)'
  <2>1. i \in 1..Len(todo') /\ i + 1 \in DOMAIN todo /\ todo[i + 1] = t
    BY <1>1, <1>2, <1>5
  <2>2. Covered(t, i + 1)
    BY <1>3, <1>5, <2>1 DEF WalkInv
  <2>3. ASSUME NEW c \in ToSet(kids[t]), c \notin stored'
        PROVE  \E j \in 1..(i - 1) : todo'[j] = c
    <3>1. PICK j \in 1..i : todo[j] = c
      BY <2>1, <2>2, <2>3 DEF Covered
    <3>2. j # 1
      BY <1>1, <2>3, <3>1
    <3>3. j - 1 \in 1..(i - 1) /\ todo'[j - 1] = c
      BY <1>1, <2>1, <3>1, <3>2
    <3> QED  BY <3>3
  <2> QED  BY <2>3 DEF Covered
<1>6. \A t \in Target \cap stored' : Known(t)' /\ ToSet(kids'[t]) \subseteq stored'
  BY DEF WalkInv, Known
<1>7. ASSUME NEW f, InWalk(f) PROVE InWalk(f)'
  <2>1. CASE f \in stored \/ f = Node
    BY <2>1 DEF InWalk
  <2>2. CASE f # Node /\ \E i \in DOMAIN todo : todo[i] = f
    <3>1. PICK i \in 1..Len(todo) : todo[i] = f
      BY <1>2, <2>2
    <3>2. i - 1 \in 1..Len(todo') /\ todo'[i - 1] = f
      BY <1>1, <2>2, <3>1
    <3> QED  BY <1>2, <3>2 DEF InWalk
  <2> QED  BY <1>7, <2>1, <2>2 DEF InWalk
<1>8. ASSUME NEW f, InWalk(f)' PROVE InWalk(f)
  <2>1. 1 \in DOMAIN todo /\ todo[1] = Node
    BY <1>1, <1>2
  <2>2. CASE f \in stored'
    BY <2>1, <2>2 DEF InWalk
  <2>3. CASE \E i \in DOMAIN todo' : todo'[i] = f
    <3>1. PICK i \in 1..Len(todo') : todo'[i] = f
      BY <1>2, <2>3
    <3>2. i + 1 \in DOMAIN todo /\ todo[i + 1] = f
      BY <1>1, <1>2, <3>1
    <3> QED  BY <3>2 DEF InWalk
  <2> QED  BY <1>8, <2>2, <2>3 DEF InWalk
<1>9. InWalk(Goal)' /\ \A s \in Source : InWalk(s)' => \E t \in Target : Known(t)' /\ s \in ToSet(kids'[t])
  BY <1>7, <1>8 DEF WalkInv, Known
<1> QED  BY <1>4, <1>5, <1>6, <1>9 DEF WalkInv

LEMMA WalkScans ==
  ASSUME RunOK, WalkInv, pc # "off", todo # <<>>, Node \in Target \ stored, kids[Node] = Unknown,
         NEW K, ChildrenOf(Node, K), kids' = [kids EXCEPT ![Node] = K], todo' = K \o todo, stored' = stored
  PROVE  WalkInv'
<1> DEFINE n == Len(K)
<1>1. K \in Seq(File) /\ todo \in Seq(File) /\ n \in Nat /\ Len(todo) \in Nat \ {0}
  BY DEF RunOK, ChildrenOf
<1>2. /\ todo' \in Seq(File) /\ Len(todo') = n + Len(todo) /\ todo[1] = Node
      /\ \A i \in 1..Len(todo') : todo'[i] = IF i <= n THEN K[i] ELSE todo[i - n]
  BY <1>1 DEF Node
<1>3. DOMAIN K = 1..n /\ DOMAIN todo = 1..Len(todo) /\ DOMAIN todo' = 1..Len(todo')
  BY <1>1, <1>2
<1>4. \A t \in Target : kids'[t] = IF t = Node THEN K ELSE kids[t]
  BY DEF RunOK
<1>5. (\A i \in 1..n : K[i] \in File /\ Lower(K[i], Node)) /\ Node \notin ToSet(K) /\ K # Unknown
  BY <1>3, ChildrenLower, KnownSequence DEF ToSet
<1> HIDE DEF n
<1>6. \A i \in 1..Len(todo) : n + i \in DOMAIN todo' /\ todo'[n + i] = todo[i]
  BY <1>1, <1>2, <1>3
<1>7. \A i \in 1..n : i \in DOMAIN todo' /\ todo'[i] = K[i]
  BY <1>1, <1>2, <1>3
<1>8. \A t \in Target : Waits(t)' => (t = Node \/ (Waits(t) /\ t # Node))
  BY <1>4 DEF Waits, Known
<1>9. ASSUME NEW t \in Target, Waits(t)', t # Node
      PROVE  /\ Lower(Node, t)
             /\ \E i \in 2..Len(todo) : Behind(t, i)
  <2>1. PICK i \in 1..Len(todo) : Behind(t, i)
    BY <1>3, <1>8, <1>9 DEF WalkInv
  <2>2. i # 1
    BY <1>2, <1>9, <2>1 DEF Behind
  <2> QED  BY <1>1, <1>2, <2>1, <2>2 DEF Behind
<1>10. ASSUME NEW t \in Target, Waits(t)'
       PROVE  \E i \in DOMAIN todo' : Behind(t, i)'
  <2>1. CASE t = Node
    <3>1. n + 1 \in DOMAIN todo' /\ todo'[n + 1] = t
      BY <1>1, <1>2, <1>6, <2>1
    <3>2. \A j \in 1..n : Lower(todo'[j], t)
      BY <1>5, <1>7, <2>1
    <3>3. (n + 1) - 1 = n
      BY <1>1
    <3>4. \A j \in 1..((n + 1) - 1) : Lower(todo'[j], t)
      BY <3>2, <3>3
    <3> QED  BY <3>1, <3>4 DEF Behind, Lower
  <2>2. CASE t # Node
    <3>1. PICK i \in 2..Len(todo) : Behind(t, i)
      BY <1>9, <1>10, <2>2
    <3>2. n + i \in DOMAIN todo' /\ todo'[n + i] = t
      BY <1>1, <1>6, <3>1 DEF Behind
    <3>3. ASSUME NEW j \in 1..((n + i) - 1) PROVE Lower(todo'[j], t)
      <4>1. CASE j <= n
        <5>1. todo'[j] = K[j] /\ Lower(K[j], Node)
          BY <1>1, <1>5, <1>7, <4>1
        <5>2. Lower(Node, t)
          BY <1>9, <1>10, <2>2
        <5>3. \A u \in Target : Rank[u] \in Nat
          BY RankNat
        <5> QED  BY <5>1, <5>2, <5>3 DEF Lower
      <4>2. CASE j > n
        <5>1. todo'[j] = todo[j - n] /\ j - n \in 1..(i - 1)
          BY <1>1, <1>2, <3>1, <4>2
        <5> QED  BY <3>1, <5>1 DEF Behind
      <4>3. j <= n \/ j > n
        BY <1>1, <3>1
      <4> QED  BY <4>1, <4>2, <4>3
    <3> QED  BY <3>2, <3>3 DEF Behind, Lower
  <2> QED  BY <2>1, <2>2
<1>11. ASSUME NEW t \in Target, Waits(t)', NEW i \in DOMAIN todo', todo'[i] = t
       PROVE  Covered(t, i)'
  <2>1. i > n
    <3>1. CASE t = Node
      BY <1>1, <1>2, <1>3, <1>5, <1>11, <3>1 DEF ToSet
    <3>2. CASE t # Node
      <4>1. Lower(Node, t)
        BY <1>9, <1>11, <3>2
      <4>2. i <= n => Lower(t, Node)
        BY <1>1, <1>2, <1>3, <1>5, <1>11
      <4>3. Rank[t] \in Nat /\ Rank[Node] \in Nat
        BY RankNat
      <4> QED  BY <1>1, <1>3, <4>1, <4>2, <4>3 DEF Lower
    <3> QED  BY <3>1, <3>2
  <2>2. ASSUME NEW c \in ToSet(kids'[t]), c \notin stored
        PROVE  \E j \in 1..(i - 1) : todo'[j] = c
    <3>1. CASE t = Node
      <4>1. PICK j \in 1..n : K[j] = c
        BY <1>3, <1>4, <2>2, <3>1 DEF ToSet
      <4> QED  BY <1>1, <1>3, <1>7, <2>1, <4>1
    <3>2. CASE t # Node
      <4>1. i - n \in DOMAIN todo /\ todo[i - n] = t
        BY <1>1, <1>2, <1>3, <1>11, <2>1
      <4>2. Covered(t, i - n)
        BY <1>8, <1>11, <3>2, <4>1 DEF WalkInv
      <4>3. PICK j \in 1..((i - n) - 1) : todo[j] = c
        BY <1>4, <2>2, <3>2, <4>2 DEF Covered
      <4>4. n + j \in 1..(i - 1) /\ todo'[n + j] = c
        BY <1>1, <1>2, <1>3, <1>6, <4>1, <4>3
      <4> QED  BY <4>4
    <3> QED  BY <3>1, <3>2
  <2> QED  BY <2>2 DEF Covered
<1>12. \A t \in Target \cap stored' : Known(t)' /\ ToSet(kids'[t]) \subseteq stored'
  BY <1>4 DEF WalkInv, Known
<1>13. \A f : InWalk(f) => InWalk(f)'
  BY <1>3, <1>6 DEF InWalk
<1>14. ASSUME NEW s \in Source, InWalk(s)'
       PROVE  \E t \in Target : Known(t)' /\ s \in ToSet(kids'[t])
  <2>1. InWalk(s) \/ s \in ToSet(K)
    BY <1>1, <1>2, <1>3, <1>14 DEF InWalk, ToSet
  <2>2. CASE s \in ToSet(K)
    BY <1>4, <1>5, <2>2 DEF Known
  <2>3. CASE InWalk(s)
    <3>1. PICK t \in Target : Known(t) /\ s \in ToSet(kids[t])
      BY <2>3 DEF WalkInv
    <3> QED  BY <1>4, <3>1 DEF Known
  <2> QED  BY <2>1, <2>2, <2>3
<1> QED  BY <1>10, <1>11, <1>12, <1>13, <1>14 DEF WalkInv

LEMMA WalkStarts ==
  ASSUME RunOK, pc = "off", todo' = <<Goal>>, UNCHANGED <<kids, stored>>
  PROVE  WalkInv'
<1>1. stored' = {} /\ \A t \in Target : kids'[t] = Unknown
  BY DEF RunOK
<1>2. DOMAIN todo' = {1} /\ todo'[1] = Goal
  OBVIOUS
<1>3. \A s \in Source : s # Goal
  BY FileAssumption, GoalAssumption
<1> QED  BY <1>1, <1>2, <1>3 DEF WalkInv, Waits, Known, InWalk

LEMMA WalkEnds ==
  ASSUME ProcessEnds
  PROVE  WalkInv'
<1>1. stored' = {} /\ pc' = "off" /\ \A t \in Target : kids'[t] = Unknown
  BY DEF ProcessEnds
<1> QED  BY <1>1 DEF WalkInv, Waits, Known


LEMMA ScanKids ==
  ASSUME DiskOK, RunOK, Scan
  PROVE  /\ \A s \in Source : found'[s] = Unscanned \/ found'[s] \subseteq Source
         /\ ChildrenOf(Node, Children(Node, found'))
<1>1. Node \in Target /\ \A s \in Source : found'[s] = IF s \in ToSet(Explicit[Node]) /\ found[s] = Unscanned
                                                       THEN Includes[disk[s].content] ELSE found[s]
  BY DEF Scan
<1>2. \A s \in Source : Includes[disk[s].content] \subseteq Source
  BY SourceContents
<1>3. \A s \in Source : found[s] = Unscanned \/ found[s] \subseteq Source
  BY DEF RunOK
<1>4. \A s \in Source \cap ToSet(Explicit[Node]) : found'[s] \subseteq Source
  BY <1>1, <1>2, <1>3
<1>5. \A s \in Source : found'[s] = Unscanned \/ found'[s] \subseteq Source
  BY <1>1, <1>2, <1>3
<1> QED  BY <1>1, <1>4, <1>5, ChildrenType

Sound == DiskOK /\ RunOK /\ WalkInv

LEMMA WalkNext ==
  ASSUME Sound, Next
  PROVE  WalkInv'
<1>1. DiskOK /\ RunOK /\ WalkInv
  BY DEF Sound
<1>2. CASE Start
  BY <1>1, <1>2, WalkStarts DEF Start
<1>3. CASE SkipHandled
  <2>1. Node \in Target => Known(Node) /\ ToSet(kids[Node]) \subseteq stored
    BY <1>1, <1>3 DEF SkipHandled, WalkInv
  <2>2. stored' = stored \cup {Node} /\ kids' = kids /\ pc # "off" /\ todo # <<>> /\ todo' = Tail(todo)
    BY <1>3 DEF SkipHandled, run
  <2> QED  BY <1>1, <2>1, <2>2, WalkPops
<1>4. CASE VisitSource
  <2>1. stored' = stored \cup {Node} /\ kids' = kids /\ pc # "off" /\ todo # <<>> /\ todo' = Tail(todo)
        /\ Node \notin Target
    BY <1>4, FileAssumption DEF VisitSource, Looking, run
  <2> QED  BY <1>1, <2>1, WalkPops
<1>5. CASE FindCurrent
  <2>1. stored' = stored \cup {Node} /\ kids' = kids /\ pc # "off" /\ todo # <<>> /\ todo' = Tail(todo)
        /\ Node \in Target \ stored /\ Known(Node)
    BY <1>5 DEF FindCurrent, Deciding, Looking, run, Known
  <2> QED  BY <1>1, <2>1, KidsStored, WalkPops
<1>6. CASE Copied \/ Acted
  <2>1. stored' = stored \cup {Node} /\ kids' = kids /\ pc # "off" /\ todo' = Tail(todo) /\ Busy
    BY <1>6 DEF Copied, Acted, Built, run, Busy
  <2>2. todo # <<>> /\ Node \in Target \ stored /\ Known(Node)
    BY <1>1, <2>1 DEF RunOK, Known
  <2> QED  BY <1>1, <2>1, <2>2, KidsStored, WalkPops
<1>7. CASE Scan
  <2> DEFINE K == Children(Node, found')
  <2>1. /\ pc # "off" /\ todo # <<>> /\ Node \in Target \ stored /\ kids[Node] = Unknown
        /\ kids' = [kids EXCEPT ![Node] = K] /\ todo' = K \o todo /\ stored' = stored
    BY <1>7 DEF Scan, Looking, Ahead
  <2>2. ChildrenOf(Node, K)
    BY <1>1, <1>7, ScanKids
  <2> HIDE DEF K
  <2> QED  BY <1>1, <2>1, <2>2, WalkScans
<1>8. CASE FindChanged \/ Begin \/ Failed \/ Interrupted \/ WalkOver \/ UnlinkDb
  <2>1. UNCHANGED <<todo, kids, stored>> /\ pc # "off"
    BY <1>8 DEF FindChanged, Begin, Failed, Interrupted, WalkOver, UnlinkDb, run, Deciding, Looking
  <2> QED  BY <1>1, <2>1, WalkKeeps
<1>9. CASE RenameDb \/ Killed
  BY <1>9, WalkEnds DEF RenameDb, Killed
<1>10. CASE Edit \/ ChangeFlags \/ Delete \/ OthersPush
  <2>1. UNCHANGED <<todo, kids, stored, pc>>
    BY <1>10 DEF Edit, ChangeFlags, Delete, OthersPush, Disturb, run
  <2> QED  BY <1>1, <2>1, WalkKeeps
<1> QED  BY <1>2, <1>3, <1>4, <1>5, <1>6, <1>7, <1>8, <1>9, <1>10 DEF Next, RunStep


\* The children of a target at work: looked at, there, and not the target itself.
LEMMA KidContents ==
  ASSUME Sound, todo # <<>>, Node \in Target \ stored, Known(Node)
  PROVE  /\ ChildrenOf(Node, kids[Node]) /\ Node \notin ToSet(kids[Node])
         /\ \A c \in ToSet(kids[Node]) : c \in File /\ c \in stored /\ disk[c].content # None
<1>1. DiskOK /\ RunOK /\ WalkInv
  BY DEF Sound
<1>2. ChildrenOf(Node, kids[Node])
  BY <1>1 DEF RunOK, Known
<1>3. ToSet(kids[Node]) \subseteq stored
  BY <1>1, KidsStored
<1>4. \A s \in Source : disk[s].content # None
  BY <1>1, SourceContents
<1>5. \A t \in Target \cap stored : disk[t].content # None
  BY <1>1 DEF RunOK, DiskOK, Exists
<1> QED  BY <1>2, <1>3, <1>4, <1>5, ChildrenLower DEF File

\* The signature of a build depends on what has been noted of the children.
LEMMA SigStays ==
  ASSUME NEW t, Asked(t), UNCHANGED <<ninfo, kids, flags>>
  PROVE  Asked(t)' /\ BuildSig(t)' = BuildSig(t)
<1>1. \A i \in DOMAIN kids[t] : kids[t][i] \in ToSet(kids[t])
  BY DEF ToSet
<1>2. \A i \in DOMAIN kids[t] : Csig(kids[t][i])' = Csig(kids[t][i])
  BY <1>1 DEF Asked, Csig
<1>3. [i \in DOMAIN kids'[t] |-> Csig(kids[t][i])'] = [i \in DOMAIN kids[t] |-> Csig(kids[t][i])]
  BY <1>2
<1> QED  BY <1>3 DEF BuildSig, Asked

\* Time passes.
LEMMA DiskTicks ==
  ASSUME DiskOK, now' = now + 1, UNCHANGED <<options, disk, aged>>, flags' \in Flags,
         \A k \in DOMAIN cache' : cache'[k].time \in 1..now' /\ cache'[k].content # None
  PROVE  DiskOK'
<1>1. now' \in Nat \ {0} /\ aged' \in Nat /\ aged' < now' /\ (~options'.drift => aged' = 0)
  BY DEF DiskOK
<1>2. \A f \in File : disk'[f].time \in 0..now'
  BY DEF DiskOK
<1>3. \A s \in Source : disk'[s].content \in Versions(s)
  BY DEF DiskOK
<1>4. \A t \in Target : disk'[t] = Gone \/ disk'[t].content # None
  BY DEF DiskOK
<1>5. disk' = [f \in File |-> disk'[f]] /\ options' \in OptionSets
  BY DEF DiskOK
<1> QED  BY <1>1, <1>2, <1>3, <1>4, <1>5 DEF DiskOK, Versions, File

LEMMA DiskNext ==
  ASSUME Sound, Next
  PROVE  DiskOK'
<1>1. DiskOK /\ RunOK /\ WalkInv
  BY DEF Sound
<1>2. now \in Nat \ {0} /\ \A k \in DOMAIN cache : cache[k].time \in 1..now /\ cache[k].content # None
  BY <1>1 DEF DiskOK
<1>3. CASE SkipHandled \/ VisitSource \/ Scan \/ FindCurrent \/ Interrupted \/ WalkOver \/ UnlinkDb \/ RenameDb \/ Killed
  <2>1. UNCHANGED <<world, disk, cache, aged>>
    BY <1>3 DEF SkipHandled, VisitSource, Scan, FindCurrent, Interrupted, WalkOver, UnlinkDb, RenameDb, Killed, run
  <2> QED  BY <1>1, <2>1, DiskStays
<1>4. CASE Start
  <2>1. PICK old \in aged..(now - 1) : aged' = IF options.drift THEN old ELSE 0
    BY <1>4 DEF Start
  <2>2. aged' \in Nat /\ aged' < now /\ (~options.drift => aged' = 0)
    BY <1>1, <2>1 DEF DiskOK
  <2>3. UNCHANGED <<world, disk, cache>>
    BY <1>4 DEF Start
  <2> QED  BY <1>1, <2>2, <2>3 DEF DiskOK, world, Versions, File
<1>5. CASE FindChanged
  <2>1. UNCHANGED <<world, aged, cache>> /\ disk' = [disk EXCEPT ![Node] = Gone] /\ Node \in Target
    BY <1>5 DEF FindChanged, Deciding, run
  <2> QED  BY <1>1, <1>2, <2>1, DiskWrites
<1>6. CASE Begin
  <2> DEFINE file == [content |-> Partial(Node), time |-> now]
  <2>1. UNCHANGED <<world, aged, cache>> /\ disk' = [disk EXCEPT ![Node] = file] /\ Busy
    BY <1>6 DEF Begin, run, Busy
  <2>2. Node \in Target
    BY <1>1, <2>1 DEF RunOK
  <2>3. file.content # None /\ file.time \in 1..now
    BY <1>2, PartialSome
  <2> HIDE DEF file
  <2> QED  BY <1>1, <1>2, <2>1, <2>2, <2>3, DiskWrites
<1>7. CASE Copied
  <2>1. PICK time \in {now, cache[BuildSig(Node)].time} : Built(output, time)
    BY <1>7 DEF Copied
  <2> DEFINE file == [content |-> output, time |-> time]
  <2>2. UNCHANGED <<world, aged, cache>> /\ disk' = [disk EXCEPT ![Node] = file] /\ Busy /\ pc = "copy"
    BY <1>7, <2>1 DEF Copied, Built, run, Busy
  <2>3. Node \in Target /\ BuildSig(Node) \in DOMAIN cache /\ output = cache[BuildSig(Node)].content
    BY <1>1, <2>2 DEF RunOK
  <2>4. file.content # None /\ file.time \in 1..now
    BY <1>2, <2>1, <2>3
  <2> HIDE DEF file
  <2> QED  BY <1>1, <1>2, <2>2, <2>3, <2>4, DiskWrites
<1>8. CASE Acted
  <2> DEFINE file == [content |-> output, time |-> now]
             key  == BuildSig(Node)
  <2>1. UNCHANGED <<world, aged>> /\ disk' = [disk EXCEPT ![Node] = file] /\ Busy /\ pc = "act"
    BY <1>8 DEF Acted, Built, run, Busy
  <2>2. Node \in Target /\ output # None
    BY <1>1, <2>1 DEF RunOK
  <2>3. file.content # None /\ file.time \in 1..now
    BY <1>2, <2>2
  <2>4. cache' = cache \/ cache' = [k \in DOMAIN cache \cup {key} |-> IF k = key THEN file ELSE cache[k]]
    BY <1>8 DEF Acted
  <2> HIDE DEF file, key
  <2>5. \A k \in DOMAIN cache' : cache'[k].time \in 1..now /\ cache'[k].content # None
    BY <1>2, <2>3, <2>4
  <2> QED  BY <1>1, <2>1, <2>2, <2>3, <2>5, DiskWrites
<1>9. CASE Failed
  <2>1. PICK left \in {disk[Node], Gone} : disk' = [disk EXCEPT ![Node] = left]
    BY <1>9 DEF Failed
  <2>2. UNCHANGED <<world, aged, cache>> /\ Busy
    BY <1>9 DEF Failed, run, Busy
  <2>3. Node \in Target
    BY <1>1, <2>2 DEF RunOK
  <2>4. left = Gone \/ disk' = disk
    BY <1>1, <2>1 DEF DiskOK
  <2>5. CASE left = Gone
    BY <1>1, <1>2, <2>1, <2>2, <2>3, <2>5, DiskWrites
  <2>6. CASE disk' = disk
    BY <1>1, <2>2, <2>6, DiskStays
  <2> QED  BY <2>4, <2>5, <2>6
<1>10. CASE Edit
  <2>1. PICK s \in Source : \E i \in DOMAIN Contents[s] :
           disk' = [disk EXCEPT ![s] = [content |-> Contents[s][i], time |-> now']]
    BY <1>10 DEF Edit
  <2>0. PICK i \in DOMAIN Contents[s] : disk' = [disk EXCEPT ![s] = [content |-> Contents[s][i], time |-> now']]
    BY <2>1
  <2>2. now' = now + 1 /\ UNCHANGED <<options, flags, aged, cache>>
    BY <1>10 DEF Edit, Disturb, run
  <2>3. s \in File /\ s \notin Target
    BY FileAssumption DEF File
  <2>4. \A f \in File : disk'[f] = IF f = s THEN [content |-> Contents[s][i], time |-> now'] ELSE disk[f]
    BY <1>1, <2>0 DEF DiskOK
  <2>5. disk' = [f \in File |-> disk'[f]] /\ \A f \in File : disk'[f].time \in 0..now'
    BY <1>1, <1>2, <2>0, <2>2, <2>4 DEF DiskOK
  <2>6. \A f \in Source : disk'[f].content \in Versions(f)
    <3>1. Contents[s][i] \in Versions(s)
      BY DEF Versions
    <3>2. \A f \in Source : f \in File /\ disk[f].content \in Versions(f)
      BY <1>1 DEF DiskOK, File
    <3> QED  BY <2>4, <3>1, <3>2
  <2>7. \A t \in Target : disk'[t] = Gone \/ disk'[t].content # None
    BY <1>1, <2>3, <2>4 DEF DiskOK, File
  <2>8. \A k \in DOMAIN cache' : cache'[k].time \in 1..now' /\ cache'[k].content # None
    BY <1>2, <2>2
  <2> QED  BY <1>1, <2>2, <2>5, <2>6, <2>7, <2>8 DEF DiskOK, Versions, File
<1>11. CASE ChangeFlags
  <2>1. now' = now + 1 /\ UNCHANGED <<options, disk, aged, cache>> /\ flags' \in Flags
    BY <1>11 DEF ChangeFlags, Disturb, run
  <2>2. \A k \in DOMAIN cache' : cache'[k].time \in 1..now' /\ cache'[k].content # None
    BY <1>2, <2>1
  <2> QED  BY <1>1, <2>1, <2>2, DiskTicks
<1>12. CASE Delete
  <2>1. PICK t \in Target : disk' = [disk EXCEPT ![t] = Gone]
    BY <1>12 DEF Delete
  <2>2. UNCHANGED <<world, aged, cache>>
    BY <1>12 DEF Delete, Disturb, run, world
  <2> QED  BY <1>1, <1>2, <2>1, <2>2, DiskWrites
<1>13. CASE OthersPush
  <2>1. PICK t \in Target :
           cache' = [k \in DOMAIN cache \cup {Compiled(t)} |->
                        IF k = Compiled(t) THEN [content |-> Compiled(t), time |-> now'] ELSE cache[k]]
    BY <1>13 DEF OthersPush
  <2>2. now' = now + 1 /\ UNCHANGED <<options, flags, disk, aged>>
    BY <1>13 DEF OthersPush, run
  <2>3. Compiled(t) # None
    BY <1>1, CompiledSome
  <2>4. \A k \in DOMAIN cache' : cache'[k].time \in 1..now' /\ cache'[k].content # None
    BY <1>2, <2>1, <2>2, <2>3
  <2>5. flags' \in Flags
    BY <1>1, <2>2 DEF DiskOK
  <2> QED  BY <1>1, <2>2, <2>4, <2>5, DiskTicks
<1> QED  BY <1>3, <1>4, <1>5, <1>6, <1>7, <1>8, <1>9, <1>10, <1>11, <1>12, <1>13 DEF Next, RunStep


LEMMA RunInit == Init => RunOK
<1> SUFFICES ASSUME Init PROVE RunOK
  OBVIOUS
<1>1. pc = "off" /\ ~Busy /\ todo = <<>> /\ stored = {} /\ settled = FALSE
  BY DEF Init, Busy
<1>2. \A t \in Target : kids[t] = Unknown
  BY DEF Init
<1>3. \A s \in Source : found[s] = Unscanned
  BY DEF Init
<1> QED  BY <1>1, <1>2, <1>3 DEF Init, RunOK

LEMMA WalkInit == Init => WalkInv
<1>1. Init => pc = "off" /\ stored = {} /\ \A t \in Target : kids[t] = Unknown
  BY DEF Init
<1> QED  BY <1>1 DEF WalkInv, Waits, Known

\* The steps of the walk itself.
LEMMA RunLooks ==
  ASSUME RunOK, pc = "walk", pc' = "walk", settled' = settled,
         ninfo' = [f \in File |-> ninfo'[f]], kids' = [t \in Target |-> kids'[t]],
         \A s \in Source : found'[s] = Unscanned \/ found'[s] \subseteq Source,
         \A t \in Target : kids'[t] = Unknown \/ ChildrenOf(t, kids'[t]),
         todo' \in Seq(File), stored' \subseteq File, \A t \in Target \cap stored' : Exists(t)'
  PROVE  RunOK'
<1>1. ~settled' /\ ~Busy'
  BY DEF RunOK, Busy
<1> QED  BY <1>1 DEF RunOK, ChildrenOf, File, Exists

\* The steps that let the process go on with what it has.
LEMMA RunKeeps ==
  ASSUME RunOK, UNCHANGED <<kids, found, todo, stored>>, ninfo' = [f \in File |-> ninfo'[f]],
         \A t \in Target \cap stored : Exists(t)',
         pc' \in {"off", "walk", "write", "rename"} \/ Busy',
         Busy' => Busy \/ (todo # <<>> /\ Node \in Target \ stored /\ kids[Node] # Unknown),
         pc' = "act" => output' # None,
         pc' = "copy" => options'.cache,
         pc' = "copy" => (Asked(Node) /\ BuildSig(Node) \in DOMAIN cache /\ output = cache[BuildSig(Node)].content)',
         pc' \in {"write", "rename"} /\ status' = 0 => todo = <<>>,
         pc' = "off" => pc = "off",
         settled' => pc' = "off"
  PROVE  RunOK'
<1>1. Node' = Node
  BY DEF Node
<1>2. Busy' => todo' # <<>> /\ Node' \in Target \ stored' /\ kids'[Node'] # Unknown
  BY <1>1 DEF RunOK
<1>3. \A t \in Target : kids'[t] = Unknown \/ ChildrenOf(t, kids'[t])
  BY DEF RunOK
<1>4. \A s \in Source : found'[s] = Unscanned \/ found'[s] \subseteq Source
  BY DEF RunOK
<1>5. /\ kids' = [t \in Target |-> kids'[t]] /\ todo' \in Seq(File) /\ stored' \subseteq File
      /\ pc' = "off" => stored' = {} /\ kids' = [t \in Target |-> Unknown] /\ found' = [s \in Source |-> Unscanned]
  BY DEF RunOK
<1> QED  BY <1>2, <1>3, <1>4, <1>5 DEF RunOK, ChildrenOf, File, Exists

LEMMA RunEnds ==
  ASSUME ProcessEnds
  PROVE  RunOK'
<1>1. pc' = "off" /\ ~Busy' /\ todo' = <<>> /\ stored' = {}
  BY DEF ProcessEnds, Busy
<1>2. \A t \in Target : kids'[t] = Unknown
  BY DEF ProcessEnds
<1>3. \A s \in Source : found'[s] = Unscanned
  BY DEF ProcessEnds
<1> QED  BY <1>1, <1>2, <1>3 DEF ProcessEnds, RunOK


LEMMA RunNext ==
  ASSUME Sound, Next
  PROVE  RunOK'
<1>1. DiskOK /\ RunOK /\ WalkInv
  BY DEF Sound
<1>2. /\ ninfo = [f \in File |-> ninfo[f]] /\ kids = [t \in Target |-> kids[t]]
      /\ \A s \in Source : found[s] = Unscanned \/ found[s] \subseteq Source
      /\ \A t \in Target : kids[t] = Unknown \/ ChildrenOf(t, kids[t])
      /\ todo \in Seq(File) /\ stored \subseteq File /\ \A t \in Target \cap stored : Exists(t)
  BY <1>1 DEF RunOK
<1>3. todo # <<>> => Node \in File /\ Tail(todo) \in Seq(File)
  BY <1>1, HeadFile
<1>4. CASE Start
  <2>1. Goal \in File /\ ~Busy /\ ~settled'
    BY <1>4, GoalAssumption DEF Start, File, Busy
  <2>2. todo' \in Seq(File) /\ UNCHANGED <<kids, found, stored, ninfo, disk>> /\ pc' = "walk" /\ ~Busy'
    BY <1>4, <2>1 DEF Start, Busy
  <2> QED  BY <1>2, <2>1, <2>2 DEF RunOK, ChildrenOf, File, Exists
<1>5. CASE SkipHandled
  <2>1. /\ pc = "walk" /\ pc' = "walk" /\ UNCHANGED <<settled, ninfo, kids, found, stored, disk>>
        /\ todo # <<>> /\ todo' = Tail(todo)
    BY <1>5 DEF SkipHandled, run
  <2>2. \A t \in Target \cap stored' : Exists(t)'
    BY <1>2, <2>1 DEF Exists
  <2> QED  BY <1>1, <1>2, <1>3, <2>1, <2>2, RunLooks
<1>6. CASE VisitSource
  <2>1. /\ pc = "walk" /\ pc' = "walk" /\ UNCHANGED <<settled, kids, found, disk>>
        /\ todo # <<>> /\ todo' = Tail(todo) /\ stored' = stored \cup {Node} /\ Node \in Source
        /\ ninfo' = [f \in File |-> ninfo'[f]]
    BY <1>2, <1>6 DEF VisitSource, Looking, run
  <2>2. \A t \in Target \cap stored' : Exists(t)'
    BY <1>2, <2>1, FileAssumption DEF Exists
  <2> QED  BY <1>1, <1>2, <1>3, <2>1, <2>2, RunLooks
<1>7. CASE Scan
  <2> DEFINE K == Children(Node, found')
  <2>1. /\ pc = "walk" /\ pc' = "walk" /\ UNCHANGED <<settled, ninfo, stored, disk>>
        /\ todo' = K \o todo /\ kids' = [kids EXCEPT ![Node] = K]
    BY <1>7 DEF Scan, Looking, Ahead
  <2>2. /\ \A s \in Source : found'[s] = Unscanned \/ found'[s] \subseteq Source
        /\ ChildrenOf(Node, K)
    BY <1>1, <1>7, ScanKids
  <2> HIDE DEF K
  <2>3. todo' \in Seq(File)
    BY <1>2, <2>1, <2>2, ToSetConcat DEF ChildrenOf
  <2>4. \A t \in Target : kids'[t] = Unknown \/ ChildrenOf(t, kids'[t])
    BY <1>2, <2>1, <2>2
  <2>5. kids' = [t \in Target |-> kids'[t]]
    BY <1>2, <2>1
  <2>6. \A t \in Target \cap stored' : Exists(t)'
    BY <1>2, <2>1 DEF Exists
  <2> QED  BY <1>1, <1>2, <2>1, <2>2, <2>3, <2>4, <2>5, <2>6, RunLooks
<1>8. CASE FindCurrent
  <2>1. /\ pc = "walk" /\ pc' = "walk" /\ UNCHANGED <<settled, kids, found, disk>>
        /\ todo # <<>> /\ todo' = Tail(todo) /\ stored' = stored \cup {Node} /\ Exists(Node)
    BY <1>8 DEF FindCurrent, Deciding, Looking, run
  <2>2. ninfo' = [f \in File |-> ninfo'[f]]
    BY <1>8 DEF FindCurrent, Decided
  <2>3. \A t \in Target \cap stored' : Exists(t)'
    BY <1>2, <2>1 DEF Exists
  <2> QED  BY <1>1, <1>2, <1>3, <2>1, <2>2, <2>3, RunLooks
<1>9. CASE Copied \/ Acted
  <2>1. /\ Busy /\ pc' = "walk" /\ UNCHANGED <<settled, kids, found>> /\ settled' = settled
        /\ todo' = Tail(todo) /\ stored' = stored \cup {Node} /\ pc # "off"
        /\ ninfo' = [f \in File |-> ninfo'[f]]
    BY <1>2, <1>9 DEF Copied, Acted, Built, Busy, run
  <2>2. todo # <<>> /\ Node \in Target /\ output # None
    BY <1>1, <1>9, <2>1 DEF RunOK, Copied, Acted, DiskOK
  <2>3. \E time : disk' = [disk EXCEPT ![Node] = [content |-> output, time |-> time]]
    BY <1>9 DEF Copied, Acted, Built
  <2>4. \A t \in Target \cap stored' : (disk'[t] = disk[t] /\ t \in stored) \/ disk'[t].content = output
    BY <1>1, <2>1, <2>2, <2>3 DEF DiskOK, File
  <2>5. \A t \in Target \cap stored' : Exists(t)'
    BY <1>2, <2>2, <2>4 DEF Exists, Gone
  <2>6. ~settled' /\ ~Busy'
    BY <1>1, <2>1 DEF RunOK, Busy
  <2>7. todo' \in Seq(File) /\ stored' \subseteq File
    BY <1>2, <1>3, <2>1, <2>2
  <2>8. \A t \in Target : kids'[t] = Unknown \/ ChildrenOf(t, kids'[t])
    BY <1>2, <2>1
  <2> QED  BY <1>2, <2>1, <2>5, <2>6, <2>7, <2>8 DEF RunOK, ChildrenOf, File, Exists
<1>10. CASE FindChanged
  <2>1. /\ pc = "walk" /\ pc' = "execute" /\ UNCHANGED <<settled, kids, found, todo, stored>>
        /\ todo # <<>> /\ Node \in Target \ stored /\ kids[Node] # Unknown
        /\ disk' = [disk EXCEPT ![Node] = Gone] /\ ninfo' = [f \in File |-> ninfo'[f]]
    BY <1>10 DEF FindChanged, Deciding, Looking, Decided, run
  <2>2. \A t \in Target \cap stored : Exists(t)'
    BY <1>1, <1>2, <2>1 DEF DiskOK, Exists
  <2>3. ~settled'
    BY <1>1, <2>1 DEF RunOK
  <2> QED  BY <1>1, <2>1, <2>2, <2>3, RunKeeps DEF Busy
<1>11. CASE Begin
  <2>1. /\ Busy /\ Busy' /\ pc' \in {"copy", "act"} /\ UNCHANGED <<settled, kids, found, todo, stored, flags, cache>>
        /\ pc = "execute"
    BY <1>11 DEF Begin, Busy, run, world
  <2>2. todo # <<>> /\ Node \in Target \ stored /\ Known(Node) /\ ~settled
    BY <1>1, <2>1 DEF RunOK, Known
  <2>3. \A t \in Target \cap stored : Exists(t)'
    BY <1>1, <1>2, <1>11, <2>2 DEF DiskOK, Exists, Begin
  <2>4. /\ ChildrenOf(Node, kids[Node]) /\ Node \notin ToSet(kids[Node])
        /\ \A c \in ToSet(kids[Node]) : c \in File /\ c \in stored /\ disk[c].content # None
    BY <1>1, <2>2, KidContents DEF Sound
  <2>5. ninfo' = [f \in File |-> ninfo'[f]]
    BY <1>2, <1>11 DEF Begin, WithCsigs
  <2>6. pc' = "act" => output' # None
    BY <1>1, <1>11, <2>2, CompiledSome DEF Begin
  <2>7. ASSUME pc' = "copy"
        PROVE  (Asked(Node) /\ BuildSig(Node) \in DOMAIN cache /\ output = cache[BuildSig(Node)].content)'
    <3>1. options.cache /\ BuildSig(Node) \in DOMAIN cache /\ output' = cache[BuildSig(Node)].content
          /\ ninfo' = WithCsigs(Node)
      BY <1>11, <2>7 DEF Begin, Cached
    <3>2. \A c \in ToSet(kids[Node]) : ninfo'[c].csig = Csig(c) /\ Csig(c) # None
      BY <2>4, <3>1 DEF WithCsigs, Csig
    <3>3. Node' = Node /\ kids' = kids /\ flags' = flags /\ cache' = cache
      BY <2>1 DEF Node
    <3>4. \A c \in ToSet(kids[Node]) : Csig(c)' = Csig(c)
      BY <3>2 DEF Csig
    <3>5. \A i \in DOMAIN kids[Node] : kids[Node][i] \in ToSet(kids[Node])
      BY DEF ToSet
    <3>6. BuildSig(Node)' = BuildSig(Node)
      BY <3>3, <3>4, <3>5 DEF BuildSig
    <3>7. Asked(Node)'
      BY <3>2, <3>3 DEF Asked
    <3> QED  BY <3>1, <3>3, <3>6, <3>7
  <2>8. pc' = "copy" => options'.cache
    BY <1>11 DEF Begin, Cached, world
  <2> QED  BY <1>1, <2>1, <2>2, <2>3, <2>5, <2>6, <2>7, <2>8, RunKeeps
<1>12. CASE Failed
  <2>1. /\ Busy /\ pc' = "write" /\ status' = 2 /\ UNCHANGED <<settled, kids, found, todo, stored, ninfo>> /\ pc = "act"
    BY <1>12 DEF Failed, Busy, run
  <2>2. todo # <<>> /\ Node \in Target \ stored /\ ~settled
    BY <1>1, <2>1 DEF RunOK
  <2>3. \A t \in Target \cap stored : Exists(t)'
    BY <1>1, <1>2, <1>12, <2>2 DEF DiskOK, Exists, Failed
  <2> QED  BY <1>1, <1>2, <2>1, <2>2, <2>3, RunKeeps DEF Busy
<1>13. CASE Interrupted \/ WalkOver \/ UnlinkDb
  <2>1. /\ UNCHANGED <<settled, kids, found, todo, stored, ninfo, disk>> /\ pc \in {"walk", "write"} /\ ~Busy
        /\ pc' \in {"write", "rename"}
    BY <1>13 DEF Interrupted, WalkOver, UnlinkDb, Busy, run
  <2>2. status' = 0 => todo = <<>>
    BY <1>1, <1>13 DEF Interrupted, WalkOver, UnlinkDb, RunOK
  <2>3. \A t \in Target \cap stored : Exists(t)'
    BY <1>2, <2>1 DEF Exists
  <2>4. ~settled'
    BY <1>1, <2>1 DEF RunOK
  <2> QED  BY <1>1, <1>2, <2>1, <2>2, <2>3, <2>4, RunKeeps DEF Busy
<1>14. CASE RenameDb \/ Killed
  BY <1>14, RunEnds DEF RenameDb, Killed
<1>15. CASE Edit \/ ChangeFlags \/ Delete \/ OthersPush
  <2>1. UNCHANGED <<pc, kids, found, todo, stored, ninfo, output, status>>
    BY <1>15 DEF Edit, ChangeFlags, Delete, OthersPush, Disturb, run
  <2>2. \A t \in Target \cap stored : disk'[t] = disk[t]
    <3>1. CASE Edit
      BY <1>1, <3>1, FileAssumption DEF Edit, DiskOK, File
    <3>2. CASE ChangeFlags \/ OthersPush
      BY <3>2 DEF ChangeFlags, OthersPush
    <3>3. CASE Delete
      BY <1>1, <3>3 DEF Delete, RunOK
    <3> QED  BY <1>15, <3>1, <3>2, <3>3
  <2>3. \A t \in Target \cap stored : Exists(t)'
    BY <1>2, <2>2 DEF Exists
  <2>4. settled' => pc' = "off"
    BY <1>1, <1>15 DEF RunOK, Edit, ChangeFlags, Delete, OthersPush, Disturb
  <2>5. ASSUME pc' = "copy"
        PROVE  (Asked(Node) /\ BuildSig(Node) \in DOMAIN cache /\ output = cache[BuildSig(Node)].content)'
    <3>1. Asked(Node) /\ BuildSig(Node) \in DOMAIN cache /\ output = cache[BuildSig(Node)].content
      BY <1>1, <2>1, <2>5 DEF RunOK
    <3>2. flags' = flags /\ \A k \in DOMAIN cache : k \in DOMAIN cache' /\ cache'[k] = cache[k]
      BY <1>15, <2>1, <2>5 DEF Edit, ChangeFlags, Delete, OthersPush, Disturb
    <3>3. Node' = Node /\ kids' = kids /\ ninfo' = ninfo /\ output' = output
      BY <2>1 DEF Node
    <3>4. Asked(Node)' /\ BuildSig(Node)' = BuildSig(Node)
      BY <3>1, <3>2, <3>3, SigStays
    <3> QED  BY <3>1, <3>2, <3>3, <3>4
  <2>6. pc' \in {"off", "walk", "write", "rename"} \/ Busy'
    BY <1>1, <2>1 DEF RunOK, Busy
  <2>7. (Busy' => Busy) /\ (pc' = "act" => output' # None) /\ (pc' \in {"write", "rename"} /\ status' = 0 => todo = <<>>)
    BY <1>1, <2>1 DEF RunOK, Busy
  <2>8. pc' = "copy" => options'.cache
    BY <1>1, <1>15, <2>1 DEF RunOK, Edit, ChangeFlags, Delete, OthersPush, Disturb, world
  <2> QED  BY <1>1, <1>2, <2>1, <2>3, <2>4, <2>5, <2>6, <2>7, <2>8, RunKeeps
<1> QED  BY <1>4, <1>5, <1>6, <1>7, <1>8, <1>9, <1>10, <1>11, <1>12, <1>13, <1>14, <1>15 DEF Next, RunStep

\* Types, and the order of the walk.
THEOREM SoundHolds == Spec => []Sound
<1>1. Init => Sound
  BY DiskInit, RunInit, WalkInit DEF Sound
<1>2. Sound /\ [Next]_vars => Sound'
  <2>1. Sound /\ Next => Sound'
    BY DiskNext, RunNext, WalkNext DEF Sound
  <2>2. Sound /\ UNCHANGED vars => Sound'
    <3>1. ASSUME Sound, UNCHANGED vars
          PROVE  DiskOK' /\ RunOK' /\ WalkInv'
      <4>1. DiskOK /\ RunOK /\ WalkInv
        BY <3>1 DEF Sound
      <4>2. DiskOK'
        BY <3>1, <4>1, DiskStays DEF vars, run
      <4>3. WalkInv'
        BY <3>1, <4>1, WalkKeeps DEF vars, run
      <4>4. RunOK'
        BY <3>1, <4>1 DEF vars, world, run, RunOK, Busy, ChildrenOf, Exists, File, Node, Asked, BuildSig, Csig
      <4> QED  BY <4>2, <4>3, <4>4
    <3> QED  BY <3>1 DEF Sound
  <2> QED  BY <2>1, <2>2
<1> QED  BY <1>1, <1>2, PTL DEF Spec


----------------------------------------------------------------------------
(* KnowsInv.                                                               *)

\* What the action will read does not change as long as the sources do not.
LEMMA RealKidsStay ==
  ASSUME \A s \in Source : disk'[s] = disk[s]
  PROVE  \A t \in Target : RealKids(t)' = RealKids(t)
<1>1. [s \in Source |-> Includes[disk'[s].content]] = [s \in Source |-> Includes[disk[s].content]]
  OBVIOUS
<1> QED  BY <1>1 DEF RealKids

\* What a decision, and the question for a cached file, do to a NodeInfo.
LEMMA DecidedFields ==
  ASSUME NEW t \in Target, NEW f \in File
  PROVE  /\ Decided(t)[f].time = ninfo[f].time
         /\ options.decider # "MD5-timestamp" => Decided(t)[f].csig \in {ninfo[f].csig, Csig(f)}
         /\ options.decider = "content" /\ f \in ToSet(kids[t]) => Decided(t)[f].csig = Csig(f)
         /\ f \notin ToSet(kids[t]) => Decided(t)[f] = ninfo[f]
<1>1. f \in ToSet(kids[t]) <=> \E i \in DOMAIN kids[t] : kids[t][i] = f
  BY DEF ToSet
<1>2. PICK was : Decided(t)[f] = IF f \in ToSet(kids[t])
                                 THEN [csig |-> CsigAfter(f, was), time |-> ninfo[f].time] ELSE ninfo[f]
  BY <1>1 DEF Decided
<1>3. /\ options.decider # "MD5-timestamp" => CsigAfter(f, was) \in {ninfo[f].csig, Csig(f)}
      /\ options.decider = "content" => CsigAfter(f, was) = Csig(f)
  BY DEF CsigAfter
<1> QED  BY <1>2, <1>3

LEMMA WithCsigsFields ==
  ASSUME NEW t \in Target, NEW f \in File
  PROVE  /\ WithCsigs(t)[f].time = ninfo[f].time
         /\ WithCsigs(t)[f].csig \in {ninfo[f].csig, Csig(f)}
         /\ f \in ToSet(kids[t]) => WithCsigs(t)[f].csig = Csig(f)
         /\ f \notin ToSet(kids[t]) => WithCsigs(t)[f] = ninfo[f]
BY DEF WithCsigs

\* A signature taken from .sconsign is that of an old file.
LEMMA MaxDriftOld ==
  ASSUME NEW f, NEW time
  PROVE  /\ MaxDriftCsig(f, time) = None \/ (options.drift /\ time <= aged /\ known[f].time = time)
         /\ MaxDriftCsig(f, time) \in {None, known[f].csig}
BY DEF MaxDriftCsig

\* What a step that neither scans nor starts has to see to.
LEMMA KnowsStep ==
  ASSUME Sound, KnowsInv, InRun, UNCHANGED <<options, aged, kids, found>>,
         stored \subseteq stored',
         \A f \in Source \cup stored : disk'[f] = disk[f],
         \A f \in stored : /\ ninfo'[f].time = ninfo[f].time
                           /\ options.decider # "MD5-timestamp" => ninfo'[f].csig \in {ninfo[f].csig, Csig(f)},
         \A f \in stored' \ stored :
            /\ disk'[f] # Gone /\ ninfo'[f].time = disk'[f].time
            /\ options.decider # "MD5-timestamp" => \/ ninfo'[f].csig \in {None, disk'[f].content}
                                                   \/ (options.drift /\ disk'[f].time <= aged),
         options.decider = "timestamp-newer" =>
           \A t \in Target \cap (stored' \ stored) : \A c \in ToSet(kids[t]) : disk'[c].time <= disk'[t].time,
         options.decider = "content" =>
           \A t \in Target : t \in stored' \ stored \/ (Busy' /\ t = Node') =>
              \A c \in ToSet(kids[t]) : ninfo'[c].csig # None
  PROVE  KnowsInv'
<1>1. DiskOK /\ RunOK /\ WalkInv
  BY DEF Sound
<1>2. /\ \A s \in Source : found[s] \in {Unscanned, Includes[disk[s].content]}
      /\ \A t \in Target : Known(t) => kids[t] = RealKids(t)
      /\ \A f \in stored : Exists(f) /\ ninfo[f].time = disk[f].time
      /\ options.decider # "MD5-timestamp" =>
           \A f \in stored : ninfo[f].csig \in {None, disk[f].content} \/ Old(f)
      /\ options.decider = "timestamp-newer" =>
           \A t \in Target \cap stored : \A c \in ToSet(kids[t]) : disk[c].time <= disk[t].time
      /\ options.decider = "content" =>
           \A t \in Target : t \in stored \/ (Busy /\ t = Node) => Asked(t)
  BY DEF KnowsInv
<1>3. \A t \in Target \cap stored : ToSet(kids[t]) \subseteq stored
  BY <1>1 DEF WalkInv
<1>4. \A s \in Source : found'[s] \in {Unscanned, Includes[disk'[s].content]}
  BY <1>2
<1>5. \A t \in Target : Known(t)' => kids'[t] = RealKids(t)'
  BY <1>2, RealKidsStay DEF Known
<1>6. \A f \in stored' : Exists(f)' /\ ninfo'[f].time = disk'[f].time
  <2>1. ASSUME NEW f \in stored PROVE Exists(f)' /\ ninfo'[f].time = disk'[f].time
    BY <1>2, <2>1 DEF Exists
  <2>2. ASSUME NEW f \in stored' \ stored PROVE Exists(f)' /\ ninfo'[f].time = disk'[f].time
    BY <2>2 DEF Exists
  <2> QED  BY <2>1, <2>2
<1>7. options.decider # "MD5-timestamp" => \A f \in stored' : ninfo'[f].csig \in {None, disk'[f].content} \/ Old(f)'
  <2> SUFFICES ASSUME options.decider # "MD5-timestamp"
               PROVE  \A f \in stored' : ninfo'[f].csig \in {None, disk'[f].content} \/ Old(f)'
    OBVIOUS
  <2>1. ASSUME NEW f \in stored PROVE ninfo'[f].csig \in {None, disk'[f].content} \/ Old(f)'
    BY <1>2, <2>1 DEF Old, Csig
  <2>2. ASSUME NEW f \in stored' \ stored PROVE ninfo'[f].csig \in {None, disk'[f].content} \/ Old(f)'
    BY <2>2 DEF Old
  <2> QED  BY <2>1, <2>2
<1>8. options.decider = "timestamp-newer" =>
        \A t \in Target \cap stored' : \A c \in ToSet(kids'[t]) : disk'[c].time <= disk'[t].time
  BY <1>2, <1>3
<1>9. options.decider = "content" => \A t \in Target : t \in stored' \/ (Busy /\ t = Node)' => Asked(t)'
  <2>1. ASSUME options.decider = "content", NEW t \in Target \cap stored
        PROVE  Asked(t)'
    <3>1. \A c \in ToSet(kids[t]) : c \in stored /\ ninfo[c].csig # None
      BY <1>2, <1>3, <2>1 DEF Asked
    <3> QED  BY <2>1, <3>1 DEF Asked, Csig
  <2> QED  BY <2>1 DEF Asked
<1> QED  BY <1>4, <1>5, <1>6, <1>7, <1>8, <1>9 DEF KnowsInv


LEMMA KnowsScans ==
  ASSUME Sound, KnowsInv, InRun, Scan
  PROVE  KnowsInv'
<1> DEFINE K == Children(Node, found')
<1>1. DiskOK /\ RunOK /\ WalkInv
  BY DEF Sound
<1>2. /\ Node \in Target \ stored /\ pc = "walk" /\ UNCHANGED <<options, aged, disk, ninfo, stored, pc>>
      /\ kids' = [kids EXCEPT ![Node] = K]
      /\ \A s \in Source : found'[s] = IF s \in ToSet(Explicit[Node]) /\ found[s] = Unscanned
                                       THEN Includes[disk[s].content] ELSE found[s]
  BY <1>1 DEF Scan, Looking, world, RunOK
<1>3. \A s \in Source : found[s] \in {Unscanned, Includes[disk[s].content]}
  BY DEF KnowsInv
<1>4. K = RealKids(Node)
  <2> DEFINE real == [s \in Source |-> Includes[disk[s].content]]
  <2>1. \A s \in Source \cap ToSet(Explicit[Node]) : found'[s] = real[s]
    BY <1>2, <1>3
  <2> HIDE DEF real
  <2>2. K = Children(Node, real)
    BY <2>1, ChildrenSame
  <2> QED  BY <2>2 DEF RealKids, real
<1> HIDE DEF K
<1>5. \A t \in Target : RealKids(t)' = RealKids(t)
  BY <1>2, RealKidsStay
<1>6. \A t \in Target : kids'[t] = IF t = Node THEN K ELSE kids[t]
  BY <1>1, <1>2 DEF RunOK
<1>7. \A t \in Target : Known(t)' => kids'[t] = RealKids(t)'
  BY <1>4, <1>5, <1>6 DEF KnowsInv, Known
<1>8. \A s \in Source : found'[s] \in {Unscanned, Includes[disk'[s].content]}
  BY <1>2, <1>3
<1>9. ~Busy /\ ~Busy'
  BY <1>2 DEF Busy
<1>10. /\ options.decider = "timestamp-newer" =>
            \A t \in Target \cap stored' : \A c \in ToSet(kids'[t]) : disk'[c].time <= disk'[t].time
       /\ options.decider = "content" => \A t \in Target : t \in stored' \/ (Busy /\ t = Node)' => Asked(t)'
  BY <1>2, <1>6, <1>9 DEF KnowsInv, Asked
<1>11. /\ \A f \in stored' : Exists(f)' /\ ninfo'[f].time = disk'[f].time
       /\ options.decider # "MD5-timestamp" =>
            \A f \in stored' : ninfo'[f].csig \in {None, disk'[f].content} \/ Old(f)'
  BY <1>2 DEF KnowsInv, Exists, Old
<1> QED  BY <1>2, <1>7, <1>8, <1>10, <1>11 DEF KnowsInv

LEMMA KnowsCurrent ==
  ASSUME Sound, KnowsInv, InRun, FindCurrent
  PROVE  KnowsInv'
<1>1. DiskOK /\ RunOK /\ WalkInv
  BY DEF Sound
<1>2. /\ Node \in Target \ stored /\ pc = "walk" /\ todo # <<>> /\ Known(Node) /\ Exists(Node) /\ ~Changed(Node)
      /\ UNCHANGED <<options, aged, kids, found, disk, pc>> /\ stored' = stored \cup {Node}
      /\ ninfo' = [Decided(Node) EXCEPT ![Node] = [csig |-> MaxDriftCsig(Node, disk[Node].time),
                                                  time |-> disk[Node].time]]
  BY DEF FindCurrent, Deciding, Looking, world, run, Known
<1>3. Node \in File /\ \A f \in File : ninfo'[f] = IF f = Node THEN [csig |-> MaxDriftCsig(Node, disk[Node].time),
                                                                     time |-> disk[Node].time] ELSE Decided(Node)[f]
  BY <1>2 DEF Decided, File
<1>4. stored \subseteq File /\ Node \notin stored
  BY <1>1, <1>2 DEF RunOK
<1>5. /\ Node \notin ToSet(kids[Node])
      /\ \A c \in ToSet(kids[Node]) : c \in File /\ c \in stored /\ disk[c].content # None
  BY <1>2, KidContents
<1>6. \A f \in stored : /\ ninfo'[f].time = ninfo[f].time
                        /\ options.decider # "MD5-timestamp" => ninfo'[f].csig \in {ninfo[f].csig, Csig(f)}
  BY <1>2, <1>3, <1>4, DecidedFields
<1>7. disk'[Node] # Gone /\ ninfo'[Node].time = disk'[Node].time /\ (ninfo'[Node].csig = None \/ (options.drift /\ disk'[Node].time <= aged))
  BY <1>2, <1>3, MaxDriftOld DEF Exists, Old
<1>8. ASSUME options.decider = "timestamp-newer", NEW c \in ToSet(kids[Node])
      PROVE  disk'[c].time <= disk'[Node].time
  <2>1. PICK i \in DOMAIN kids[Node] : c = kids[Node][i]
    BY DEF ToSet
  <2>2. ~(ninfo[c].time > disk[Node].time)
    BY <1>2, <1>8, <2>1 DEF Changed, ChangedSinceLastBuild
  <2>3. ninfo[c].time = disk[c].time /\ disk[c].time \in Nat /\ disk[Node].time \in Nat
    BY <1>1, <1>3, <1>5 DEF KnowsInv, DiskOK
  <2> QED  BY <1>2, <2>2, <2>3
<1>9. options.decider = "content" => \A c \in ToSet(kids[Node]) : ninfo'[c].csig # None
  <2>1. ASSUME options.decider = "content", NEW c \in ToSet(kids[Node])
        PROVE  ninfo'[c].csig # None
    <3>1. ninfo'[c].csig = Csig(c)
      BY <1>2, <1>3, <1>5, <2>1, DecidedFields
    <3> QED  BY <1>5, <3>1 DEF Csig
  <2> QED  BY <2>1
<1>10. ~Busy'
  BY <1>2 DEF Busy
<1> QED  BY <1>2, <1>3, <1>6, <1>7, <1>8, <1>9, <1>10, KnowsStep

LEMMA KnowsChanged ==
  ASSUME Sound, KnowsInv, InRun, FindChanged \/ Begin
  PROVE  KnowsInv'
<1>1. DiskOK /\ RunOK /\ WalkInv
  BY DEF Sound
<1>2. /\ Node \in Target \ stored /\ todo # <<>> /\ Known(Node) /\ UNCHANGED <<options, aged, kids, found, stored, todo>>
      /\ ninfo' \in {Decided(Node), WithCsigs(Node), ninfo}
      /\ options.decider = "content" => ninfo' \in {Decided(Node), WithCsigs(Node)} \/ Asked(Node)
  BY <1>1 DEF FindChanged, Begin, Deciding, Looking, world, run, Known, RunOK, KnowsInv, Busy
<1>3. \A f \in Source \cup stored : disk'[f] = disk[f]
  BY <1>1, <1>2, FileAssumption DEF FindChanged, Begin, DiskOK, RunOK, File
<1>4. /\ Node \notin ToSet(kids[Node])
      /\ \A c \in ToSet(kids[Node]) : c \in File /\ c \in stored /\ disk[c].content # None
  BY <1>2, KidContents
<1>5. \A f \in stored : /\ ninfo'[f].time = ninfo[f].time
                        /\ options.decider # "MD5-timestamp" => ninfo'[f].csig \in {ninfo[f].csig, Csig(f)}
  BY <1>1, <1>2, DecidedFields, WithCsigsFields DEF RunOK
<1>6. options.decider = "content" => \A c \in ToSet(kids[Node]) : ninfo'[c].csig # None
  <2>1. ASSUME options.decider = "content", NEW c \in ToSet(kids[Node])
        PROVE  ninfo'[c].csig # None
    <3>1. Csig(c) # None
      BY <1>4, <2>1 DEF Csig
    <3>2. CASE ninfo' \in {Decided(Node), WithCsigs(Node)}
      BY <1>2, <1>4, <2>1, <3>1, <3>2, DecidedFields, WithCsigsFields
    <3>3. CASE Asked(Node)
      BY <1>2, <1>4, <1>5, <2>1, <3>1, <3>3 DEF Asked
    <3> QED  BY <1>2, <2>1, <3>2, <3>3
  <2> QED  BY <2>1
<1>7. Node' = Node
  BY <1>2 DEF Node
<1>8. stored' = stored \cup {}
  BY <1>2
<1> QED  BY <1>2, <1>3, <1>5, <1>6, <1>7, <1>8, KnowsStep

LEMMA KnowsBuilt ==
  ASSUME Sound, KnowsInv, InRun, Copied \/ Acted
  PROVE  KnowsInv'
<1>1. DiskOK /\ RunOK /\ WalkInv
  BY DEF Sound
<1>2. PICK time : Built(output, time) /\ (options.decider = "timestamp-newer" => time = now)
  BY DEF Copied, Acted
<1>3. Busy /\ output # None
  BY <1>1 DEF Copied, Acted, Busy, RunOK, DiskOK
<1>4. todo # <<>> /\ Node \in Target \ stored /\ Known(Node) /\ Node \in File /\ stored \subseteq File
  BY <1>1, <1>3 DEF RunOK, Known, File
<1>5. /\ UNCHANGED <<options, aged, kids, found, now>> /\ stored' = stored \cup {Node} /\ pc' = "walk"
      /\ \A f \in File : disk'[f] = IF f = Node THEN [content |-> output, time |-> time] ELSE disk[f]
      /\ \A f \in File : ninfo'[f] =
            IF f = Node THEN [csig |-> IF MaxDriftCsig(Node, time) # None THEN MaxDriftCsig(Node, time) ELSE output,
                              time |-> time]
            ELSE ninfo[f]
  BY <1>1, <1>2 DEF Built, world, run, DiskOK, RunOK
<1>6. /\ Node \notin ToSet(kids[Node])
      /\ \A c \in ToSet(kids[Node]) : c \in File /\ c \in stored
  BY <1>4, KidContents
<1>7. \A f \in Source \cup stored : disk'[f] = disk[f]
  BY <1>4, <1>5, FileAssumption DEF File
<1>8. \A f \in stored : ninfo'[f] = ninfo[f]
  BY <1>4, <1>5
<1>9. disk'[Node] # Gone /\ ninfo'[Node].time = disk'[Node].time
      /\ (ninfo'[Node].csig \in {None, disk'[Node].content} \/ (options.drift /\ disk'[Node].time <= aged))
  BY <1>3, <1>4, <1>5, MaxDriftOld DEF Exists, Gone, Old
<1>10. options.decider = "timestamp-newer" => \A c \in ToSet(kids[Node]) : disk'[c].time <= disk'[Node].time
  BY <1>1, <1>2, <1>4, <1>5, <1>6 DEF DiskOK
<1>11. options.decider = "content" => \A c \in ToSet(kids[Node]) : ninfo'[c].csig # None
  BY <1>3, <1>4, <1>5, <1>6, <1>8 DEF KnowsInv, Asked
<1>12. ~Busy'
  BY <1>5 DEF Busy
<1> QED  BY <1>4, <1>5, <1>7, <1>8, <1>9, <1>10, <1>11, <1>12, KnowsStep

LEMMA KnowsNext ==
  ASSUME Sound, KnowsInv, Next
  PROVE  KnowsInv'
<1>1. DiskOK /\ RunOK /\ WalkInv
  BY DEF Sound
<1>2. CASE ~InRun'
  BY <1>2 DEF KnowsInv
<1>3. CASE Start
  <2>1. /\ \A s \in Source : found'[s] = Unscanned
        /\ \A t \in Target : kids'[t] = Unknown
        /\ stored' = {} /\ ~Busy'
    BY <1>1, <1>3 DEF Start, RunOK, Busy
  <2> QED  BY <2>1 DEF KnowsInv, Known
<1>4. ASSUME InRun', ~Start PROVE InRun
  BY <1>4 DEF Next, RunStep, InRun, SkipHandled, VisitSource, Scan, FindCurrent, FindChanged, Deciding, Looking,
              Begin, Copied, Acted, Built, Failed, Interrupted, WalkOver, UnlinkDb, RenameDb, Killed,
              ProcessEnds, Edit, ChangeFlags, Delete, OthersPush, Disturb
<1>5. CASE InRun /\ (SkipHandled \/ Interrupted \/ WalkOver \/ UnlinkDb)
  <2>1. UNCHANGED <<options, aged, kids, found, stored, disk, ninfo>> /\ ~Busy'
    BY <1>5 DEF SkipHandled, Interrupted, WalkOver, UnlinkDb, world, run, Busy
  <2>2. stored' = stored \cup {}
    BY <2>1
  <2> QED  BY <1>5, <2>1, <2>2, KnowsStep
<1>6. CASE InRun /\ Failed
  <2>1. UNCHANGED <<options, aged, kids, found, stored, ninfo>> /\ ~Busy' /\ Busy
    BY <1>6 DEF Failed, world, run, Busy
  <2>2. Node \in Target \ stored
    BY <1>1, <2>1 DEF RunOK
  <2>3. \A f \in Source \cup stored : disk'[f] = disk[f]
    BY <1>1, <1>6, <2>2, FileAssumption DEF Failed, DiskOK, RunOK, File
  <2>4. stored' = stored \cup {}
    BY <2>1
  <2> QED  BY <1>6, <2>1, <2>3, <2>4, KnowsStep
<1>7. CASE InRun /\ VisitSource
  <2>1. /\ UNCHANGED <<options, aged, kids, found, disk, pc>> /\ Node \in Source \ stored /\ pc = "walk"
        /\ stored' = stored \cup {Node}
        /\ \A f \in File : ninfo'[f] = IF f = Node THEN [csig |-> MaxDriftCsig(Node, disk[Node].time),
                                                        time |-> disk[Node].time] ELSE ninfo[f]
    BY <1>1, <1>7 DEF VisitSource, Looking, world, run, RunOK
  <2>2. Node \in File /\ Node \notin Target /\ stored \subseteq File /\ ~Busy'
    BY <1>1, <2>1, FileAssumption DEF File, RunOK, Busy
  <2>3. disk[Node] # Gone
    BY <1>1, <2>1, SourceContents DEF Gone
  <2>4. disk'[Node] # Gone /\ ninfo'[Node].time = disk'[Node].time /\ (ninfo'[Node].csig = None \/ (options.drift /\ disk'[Node].time <= aged))
    BY <2>1, <2>2, <2>3, MaxDriftOld DEF Exists, Old
  <2>5. \A f \in stored : ninfo'[f] = ninfo[f]
    BY <2>1, <2>2
  <2> QED  BY <1>7, <2>1, <2>2, <2>4, <2>5, KnowsStep
<1>8. CASE InRun /\ (Edit \/ ChangeFlags \/ Delete)
  <2>1. ~InRun'
    BY <1>8 DEF Edit, ChangeFlags, Delete, Disturb, InRun
  <2> QED  BY <2>1 DEF KnowsInv
<1>9. CASE InRun /\ OthersPush
  <2>1. UNCHANGED <<options, aged, kids, found, stored, disk, ninfo, pc, todo>>
    BY <1>9 DEF OthersPush, run
  <2>2. stored' = stored \cup {} /\ Node' = Node /\ (Busy' <=> Busy)
    BY <2>1 DEF Node, Busy
  <2>3. options.decider = "content" => \A t \in Target : (Busy' /\ t = Node') =>
           \A c \in ToSet(kids[t]) : ninfo'[c].csig # None
    BY <1>9, <2>1, <2>2 DEF KnowsInv, Asked
  <2> QED  BY <1>9, <2>1, <2>2, <2>3, KnowsStep
<1>10. CASE RenameDb \/ Killed
  <2>1. ~InRun'
    BY <1>10 DEF RenameDb, Killed, ProcessEnds, InRun
  <2> QED  BY <2>1 DEF KnowsInv
<1> QED  BY <1>2, <1>3, <1>4, <1>5, <1>6, <1>7, <1>8, <1>9, <1>10,
            KnowsScans, KnowsCurrent, KnowsChanged, KnowsBuilt DEF Next, RunStep


Knows == Sound /\ KnowsInv

\* What a run knows is true as long as nobody edits a file.
THEOREM KnowsHolds == Spec => []Knows
<1>1. Init => KnowsInv
  BY DEF Init, KnowsInv, InRun
<1>2. Sound /\ KnowsInv /\ [Next]_vars => KnowsInv'
  <2>1. Sound /\ KnowsInv /\ UNCHANGED vars => KnowsInv'
    BY DEF vars, world, run, KnowsInv, InRun, Known, RealKids, Exists, Old, Asked, Busy, Node
  <2> QED  BY <2>1, KnowsNext
<1> QED  BY <1>1, <1>2, SoundHolds, PTL DEF Spec, Knows

----------------------------------------------------------------------------
(* A run after one that succeeded builds nothing.                          *)

\* A run that comes to its end has dealt with every target.
LEMMA AllStored ==
  ASSUME Sound, pc \in {"write", "rename"}, status = 0
  PROVE  Target \subseteq stored
<1>1. RunOK /\ WalkInv
  BY DEF Sound
<1>2. Goal \in stored
  <2>1. todo = <<>>
    BY <1>1 DEF RunOK
  <2> QED  BY <1>1, <2>1 DEF WalkInv, InWalk
<1>3. ASSUME NEW t \in Target \cap stored PROVE Target \cap ToSet(Explicit[t]) \subseteq Target \cap stored
  <2>1. Known(t) /\ ToSet(kids[t]) \subseteq stored
    BY <1>1 DEF WalkInv
  <2>2. ToSet(Explicit[t]) \subseteq ToSet(kids[t])
    BY <1>1, <2>1 DEF RunOK, Known, ChildrenOf
  <2> QED  BY <2>1, <2>2
<1> QED  BY <1>2, <1>3, GoalAssumption

LEMMA SignaturesLength ==
  ASSUME NEW t, kids[t] \in Seq(File)
  PROVE  /\ Len(Signatures(t)) = Len(kids[t]) /\ DOMAIN Signatures(t) = DOMAIN kids[t]
         /\ \A i \in DOMAIN kids[t] : Signatures(t)[i] = ninfo[kids[t][i]] /\ kids[t][i] \in ToSet(kids[t])
<1>1. Signatures(t) \in Seq({ninfo[f] : f \in File})
  BY DEF Signatures
<1>2. DOMAIN Signatures(t) = 1..Len(kids[t]) /\ DOMAIN kids[t] = 1..Len(kids[t])
  BY DEF Signatures
<1> QED  BY <1>1, <1>2 DEF Signatures, ToSet

\* What a complete run writes matches what is on the disk.
LEMMA NowMatching ==
  ASSUME Sound, KnowsInv, pc = "rename", status = 0, undisturbed
  PROVE  Matching(Merged)
<1>1. DiskOK /\ RunOK /\ WalkInv /\ InRun
  BY DEF Sound, InRun
<1>2. Target \subseteq stored
  BY AllStored
<1>3. SUFFICES ASSUME NEW t \in Target
               PROVE  /\ Exists(t) /\ Merged[t].act = flags /\ Len(Merged[t].sigs) = Len(RealKids(t))
                      /\ \A i \in DOMAIN RealKids(t) : Agrees(Merged, t, i)
  BY DEF Matching
<1>4. t \in stored /\ Known(t) /\ ToSet(kids[t]) \subseteq stored /\ kids[t] = RealKids(t) /\ Exists(t)
  BY <1>1, <1>2 DEF WalkInv, KnowsInv
<1>5. kids[t] \in Seq(File)
  BY <1>1, <1>4 DEF RunOK, ChildrenOf, Known
<1>6. t \in File /\ t \notin Source
  BY FileAssumption DEF File
<1>7. Merged[t].act = flags /\ Merged[t].sigs = Signatures(t)
  BY <1>4, <1>6 DEF Merged
<1>8. ASSUME NEW i \in DOMAIN RealKids(t)
      PROVE  Agrees(Merged, t, i)
  <2> DEFINE c == RealKids(t)[i]
  <2>1. c \in ToSet(kids[t]) /\ c \in stored /\ Merged[t].sigs[i] = ninfo[c]
    BY <1>4, <1>5, <1>7, SignaturesLength
  <2>2. c \in File
    BY <1>1, <2>1 DEF RunOK
  <2>3. ninfo[c].time = disk[c].time /\ (options.decider = "timestamp-newer" => disk[c].time <= disk[t].time)
    BY <1>1, <1>4, <2>1 DEF KnowsInv
  <2>4. options.decider = "content" => /\ ninfo[c].csig # None
                                       /\ ninfo[c].csig = disk[c].content \/ Old(c)
    BY <1>1, <1>4, <2>1 DEF KnowsInv, Asked
  <2>5. /\ Merged[c].time = ninfo[c].time
        /\ ninfo[c].csig # None => Merged[c].csig = ninfo[c].csig
    BY <2>1, <2>2 DEF Merged
  <2> HIDE DEF c
  <2> QED  BY <2>1, <2>3, <2>4, <2>5 DEF Agrees, c
<1> QED  BY <1>4, <1>5, <1>7, <1>8, SignaturesLength

LEMMA MatchingStays ==
  ASSUME UNCHANGED <<options, flags, disk>>, aged \in Nat, aged' \in Nat, aged <= aged',
         DiskOK, NEW d, Matching(d)
  PROVE  Matching(d)'
<1>1. \A t \in Target : RealKids(t)' = RealKids(t)
  BY RealKidsStay
<1>2. \A t \in Target : \A i \in DOMAIN RealKids(t) : RealKids(t)[i] \in File
  BY RealKidsType DEF ChildrenOf
<1>3. \A f \in File : Old(f) => Old(f)'
  BY DEF Old, DiskOK
<1>4. ASSUME NEW t \in Target, NEW i \in DOMAIN RealKids(t), Agrees(d, t, i)
      PROVE  Agrees(d, t, i)'
  BY <1>1, <1>2, <1>3, <1>4 DEF Agrees
<1> QED  BY <1>1, <1>4 DEF Matching, Exists

\* In such a run the signature of a child is the one it had.
LEMMA SameCsig ==
  ASSUME Sound, KnowsInv, InRun, Matching(known), options.decider = "content",
         NEW f \in File, NEW t \in Target, f \in ToSet(RealKids(t)), disk'[f] = disk[f],
         ninfo'[f] = [csig |-> MaxDriftCsig(f, disk[f].time), time |-> disk[f].time]
  PROVE  Csig(f)' = known[f].csig
<1>1. PICK i \in DOMAIN RealKids(t) : f = RealKids(t)[i]
  BY DEF ToSet
<1>2. Agrees(known, t, i)
  BY DEF Matching
<1>3. /\ known[f].csig # None /\ known[f].time = disk[f].time
      /\ known[f].csig = disk[f].content \/ Old(f)
  BY <1>1, <1>2 DEF Agrees
<1> QED  BY <1>3 DEF MaxDriftCsig, Old, Csig

LEMMA NothingChanged ==
  ASSUME Sound, KnowsInv, SettledInv, InRun, repeated, FindChanged
  PROVE  FALSE
<1>1. DiskOK /\ RunOK /\ WalkInv
  BY DEF Sound
<1>2. Node \in Target \ stored /\ todo # <<>> /\ Known(Node) /\ (~Exists(Node) \/ Changed(Node))
  BY DEF FindChanged, Deciding, Looking, Known
<1>3. /\ Matching(known)
      /\ options.decider = "content" =>
           \A t \in Target : \A c \in ToSet(RealKids(t)) \cap stored : Csig(c) = known[c].csig
  BY DEF SettledInv
<1>4. kids[Node] = RealKids(Node)
  BY <1>2 DEF KnowsInv
<1>5. /\ Exists(Node) /\ known[Node].act = flags /\ Len(known[Node].sigs) = Len(kids[Node])
      /\ \A i \in DOMAIN kids[Node] : Agrees(known, Node, i)
  BY <1>2, <1>3, <1>4 DEF Matching
<1>6. PICK i \in DOMAIN kids[Node] : ChangedSinceLastBuild(Node, kids[Node][i], Before(Node, i))
  BY <1>2, <1>5 DEF Changed
<1> DEFINE c == kids[Node][i]
<1>7. c \in ToSet(kids[Node]) /\ c \in stored /\ kids[Node] \in Seq(File)
  BY <1>2, KidContents DEF ToSet, ChildrenOf
<1>8. Before(Node, i) = known[Node].sigs[i]
  BY <1>5, <1>7 DEF Before
<1>9. Agrees(known, Node, i)
  BY <1>5
<1>10. ninfo[c].time = disk[c].time
  BY <1>7 DEF KnowsInv
<1>11. options.decider = "content" => Csig(c) = known[c].csig
  BY <1>2, <1>3, <1>4, <1>7
<1>12. /\ known[Node].sigs[i].time = disk[c].time
       /\ options.decider = "timestamp-newer" => disk[c].time <= disk[Node].time
       /\ options.decider = "content" => known[Node].sigs[i].csig = known[c].csig
  BY <1>4, <1>9 DEF Agrees
<1>13. ChangedSinceLastBuild(Node, c, known[Node].sigs[i])
  BY <1>6, <1>8
<1>14. options.decider \in {"content", "timestamp-match", "timestamp-newer", "MD5-timestamp"}
  BY <1>1, OptionAssumption DEF DiskOK
<1> HIDE DEF c
<1>15. disk[c].time \in Nat /\ disk[Node].time \in Nat
  <2>1. c \in File /\ Node \in File
    BY <1>1, <1>2, <1>7 DEF RunOK, File
  <2>2. \A f \in File : disk[f].time \in 0..now /\ now \in Nat
    BY <1>1 DEF DiskOK
  <2> QED  BY <2>1, <2>2
<1>16. CASE options.decider = "content"
  BY <1>11, <1>12, <1>13, <1>16 DEF ChangedSinceLastBuild
<1>17. CASE options.decider = "timestamp-match"
  BY <1>10, <1>12, <1>13, <1>17 DEF ChangedSinceLastBuild, SameTime
<1>18. CASE options.decider = "timestamp-newer"
  <2>1. ninfo[c].time > disk[Node].time
    BY <1>13, <1>18 DEF ChangedSinceLastBuild
  <2> QED  BY <1>10, <1>12, <1>15, <1>18, <2>1
<1>19. CASE options.decider = "MD5-timestamp"
  BY <1>10, <1>12, <1>13, <1>19 DEF ChangedSinceLastBuild, SameTime
<1> QED  BY <1>14, <1>16, <1>17, <1>18, <1>19


\* While the run goes on: who is there stays there, who comes has its old
\* signature.
LEMMA SettledStep ==
  ASSUME Sound, KnowsInv, SettledInv, InRun, ~settled', ~Busy',
         UNCHANGED <<options, flags, disk, known, aged, repeated>>, stored \subseteq stored',
         options.decider = "content" => \A f \in stored : ninfo'[f].csig \in {ninfo[f].csig, Csig(f)},
         \A f \in stored' \ stored :
            f \in File /\ ninfo'[f] = [csig |-> MaxDriftCsig(f, disk[f].time), time |-> disk[f].time]
  PROVE  SettledInv'
<1>1. SUFFICES ASSUME repeated
               PROVE  /\ Matching(known)'
                      /\ options.decider = "content" =>
                           \A t \in Target : \A c \in ToSet(RealKids(t))' \cap stored' : Csig(c)' = known[c].csig
  BY DEF SettledInv
<1>2. Matching(known) /\ DiskOK
  BY <1>1 DEF SettledInv, Sound
<1>3. aged \in Nat
  BY <1>2 DEF DiskOK
<1>4. Matching(known)'
  BY <1>2, <1>3, MatchingStays
<1>5. \A t \in Target : RealKids(t)' = RealKids(t)
  BY RealKidsStay
<1>6. ASSUME options.decider = "content", NEW t \in Target, NEW c \in ToSet(RealKids(t)), c \in stored'
      PROVE  Csig(c)' = known[c].csig
  <2>1. CASE c \in stored
    <3>1. Csig(c) = known[c].csig
      BY <1>1, <1>6, <2>1 DEF SettledInv
    <3> QED  BY <1>6, <2>1, <3>1 DEF Csig
  <2>2. CASE c \notin stored
    BY <1>2, <1>6, <2>2, SameCsig
  <2> QED  BY <2>1, <2>2
<1>7. \A t \in Target : ToSet(RealKids(t))' = ToSet(RealKids(t))
  BY <1>5
<1> QED  BY <1>4, <1>6, <1>7

LEMMA SettledNext ==
  ASSUME Sound, KnowsInv, SettledInv, Next
  PROVE  SettledInv'
<1>1. DiskOK /\ RunOK /\ WalkInv
  BY DEF Sound
<1>2. CASE Start
  <2>1. repeated' = settled /\ ~settled' /\ known' = db /\ stored' = {} /\ ~Busy' /\ UNCHANGED <<options, flags, disk>>
    BY <1>1, <1>2 DEF Start, RunOK, Busy, world
  <2>2. aged \in Nat /\ aged' \in Nat /\ aged <= aged'
    BY <1>1, <1>2 DEF Start, DiskOK
  <2>3. settled => Matching(known)'
    <3>1. ASSUME settled PROVE Matching(known)'
      <4>1. PICK d : d = db
        OBVIOUS
      <4>2. Matching(d)
        BY <3>1, <4>1 DEF SettledInv
      <4>3. Matching(d)'
        BY <1>1, <2>1, <2>2, <4>2, MatchingStays
      <4> QED  BY <2>1, <4>1, <4>3
    <3> QED  BY <3>1
  <2> QED  BY <2>1, <2>3 DEF SettledInv
<1>3. CASE SkipHandled \/ Scan \/ Interrupted \/ WalkOver \/ UnlinkDb
  <2>1. /\ UNCHANGED <<options, flags, disk, known, aged, repeated, stored, ninfo, settled, undisturbed>>
        /\ pc # "off" /\ ~Busy'
    BY <1>3 DEF SkipHandled, Scan, Looking, Interrupted, WalkOver, UnlinkDb, world, run, Busy
  <2>2. ~settled'
    BY <1>1, <2>1 DEF RunOK
  <2>3. CASE undisturbed
    <3>1. InRun
      BY <2>1, <2>3 DEF InRun
    <3> QED  BY <2>1, <2>2, <3>1, SettledStep
  <2> QED  BY <2>1, <2>2, <2>3 DEF SettledInv, InRun
<1>4. CASE VisitSource
  <2>1. /\ UNCHANGED <<options, flags, disk, known, aged, repeated, settled, undisturbed>>
        /\ pc # "off" /\ ~Busy' /\ Node \in Source \ stored /\ stored' = stored \cup {Node}
        /\ \A f \in File : ninfo'[f] = IF f = Node THEN [csig |-> MaxDriftCsig(Node, disk[Node].time),
                                                        time |-> disk[Node].time] ELSE ninfo[f]
    BY <1>1, <1>4 DEF VisitSource, Looking, world, run, Busy, RunOK
  <2>2. ~settled' /\ Node \in File /\ stored \subseteq File
    BY <1>1, <2>1 DEF RunOK, File
  <2>3. CASE undisturbed
    <3>1. InRun
      BY <2>1, <2>3 DEF InRun
    <3>2. \A f \in stored : ninfo'[f] = ninfo[f]
      BY <2>1, <2>2
    <3>3. \A f \in stored' \ stored :
             f \in File /\ ninfo'[f] = [csig |-> MaxDriftCsig(f, disk[f].time), time |-> disk[f].time]
      BY <2>1, <2>2
    <3> QED  BY <2>1, <2>2, <3>1, <3>2, <3>3, SettledStep
  <2> QED  BY <2>1, <2>2, <2>3 DEF SettledInv, InRun
<1>5. CASE FindCurrent
  <2>1. /\ UNCHANGED <<options, flags, disk, known, aged, repeated, settled, undisturbed>>
        /\ pc # "off" /\ ~Busy' /\ Node \in Target \ stored /\ stored' = stored \cup {Node}
        /\ ninfo' = [Decided(Node) EXCEPT ![Node] = [csig |-> MaxDriftCsig(Node, disk[Node].time),
                                                    time |-> disk[Node].time]]
    BY <1>5 DEF FindCurrent, Deciding, Looking, world, run, Busy
  <2>2. ~settled' /\ Node \in File /\ stored \subseteq File
    BY <1>1, <2>1 DEF RunOK, File
  <2>3. \A f \in File : ninfo'[f] = IF f = Node THEN [csig |-> MaxDriftCsig(Node, disk[Node].time),
                                                      time |-> disk[Node].time] ELSE Decided(Node)[f]
    BY <2>1 DEF Decided
  <2>4. CASE undisturbed
    <3>1. InRun
      BY <2>1, <2>4 DEF InRun
    <3>2. options.decider = "content" => \A f \in stored : ninfo'[f].csig \in {ninfo[f].csig, Csig(f)}
      BY <2>1, <2>2, <2>3, DecidedFields
    <3>3. \A f \in stored' \ stored :
             f \in File /\ ninfo'[f] = [csig |-> MaxDriftCsig(f, disk[f].time), time |-> disk[f].time]
      BY <2>1, <2>2, <2>3
    <3> QED  BY <2>1, <2>2, <3>1, <3>2, <3>3, SettledStep
  <2> QED  BY <2>1, <2>2, <2>4 DEF SettledInv, InRun
<1>6. CASE FindChanged
  <2>1. UNCHANGED <<repeated, undisturbed, settled>> /\ pc # "off"
    BY <1>6 DEF FindChanged, Deciding, Looking, run
  <2>2. ~(repeated /\ InRun)
    BY <1>6, NothingChanged
  <2>3. ~settled' /\ ~(repeated /\ undisturbed)
    BY <1>1, <2>1, <2>2 DEF RunOK, InRun
  <2> QED  BY <2>1, <2>3 DEF SettledInv, InRun
<1>7. CASE Begin \/ Copied \/ Acted \/ Failed
  <2>1. UNCHANGED <<repeated, undisturbed, settled>> /\ pc # "off" /\ Busy
    BY <1>7 DEF Begin, Copied, Acted, Built, Failed, run, Busy
  <2>2. ~settled' /\ ~(repeated /\ undisturbed)
    BY <1>1, <2>1 DEF RunOK, SettledInv, InRun
  <2> QED  BY <2>1, <2>2 DEF SettledInv, InRun
<1>8. CASE RenameDb
  <2>1. db' = Merged /\ UNCHANGED <<options, flags, disk, aged>> /\ settled' = (status = 0 /\ undisturbed)
        /\ pc = "rename" /\ ~InRun'
    BY <1>8 DEF RenameDb, ProcessEnds, world, InRun
  <2>2. ASSUME settled' PROVE Matching(db)'
    <3>1. PICK d : d = Merged
      OBVIOUS
    <3>2. Matching(d)
      BY <2>1, <2>2, <3>1, NowMatching
    <3>3. aged \in Nat
      BY <1>1 DEF DiskOK
    <3>4. Matching(d)'
      BY <1>1, <2>1, <3>2, <3>3, MatchingStays
    <3> QED  BY <2>1, <3>1, <3>4
  <2> QED  BY <2>1, <2>2 DEF SettledInv
<1>9. CASE Killed
  <2>1. ~settled' /\ ~InRun'
    BY <1>1, <1>9 DEF Killed, ProcessEnds, InRun, RunOK
  <2> QED  BY <2>1 DEF SettledInv
<1>10. CASE Edit \/ ChangeFlags \/ Delete
  <2>1. ~settled' /\ ~InRun'
    BY <1>10 DEF Edit, ChangeFlags, Delete, Disturb, InRun
  <2> QED  BY <2>1 DEF SettledInv
<1>11. CASE OthersPush
  <2>1. UNCHANGED <<options, flags, disk, db, known, aged, repeated, stored, ninfo, settled, undisturbed, pc>>
    BY <1>11 DEF OthersPush, run
  <2>2. aged \in Nat
    BY <1>1 DEF DiskOK
  <2>3. CASE settled
    <3>1. ~InRun'
      BY <1>1, <2>1, <2>3 DEF RunOK, InRun
    <3>2. PICK d : d = db
      OBVIOUS
    <3>3. Matching(d)
      BY <2>3, <3>2 DEF SettledInv
    <3>4. Matching(d)'
      BY <1>1, <2>1, <2>2, <3>3, MatchingStays
    <3> QED  BY <2>1, <3>1, <3>2, <3>4 DEF SettledInv
  <2>4. CASE ~settled /\ InRun /\ repeated
    <3>1. ~Busy' /\ InRun
      BY <2>1, <2>4 DEF SettledInv, Busy
    <3> QED  BY <2>1, <2>4, <3>1, SettledStep
  <2>5. CASE ~settled /\ ~(InRun /\ repeated)
    BY <2>1, <2>5 DEF SettledInv, InRun
  <2> QED  BY <2>3, <2>4, <2>5
<1> QED  BY <1>2, <1>3, <1>4, <1>5, <1>6, <1>7, <1>8, <1>9, <1>10, <1>11 DEF Next, RunStep

\* A run after a run that succeeded, with no change in between, builds nothing
\* and copies nothing: whatever decides, and whatever happened before.
THEOREM NothingTwiceHolds == Spec => []NothingTwice
<1>1. Init => SettledInv
  BY DEF Init, SettledInv
<1>2. Sound /\ KnowsInv /\ SettledInv /\ [Next]_vars => SettledInv'
  <2>1. ASSUME Sound, KnowsInv, SettledInv, UNCHANGED vars PROVE SettledInv'
    <3>1. UNCHANGED <<options, flags, disk, aged, known, db, settled, repeated, pc, undisturbed, stored, ninfo>>
      BY <2>1 DEF vars, world, run
    <3>2. DiskOK /\ aged \in Nat /\ (settled => ~InRun)
      BY <2>1 DEF Sound, DiskOK, RunOK, InRun
    <3>3. \A d : Matching(d) => Matching(d)'
      BY <3>1, <3>2, MatchingStays
    <3>4. settled' => Matching(db)'
      BY <2>1, <3>1, <3>3 DEF SettledInv
    <3>5. CASE InRun /\ repeated
      <4>1. ~settled' /\ ~Busy'
        BY <2>1, <3>1, <3>2, <3>5 DEF SettledInv, Busy
      <4> QED  BY <2>1, <3>1, <3>5, <4>1, SettledStep
    <3>6. CASE ~(InRun /\ repeated)
      BY <3>1, <3>4, <3>6 DEF SettledInv, InRun
    <3> QED  BY <3>5, <3>6
  <2> QED  BY <2>1, SettledNext
<1>3. RunOK /\ SettledInv => NothingTwice
  BY DEF SettledInv, NothingTwice, InRun, Busy
<1>4. Knows => Sound /\ KnowsInv /\ RunOK
  BY DEF Knows, Sound
<1> QED  BY <1>1, <1>2, <1>3, <1>4, KnowsHolds, PTL DEF Spec


----------------------------------------------------------------------------
(* The cache is honest.                                                    *)

LEMMA CompiledIsSig ==
  ASSUME NEW t, kids[t] = RealKids(t), \A c \in ToSet(kids[t]) : Csig(c) = disk[c].content
  PROVE  Compiled(t) = BuildSig(t)
<1>1. \A i \in DOMAIN kids[t] : kids[t][i] \in ToSet(kids[t])
  BY DEF ToSet
<1>2. [i \in DOMAIN kids[t] |-> Csig(kids[t][i])] = [i \in DOMAIN kids[t] |-> disk[kids[t][i]].content]
  BY <1>1
<1> QED  BY <1>2 DEF Compiled, BuildSig

\* The question for a cached file does not change the signature it asks for.
LEMMA BeginSig ==
  ASSUME Sound, Begin, options.cache
  PROVE  BuildSig(Node)' = BuildSig(Node)
<1>1. Busy /\ RunOK
  BY DEF Sound, Begin, Busy
<1>2. todo # <<>> /\ Node \in Target \ stored /\ Known(Node)
  BY <1>1 DEF RunOK, Known
<1>3. \A c \in ToSet(kids[Node]) : c \in File /\ disk[c].content # None
  BY <1>2, KidContents
<1>4. Node' = Node /\ kids' = kids /\ flags' = flags /\ ninfo' = WithCsigs(Node)
  BY DEF Begin, Node, run, world
<1>5. \A c \in ToSet(kids[Node]) : ninfo'[c].csig = Csig(c) /\ Csig(c) # None
  BY <1>3, <1>4 DEF WithCsigs, Csig
<1>6. \A c \in ToSet(kids[Node]) : Csig(c)' = Csig(c)
  BY <1>5 DEF Csig
<1>7. \A i \in DOMAIN kids[Node] : kids[Node][i] \in ToSet(kids[Node])
  BY DEF ToSet
<1> QED  BY <1>4, <1>6, <1>7 DEF BuildSig

LEMMA OptionsStay ==
  ASSUME Next
  PROVE  options' = options
BY DEF Next, RunStep, Start, SkipHandled, VisitSource, Scan, FindCurrent, FindChanged, Begin, Copied, Acted,
       Built, Failed, Interrupted, WalkOver, UnlinkDb, RenameDb, Killed, Edit, ChangeFlags, Delete,
       OthersPush, Disturb, world

LEMMA CacheNext ==
  ASSUME HonestOptions, Sound, KnowsInv, CacheInv, Next
  PROVE  CacheInv'
<1>1. DiskOK /\ RunOK /\ WalkInv
  BY DEF Sound
<1>2. options.cache => ~options.midway /\ ~options.drift /\ options.decider # "MD5-timestamp"
  BY DEF HonestOptions
<1>3. options' = options
  BY OptionsStay
<1>4. undisturbed' \/ options'.midway
  BY <1>3 DEF CacheInv, Next, RunStep, Start, SkipHandled, VisitSource, Scan, FindCurrent, FindChanged, Begin,
         Copied, Acted, Built, Failed, Interrupted, WalkOver, UnlinkDb, RenameDb, Killed, ProcessEnds,
         Edit, ChangeFlags, Delete, OthersPush, Disturb, Idle
<1>5. CASE Begin
  <2>1. cache' = cache
    BY <1>5 DEF Begin
  <2>2. CASE options.cache /\ pc' = "act"
    <3>1. Busy /\ InRun /\ output' = Compiled(Node)
      BY <1>2, <1>5, <2>2 DEF Begin, Busy, InRun, CacheInv
    <3>2. todo # <<>> /\ Node \in Target \ stored /\ Known(Node)
      BY <1>1, <3>1 DEF RunOK, Known
    <3>3. kids[Node] = RealKids(Node) /\ \A c \in stored : ninfo[c].csig \in {None, disk[c].content}
      BY <1>2, <2>2, <3>1, <3>2 DEF KnowsInv, Old
    <3>4. \A c \in ToSet(kids[Node]) : c \in stored
      BY <3>2, KidContents
    <3>5. \A c \in ToSet(kids[Node]) : Csig(c) = disk[c].content
      BY <3>3, <3>4 DEF Csig
    <3>6. Compiled(Node) = BuildSig(Node)
      BY <3>3, <3>5, CompiledIsSig
    <3>7. BuildSig(Node)' = BuildSig(Node)
      BY <1>5, <2>2, BeginSig
    <3> QED  BY <1>4, <2>1, <3>1, <3>6, <3>7 DEF CacheInv, CacheHonest
  <2>3. CASE ~(options.cache /\ pc' = "act")
    BY <1>3, <1>4, <2>1, <2>3 DEF CacheInv, CacheHonest
  <2> QED  BY <2>2, <2>3
<1>6. CASE Acted
  <2> DEFINE key  == BuildSig(Node)
             file == [content |-> output, time |-> now]
  <2>1. pc = "act" /\ pc' # "act"
    BY <1>6 DEF Acted, Built
  <2>2. \/ cache' = cache
        \/ options.cache /\ cache' = [k \in DOMAIN cache \cup {key} |-> IF k = key THEN file ELSE cache[k]]
    BY <1>6 DEF Acted
  <2>3. options.cache => file.content = key
    BY <2>1 DEF CacheInv
  <2> HIDE DEF key, file
  <2>4. CacheHonest'
    BY <2>2, <2>3 DEF CacheInv, CacheHonest
  <2> QED  BY <1>4, <2>1, <2>4 DEF CacheInv
<1>7. CASE OthersPush
  <2>1. PICK t \in Target :
           cache' = [k \in DOMAIN cache \cup {Compiled(t)} |->
                        IF k = Compiled(t) THEN [content |-> Compiled(t), time |-> now'] ELSE cache[k]]
    BY <1>7 DEF OthersPush
  <2>2. CacheHonest'
    BY <2>1 DEF CacheInv, CacheHonest
  <2>3. pc' = "act" /\ options.cache => FALSE
    BY <1>2, <1>7 DEF OthersPush, Idle
  <2> QED  BY <1>3, <1>4, <2>2, <2>3 DEF CacheInv
<1>8. CASE Edit \/ ChangeFlags \/ Delete
  <2>1. cache' = cache /\ pc' = pc /\ (options.cache => pc = "off")
    BY <1>2, <1>8 DEF Edit, ChangeFlags, Delete, Disturb, Idle
  <2> QED  BY <1>3, <1>4, <2>1 DEF CacheInv, CacheHonest
<1>9. CASE Start \/ SkipHandled \/ VisitSource \/ Scan \/ FindCurrent \/ FindChanged \/ Copied \/ Failed
           \/ Interrupted \/ WalkOver \/ UnlinkDb \/ RenameDb \/ Killed
  <2>1. cache' = cache /\ pc' # "act"
    BY <1>9 DEF Start, SkipHandled, VisitSource, Scan, FindCurrent, FindChanged, Deciding, Looking, Copied, Built,
                Failed, Interrupted, WalkOver, UnlinkDb, RenameDb, Killed, ProcessEnds
  <2> QED  BY <1>4, <2>1 DEF CacheInv, CacheHonest
<1> QED  BY <1>5, <1>6, <1>7, <1>8, <1>9 DEF Next, RunStep

LEMMA CacheAlways == Spec /\ HonestOptions => []CacheInv
<1>1. Init => CacheInv
  BY DEF Init, CacheInv, CacheHonest
<1>2. HonestOptions /\ Sound /\ KnowsInv /\ CacheInv /\ [Next]_vars => HonestOptions' /\ CacheInv'
  <2>1. HonestOptions /\ [Next]_vars => HonestOptions'
    BY OptionsStay DEF HonestOptions, vars, world
  <2>2. HonestOptions /\ Sound /\ KnowsInv /\ CacheInv /\ Next => CacheInv'
    BY CacheNext
  <2>3. CacheInv /\ UNCHANGED vars => CacheInv'
    BY DEF vars, world, run, CacheInv, CacheHonest, BuildSig, Csig, Node
  <2> QED  BY <2>1, <2>2, <2>3
<1>3. Knows => Sound /\ KnowsInv
  BY DEF Knows
<1> QED  BY <1>1, <1>2, <1>3, KnowsHolds, PTL DEF Spec

\* Whatever the cache holds under a build signature was made from what the
\* signature stands for, however runs are killed, fail or are interrupted, if
\* nobody edits a file while SCons runs and signatures are those of contents.
THEOREM CacheHonestHolds == Spec /\ HonestOptions => []CacheHonest
<1>1. CacheInv => CacheHonest
  BY DEF CacheInv
<1> QED  BY <1>1, CacheAlways, PTL


----------------------------------------------------------------------------
(* A run that succeeds leaves what a build from scratch would.             *)

Remembers == Sound /\ KnowsInv /\ CacheInv /\ RememberedInv

\* What CompleteOptions says of the options at hand.
LEMMA CompleteHere ==
  ASSUME CompleteOptions, DiskOK
  PROVE  /\ options.decider = "content" /\ ~options.midway /\ ~options.kills /\ ~options.stops
         /\ ~(options.drift /\ options.cache)
BY DEF CompleteOptions

\* What would be made of a file's children stays if they do.
LEMMA CompiledStays ==
  ASSUME NEW t \in Target, RealKids(t) \in Seq(File), flags' = flags,
         \A f \in Source \cup ToSet(RealKids(t)) : disk'[f] = disk[f]
  PROVE  Compiled(t)' = Compiled(t)
<1>1. RealKids(t)' = RealKids(t)
  BY RealKidsStay
<1>2. \A i \in DOMAIN RealKids(t) : RealKids(t)[i] \in ToSet(RealKids(t))
  BY DEF ToSet
<1>3. [i \in DOMAIN RealKids(t) |-> disk'[RealKids(t)[i]].content] =
      [i \in DOMAIN RealKids(t) |-> disk[RealKids(t)[i]].content]
  BY <1>2
<1> QED  BY <1>1, <1>3 DEF Compiled

\* The children of a target that has been scanned are those its action reads.
LEMMA RunKids ==
  ASSUME Sound, KnowsInv, InRun, NEW t \in Target, Known(t)
  PROVE  kids[t] = RealKids(t) /\ RealKids(t) \in Seq(File) /\ kids[t] \in Seq(File)
BY RealKidsType DEF KnowsInv, Sound, ChildrenOf

\* A step that goes on with the run: whatever it handles is what it should be.
LEMMA RememberedStep ==
  ASSUME Sound, KnowsInv, RememberedInv, InRun, UNCHANGED <<now, flags, known, status>>, pc' # "off",
         stored \subseteq stored',
         \A t \in Target : Handled(t) => Handled(t)',
         \A f \in Source \cup stored : disk'[f] = disk[f],
         \A t \in Target : ~Handled(t)' => disk'[t] = disk[t],
         \A f \in stored : ninfo'[f].csig \in {ninfo[f].csig, Csig(f)},
         \A f \in stored' \ stored : ninfo'[f].csig \in {None, disk'[f].content},
         \A t \in Target \cap (stored' \ stored) :
            /\ Known(t) /\ ToSet(kids[t]) \subseteq stored /\ disk'[t].content = Compiled(t)
            /\ ninfo'[t].csig = None => known[t].csig \in {None, disk'[t].content},
         pc' \in {"copy", "act"} => /\ Node' \in Target /\ Known(Node') /\ ToSet(kids[Node']) \subseteq stored
                                    /\ output' = Compiled(Node')
  PROVE  RememberedInv'
<1>1. DiskOK /\ RunOK /\ WalkInv /\ pc # "off"
  BY DEF Sound, InRun
<1>2. status' = 0
  BY DEF RememberedInv
<1>3. \A t \in Target : ~Handled(t)' => TrueOfTarget(known, t)'
  BY <1>1 DEF RememberedInv, TrueOfTarget, Exists
<1>4. \A s \in Source : TrueOfSource(known, s)'
  BY <1>1 DEF RememberedInv, TrueOfSource
<1>5. ASSUME NEW f \in stored' PROVE ninfo'[f].csig \in {None, disk'[f].content}
  <2>1. CASE f \in stored
    BY <1>1, <2>1 DEF RememberedInv, Csig
  <2>2. CASE f \notin stored
    BY <1>5, <2>2
  <2> QED  BY <2>1, <2>2
<1>6. ASSUME NEW t \in Target, Known(t), ToSet(kids[t]) \subseteq stored
      PROVE  Compiled(t)' = Compiled(t)
  <2>1. kids[t] = RealKids(t) /\ RealKids(t) \in Seq(File)
    BY <1>6, RunKids
  <2> QED  BY <1>6, <2>1, CompiledStays
<1>7. ASSUME NEW t \in Target \cap stored'
      PROVE  /\ disk'[t].content = Compiled(t)'
             /\ ninfo'[t].csig = None => known[t].csig \in {None, disk'[t].content}
  <2>1. CASE t \in stored
    <3>1. Known(t) /\ ToSet(kids[t]) \subseteq stored
      BY <1>1, <2>1 DEF WalkInv
    <3>2. disk[t].content = Compiled(t) /\ (ninfo[t].csig = None => known[t].csig \in {None, disk[t].content})
      BY <1>1, <2>1 DEF RememberedInv
    <3>3. disk[t].content # None
      BY <1>1, <2>1 DEF DiskOK, RunOK, Exists
    <3> QED  BY <1>6, <2>1, <3>1, <3>2, <3>3 DEF Csig
  <2>2. CASE t \notin stored
    BY <1>6, <1>7, <2>2
  <2> QED  BY <2>1, <2>2
<1>8. pc' \in {"copy", "act"} => output' = Compiled(Node)'
  <2>1. ASSUME pc' \in {"copy", "act"} PROVE output' = Compiled(Node)'
    <3>1. PICK t \in Target : t = Node'
      BY <2>1
    <3>2. Compiled(t)' = Compiled(t)
      BY <1>6, <2>1, <3>1
    <3> QED  BY <2>1, <3>1, <3>2
  <2> QED  BY <2>1
<1>9. known' = known
  OBVIOUS
<1> QED  BY <1>2, <1>3, <1>4, <1>5, <1>7, <1>8, <1>9 DEF RememberedInv


\* A signature from .sconsign is believed only if it is right.
LEMMA DriftRight ==
  ASSUME RememberedInv, pc # "off", NEW f \in File, f \in Target => ~Handled(f) /\ Exists(f)
  PROVE  MaxDriftCsig(f, disk[f].time) \in {None, disk[f].content}
<1>1. f \in Source \/ f \in Target
  BY DEF File
<1>2. CASE f \in Source
  BY <1>2 DEF RememberedInv, TrueOfSource, MaxDriftCsig
<1>3. CASE f \in Target
  BY <1>3 DEF RememberedInv, TrueOfTarget, MaxDriftCsig
<1> QED  BY <1>1, <1>2, <1>3

\* A target that is found current is what its action would make.
LEMMA CurrentRight ==
  ASSUME Sound, KnowsInv, RememberedInv, InRun, options.decider = "content", FindCurrent
  PROVE  disk[Node].content = Compiled(Node)
<1>1. DiskOK /\ RunOK /\ pc = "walk"
  BY DEF Sound, FindCurrent, Deciding, Looking
<1>2. Node \in Target \ stored /\ todo # <<>> /\ Known(Node) /\ Exists(Node) /\ ~Changed(Node) /\ ~Handled(Node)
  BY <1>1 DEF FindCurrent, Deciding, Looking, Known, Handled, Busy
<1>3. \A c \in ToSet(kids[Node]) : c \in stored
  BY <1>2, KidContents
<1>4. kids[Node] = RealKids(Node) /\ kids[Node] \in Seq(File)
  BY <1>2, RunKids
<1>5. /\ Len(kids[Node]) = Len(known[Node].sigs) /\ known[Node].act = flags
      /\ \A i \in DOMAIN kids[Node] : Csig(kids[Node][i]) = Before(Node, i).csig
  BY <1>2 DEF Changed, ChangedSinceLastBuild
<1>6. DOMAIN known[Node].sigs = DOMAIN kids[Node]
  BY <1>1, <1>2, <1>4, <1>5 DEF RememberedInv, TrueOfTarget
<1>7. \A i \in DOMAIN kids[Node] : known[Node].sigs[i].csig = disk[kids[Node][i]].content
  <2>1. ASSUME NEW i \in DOMAIN kids[Node] PROVE known[Node].sigs[i].csig = disk[kids[Node][i]].content
    <3>1. Before(Node, i) = known[Node].sigs[i]
      BY <1>4, <1>5 DEF Before
    <3>2. kids[Node][i] \in stored
      BY <1>3 DEF ToSet
    <3>3. Csig(kids[Node][i]) = disk[kids[Node][i]].content
      BY <1>1, <3>2 DEF RememberedInv, Csig
    <3> QED  BY <1>5, <3>1, <3>3
  <2> QED  BY <2>1
<1>8. [i \in DOMAIN known[Node].sigs |-> known[Node].sigs[i].csig] =
      [i \in DOMAIN RealKids(Node) |-> disk[RealKids(Node)[i]].content]
  BY <1>4, <1>6, <1>7
<1>9. known[Node].act # "none"
  BY <1>1, <1>5, OptionAssumption DEF DiskOK
<1>10. disk[Node].content = Made(Node, known[Node].act,
                                 [i \in DOMAIN known[Node].sigs |-> known[Node].sigs[i].csig])
  BY <1>1, <1>2, <1>9 DEF RememberedInv, TrueOfTarget
<1> QED  BY <1>5, <1>8, <1>10 DEF Compiled

\* What a run that succeeded writes is true.
LEMMA MergedRight ==
  ASSUME Sound, KnowsInv, RememberedInv, InRun, options.decider = "content", pc = "rename"
  PROVE  /\ \A t \in Target : TrueOfTarget(Merged, t) /\ disk[t].content = Compiled(t)
         /\ \A s \in Source : TrueOfSource(Merged, s)
<1>1. DiskOK /\ RunOK /\ WalkInv /\ pc # "off" /\ status = 0
  BY DEF Sound, RememberedInv
<1>2. Target \subseteq stored
  BY <1>1, AllStored
<1>3. \A t \in Target : Known(t) /\ ToSet(kids[t]) \subseteq stored /\ Asked(t)
  BY <1>1, <1>2 DEF WalkInv, KnowsInv
<1>4. \A f \in stored : f \in File /\ ninfo[f].csig \in {None, disk[f].content} /\ ninfo[f].time = disk[f].time
  BY <1>1 DEF RememberedInv, KnowsInv, RunOK
<1>5. ASSUME NEW t \in Target
      PROVE  TrueOfTarget(Merged, t) /\ disk[t].content = Compiled(t)
  <2>1. t \in stored /\ t \in File /\ t \notin Source /\ kids[t] = RealKids(t) /\ kids[t] \in Seq(File)
    BY <1>2, <1>3, RunKids, FileAssumption DEF File
  <2>2. disk[t].content = Compiled(t) /\ (ninfo[t].csig = None => known[t].csig \in {None, disk[t].content})
    BY <1>1, <2>1 DEF RememberedInv
  <2>3. Merged[t] = [csig |-> IF ninfo[t].csig # None THEN ninfo[t].csig ELSE known[t].csig,
                     time |-> ninfo[t].time, sigs |-> Signatures(t), act |-> flags]
    BY <2>1 DEF Merged
  <2>4. /\ Len(Signatures(t)) = Len(kids[t]) /\ DOMAIN Signatures(t) = DOMAIN kids[t]
        /\ \A i \in DOMAIN kids[t] : Signatures(t)[i] = ninfo[kids[t][i]] /\ kids[t][i] \in ToSet(kids[t])
    BY <2>1, SignaturesLength
  <2>5. \A i \in DOMAIN kids[t] : Signatures(t)[i].csig = disk[kids[t][i]].content
    BY <1>3, <1>4, <2>4 DEF Asked
  <2>6. [i \in DOMAIN Signatures(t) |-> Signatures(t)[i].csig] =
        [i \in DOMAIN RealKids(t) |-> disk[RealKids(t)[i]].content]
    BY <2>1, <2>4, <2>5
  <2>7. DOMAIN Signatures(t) = 1..Len(Signatures(t))
    BY <2>1, <2>4
  <2>8. Merged[t].csig \in {None, disk[t].content}
    BY <1>4, <2>1, <2>2, <2>3
  <2>9. Compiled(t) = Made(t, Merged[t].act, [i \in DOMAIN Merged[t].sigs |-> Merged[t].sigs[i].csig])
    BY <2>3, <2>6 DEF Compiled
  <2> QED  BY <2>2, <2>3, <2>7, <2>8, <2>9 DEF TrueOfTarget
<1>6. ASSUME NEW s \in Source
      PROVE  TrueOfSource(Merged, s)
  <2>1. s \in File /\ disk[s].time \in 0..now
    BY <1>1 DEF DiskOK, File
  <2>2. CASE s \in stored
    <3>1. PICK t \in Target : Known(t) /\ s \in ToSet(kids[t])
      BY <1>1, <2>2 DEF WalkInv, InWalk
    <3>2. ninfo[s].csig # None /\ ninfo[s].csig = disk[s].content /\ ninfo[s].time = disk[s].time
      BY <1>3, <1>4, <2>2, <3>1 DEF Asked
    <3>3. Merged[s].csig = disk[s].content /\ Merged[s].time = disk[s].time
      BY <2>1, <2>2, <3>2 DEF Merged
    <3> QED  BY <2>1, <3>3 DEF TrueOfSource
  <2>3. CASE s \notin stored
    <3>1. Merged[s] = known[s]
      BY <2>1, <2>3 DEF Merged
    <3> QED  BY <1>1, <3>1 DEF RememberedInv, TrueOfSource
  <2> QED  BY <2>2, <2>3
<1> QED  BY <1>5, <1>6


LEMMA RememberedNext ==
  ASSUME CompleteOptions, Sound, KnowsInv, CacheInv, RememberedInv, Next
  PROVE  RememberedInv'
<1>1. DiskOK /\ RunOK /\ WalkInv
  BY DEF Sound
<1>2. /\ options.decider = "content" /\ ~options.midway /\ ~options.kills /\ ~options.stops
      /\ ~(options.drift /\ options.cache)
  BY <1>1, CompleteHere
<1>3. undisturbed /\ status = 0 /\ stored \subseteq File /\ now \in Nat
  BY <1>1, <1>2 DEF CacheInv, RememberedInv, RunOK, DiskOK
<1>4. pc # "off" => InRun
  BY <1>3 DEF InRun
<1>5. CASE Start
  <2>1. /\ pc = "off" /\ pc' = "walk" /\ known' = db /\ stored' = {} /\ ~Busy' /\ UNCHANGED <<now, disk, status>>
    BY <1>1, <1>5 DEF Start, RunOK, Busy, world
  <2>3. \A t \in Target : TrueOfTarget(known, t)'
    BY <2>1 DEF RememberedInv, TrueOfTarget, Exists
  <2>4. \A s \in Source : TrueOfSource(known, s)'
    BY <2>1 DEF RememberedInv, TrueOfSource
  <2> QED  BY <1>3, <2>1, <2>3, <2>4 DEF RememberedInv
<1>6. CASE SkipHandled \/ Scan \/ WalkOver \/ UnlinkDb
  <2>1. /\ UNCHANGED <<now, flags, known, status, disk, ninfo, stored>> /\ pc # "off" /\ ~Busy /\ ~Busy'
        /\ pc' \notin {"off", "copy", "act"}
    BY <1>6 DEF SkipHandled, Scan, Looking, WalkOver, UnlinkDb, world, run, Busy
  <2>2. \A t \in Target : Handled(t) => Handled(t)'
    BY <2>1 DEF Handled
  <2> QED  BY <1>4, <2>1, <2>2, RememberedStep
<1>7. CASE VisitSource
  <2>1. /\ UNCHANGED <<now, flags, known, status, disk>> /\ pc = "walk" /\ pc' = "walk" /\ Node \in Source \ stored
        /\ stored' = stored \cup {Node} /\ Node \in File /\ Node \notin Target
        /\ \A f \in File : ninfo'[f] = IF f = Node THEN [csig |-> MaxDriftCsig(Node, disk[Node].time),
                                                        time |-> disk[Node].time] ELSE ninfo[f]
    BY <1>1, <1>7, FileAssumption DEF VisitSource, Looking, world, run, RunOK, File
  <2>2. \A t \in Target : Handled(t) => Handled(t)'
    BY <2>1 DEF Handled, Busy
  <2>3. MaxDriftCsig(Node, disk[Node].time) \in {None, disk[Node].content}
    BY <2>1, DriftRight
  <2>4. \A f \in stored' \ stored : ninfo'[f].csig \in {None, disk'[f].content}
    BY <2>1, <2>3
  <2>5. \A f \in stored : ninfo'[f].csig \in {ninfo[f].csig, Csig(f)}
    BY <1>3, <2>1
  <2>6. Target \cap (stored' \ stored) = {}
    BY <2>1
  <2> QED  BY <1>4, <2>1, <2>2, <2>4, <2>5, <2>6, RememberedStep
<1>8. CASE FindCurrent
  <2>1. /\ UNCHANGED <<now, flags, known, status, disk>> /\ pc = "walk" /\ pc' = "walk" /\ Node \in Target \ stored
        /\ todo # <<>> /\ Known(Node) /\ Exists(Node) /\ stored' = stored \cup {Node} /\ Node \in File
        /\ ninfo' = [Decided(Node) EXCEPT ![Node] = [csig |-> MaxDriftCsig(Node, disk[Node].time),
                                                    time |-> disk[Node].time]]
    BY <1>8 DEF FindCurrent, Deciding, Looking, world, run, Known, File
  <2>2. \A f \in File : ninfo'[f] = IF f = Node THEN [csig |-> MaxDriftCsig(Node, disk[Node].time),
                                                      time |-> disk[Node].time] ELSE Decided(Node)[f]
    BY <2>1 DEF Decided
  <2>3. ~Handled(Node) /\ \A t \in Target : Handled(t) => Handled(t)'
    BY <2>1 DEF Handled, Busy
  <2>4. MaxDriftCsig(Node, disk[Node].time) \in {None, disk[Node].content}
    BY <2>1, <2>3, DriftRight
  <2>5. \A f \in stored : ninfo'[f].csig \in {ninfo[f].csig, Csig(f)}
    BY <1>2, <1>3, <2>1, <2>2, DecidedFields
  <2>6. disk[Node].content = Compiled(Node)
    BY <1>2, <1>4, <1>8, <2>1, CurrentRight
  <2>7. ToSet(kids[Node]) \subseteq stored
    BY <1>1, <2>1, KidsStored
  <2>8. known[Node].csig \in {None, disk[Node].content}
    BY <2>1, <2>3 DEF RememberedInv, TrueOfTarget
  <2>9. \A f \in stored' \ stored : ninfo'[f].csig \in {None, disk'[f].content}
    BY <2>1, <2>2, <2>4
  <2>10. \A t \in Target \cap (stored' \ stored) :
            /\ Known(t) /\ ToSet(kids[t]) \subseteq stored /\ disk'[t].content = Compiled(t)
            /\ ninfo'[t].csig = None => known[t].csig \in {None, disk'[t].content}
    BY <2>1, <2>6, <2>7, <2>8
  <2> QED  BY <1>4, <2>1, <2>3, <2>5, <2>9, <2>10, RememberedStep
<1>9. CASE FindChanged
  <2>1. /\ UNCHANGED <<now, flags, known, status, stored, todo>> /\ pc = "walk" /\ pc' = "execute"
        /\ Node \in Target \ stored /\ ninfo' = Decided(Node) /\ disk' = [disk EXCEPT ![Node] = Gone]
    BY <1>9 DEF FindChanged, Deciding, Looking, world, run
  <2>2. Node' = Node /\ Node \in File /\ Node \notin Source
    BY <2>1, FileAssumption DEF Node, File
  <2>3. \A f \in File : f # Node => disk'[f] = disk[f]
    BY <1>1, <2>1 DEF DiskOK
  <2>4. \A f \in Source \cup stored : disk'[f] = disk[f]
    BY <1>3, <2>1, <2>2, <2>3 DEF File
  <2>5. (\A t \in Target : Handled(t) => Handled(t)') /\ \A t \in Target : ~Handled(t)' => disk'[t] = disk[t]
    BY <2>1, <2>2, <2>3 DEF Handled, Busy, File
  <2>6. \A f \in stored : ninfo'[f].csig \in {ninfo[f].csig, Csig(f)}
    BY <1>2, <1>3, <2>1, DecidedFields
  <2> QED  BY <1>4, <2>1, <2>4, <2>5, <2>6, RememberedStep
<1>10. CASE Begin
  <2>1. /\ UNCHANGED <<now, flags, known, status, stored, todo, kids>> /\ pc = "execute" /\ pc' \in {"copy", "act"}
        /\ ninfo' \in {WithCsigs(Node), ninfo} /\ disk' = [disk EXCEPT ![Node] = [content |-> Partial(Node), time |-> now]]
    BY <1>10 DEF Begin, world, run
  <2>2. Busy /\ Busy'
    BY <2>1 DEF Busy
  <2>3. todo # <<>> /\ Node \in Target \ stored /\ Known(Node) /\ Node' = Node /\ Node \in File /\ Node \notin Source
    BY <1>1, <2>1, <2>2, FileAssumption DEF RunOK, Known, Node, File
  <2>4. \A f \in File : f # Node => disk'[f] = disk[f]
    BY <1>1, <2>1 DEF DiskOK
  <2>5. \A f \in Source \cup stored : disk'[f] = disk[f]
    BY <1>3, <2>3, <2>4 DEF File
  <2>6. (\A t \in Target : Handled(t) => Handled(t)') /\ \A t \in Target : ~Handled(t)' => disk'[t] = disk[t]
    BY <2>1, <2>2, <2>3, <2>4 DEF Handled, File
  <2>7. \A f \in stored : ninfo'[f].csig \in {ninfo[f].csig, Csig(f)}
    BY <1>3, <2>1, <2>3, WithCsigsFields
  <2>8. ToSet(kids[Node]) \subseteq stored
    BY <1>1, <2>3, KidsStored
  <2>9. output' = Compiled(Node)
    <3>1. output' = Compiled(Node) \/ (BuildSig(Node) \in DOMAIN cache /\ output' = cache[BuildSig(Node)].content)
      BY <1>10 DEF Begin, Cached
    <3>2. \A c \in ToSet(kids[Node]) : Csig(c) = disk[c].content
      BY <2>1, <2>8 DEF RememberedInv, Csig
    <3>3. kids[Node] = RealKids(Node)
      BY <1>4, <2>1, <2>3, RunKids
    <3>4. Compiled(Node) = BuildSig(Node)
      BY <3>2, <3>3, CompiledIsSig
    <3> QED  BY <3>1, <3>4 DEF CacheInv, CacheHonest
  <2> QED  BY <1>4, <2>1, <2>3, <2>5, <2>6, <2>7, <2>8, <2>9, RememberedStep
<1>11. CASE Copied \/ Acted
  <2>1. PICK time : Built(output, time) /\ (options.cache \/ time = now)
    <3>1. CASE Copied
      <4>1. PICK time : Built(output, time)
        BY <3>1 DEF Copied
      <4>2. options.cache
        BY <1>1, <3>1 DEF Copied, RunOK
      <4> QED  BY <4>1, <4>2
    <3>2. CASE Acted
      BY <3>2 DEF Acted
    <3> QED  BY <1>11, <3>1, <3>2
  <2>2. Busy /\ pc \in {"copy", "act"} /\ output # None /\ output = Compiled(Node)
    BY <1>1, <1>11 DEF Copied, Acted, Busy, RunOK, DiskOK, RememberedInv
  <2>3. todo # <<>> /\ Node \in Target \ stored /\ Known(Node) /\ Node \in File /\ Node \notin Source
    BY <1>1, <2>2, FileAssumption DEF RunOK, Known, File
  <2>4. /\ UNCHANGED <<now, flags, known, status, kids>> /\ stored' = stored \cup {Node} /\ pc' = "walk"
        /\ \A f \in File : disk'[f] = IF f = Node THEN [content |-> output, time |-> time] ELSE disk[f]
        /\ \A f \in File : ninfo'[f] =
              IF f = Node THEN [csig |-> IF MaxDriftCsig(Node, time) # None THEN MaxDriftCsig(Node, time) ELSE output,
                                time |-> time]
              ELSE ninfo[f]
    BY <1>1, <2>1 DEF Built, world, run, DiskOK, RunOK
  <2>5. MaxDriftCsig(Node, time) = None
    BY <1>1, <1>2, <2>1 DEF MaxDriftCsig, DiskOK
  <2>6. ninfo'[Node].csig = output /\ disk'[Node].content = output
    BY <2>3, <2>4, <2>5
  <2>7. ToSet(kids[Node]) \subseteq stored
    BY <1>1, <2>3, KidsStored
  <2>8. \A f \in Source \cup stored : disk'[f] = disk[f]
    BY <1>3, <2>3, <2>4 DEF File
  <2>9. \A f \in stored : ninfo'[f] = ninfo[f]
    BY <1>3, <2>3, <2>4
  <2>10. (\A t \in Target : Handled(t) => Handled(t)') /\ \A t \in Target : ~Handled(t)' => disk'[t] = disk[t]
    BY <2>3, <2>4 DEF Handled, File, Busy
  <2>11. \A f \in stored' \ stored : ninfo'[f].csig \in {None, disk'[f].content}
    BY <2>4, <2>6
  <2>12. \A t \in Target \cap (stored' \ stored) :
            /\ Known(t) /\ ToSet(kids[t]) \subseteq stored /\ disk'[t].content = Compiled(t)
            /\ ninfo'[t].csig = None => known[t].csig \in {None, disk'[t].content}
    BY <2>2, <2>3, <2>4, <2>6, <2>7
  <2> QED  BY <1>4, <2>2, <2>4, <2>8, <2>9, <2>10, <2>11, <2>12, RememberedStep
<1>12. ~Failed /\ ~Interrupted /\ ~Killed
  BY <1>2 DEF Failed, Interrupted, Killed
<1>13. CASE RenameDb
  <2>1. /\ db' = Merged /\ pc = "rename" /\ pc' = "off" /\ status' = 0 /\ UNCHANGED <<disk, now, flags>>
    BY <1>13 DEF RenameDb, ProcessEnds, world
  <2>2. PICK d : d = Merged
    OBVIOUS
  <2>3. (\A t \in Target : TrueOfTarget(d, t)) /\ \A s \in Source : TrueOfSource(d, s)
    BY <1>2, <1>4, <2>1, <2>2, MergedRight
  <2>4. (\A t \in Target : TrueOfTarget(d, t)') /\ \A s \in Source : TrueOfSource(d, s)'
    BY <2>1, <2>3 DEF TrueOfTarget, TrueOfSource, Exists
  <2> QED  BY <2>1, <2>2, <2>4 DEF RememberedInv
<1>14. CASE Edit \/ ChangeFlags \/ Delete \/ OthersPush
  <2>1. pc = "off" /\ UNCHANGED <<pc, db, status>> /\ now' \in {now, now + 1}
    BY <1>2, <1>14 DEF Edit, ChangeFlags, Delete, OthersPush, Disturb, Idle
  <2>2. /\ \A t \in Target : disk'[t] = disk[t] \/ disk'[t] = Gone
        /\ \A s \in Source : disk'[s] = disk[s] \/ disk'[s].time = now + 1
    <3>1. CASE Edit
      <4>1. PICK s \in Source : \E i \in DOMAIN Contents[s] :
               disk' = [disk EXCEPT ![s] = [content |-> Contents[s][i], time |-> now']]
        BY <3>1 DEF Edit
      <4>2. PICK i \in DOMAIN Contents[s] : disk' = [disk EXCEPT ![s] = [content |-> Contents[s][i], time |-> now']]
        BY <4>1
      <4>3. s \notin Target /\ now' = now + 1
        BY <3>1, FileAssumption DEF Edit
      <4>4. \A f \in File : disk'[f] = IF f = s THEN [content |-> Contents[s][i], time |-> now'] ELSE disk[f]
        BY <1>1, <4>2 DEF DiskOK
      <4> QED  BY <4>3, <4>4 DEF File
    <3>2. CASE ChangeFlags \/ OthersPush
      BY <3>2 DEF ChangeFlags, OthersPush
    <3>3. CASE Delete
      <4>1. PICK t \in Target : disk' = [disk EXCEPT ![t] = Gone]
        BY <3>3 DEF Delete
      <4>2. t \notin Source
        BY FileAssumption
      <4> QED  BY <1>1, <4>1, <4>2 DEF DiskOK, File
    <3> QED  BY <1>14, <3>1, <3>2, <3>3
  <2>3. ASSUME NEW t \in Target PROVE TrueOfTarget(db, t)'
    <3>1. TrueOfTarget(db, t) /\ (disk'[t] = disk[t] \/ disk'[t] = Gone)
      BY <2>1, <2>2 DEF RememberedInv
    <3> QED  BY <2>1, <3>1 DEF TrueOfTarget, Exists
  <2>4. ASSUME NEW s \in Source PROVE TrueOfSource(db, s)'
    <3>1. TrueOfSource(db, s) /\ (disk'[s] = disk[s] \/ disk'[s].time = now + 1)
      BY <2>1, <2>2 DEF RememberedInv
    <3> QED  BY <1>3, <2>1, <3>1 DEF TrueOfSource
  <2> QED  BY <1>3, <2>1, <2>3, <2>4 DEF RememberedInv
<1> QED  BY <1>5, <1>6, <1>7, <1>8, <1>9, <1>10, <1>11, <1>12, <1>13, <1>14 DEF Next, RunStep


LEMMA FreshNext ==
  ASSUME CompleteOptions, Sound, KnowsInv, CacheInv, RememberedInv, Fresh, Next
  PROVE  Fresh'
<1>1. DiskOK /\ RunOK /\ WalkInv
  BY DEF Sound
<1>2. options.decider = "content" /\ (pc # "off" => InRun)
  BY <1>1, CompleteHere DEF CacheInv, InRun
<1>3. CASE ~settled'
  BY <1>3 DEF Fresh
<1>4. CASE settled' /\ RenameDb
  <2>1. pc = "rename" /\ UNCHANGED <<disk, flags>>
    BY <1>4 DEF RenameDb, world
  <2>2. \A t \in Target : disk[t].content = Compiled(t)
    BY <1>2, <2>1, MergedRight
  <2>3. \A t \in Target : Compiled(t)' = Compiled(t)
    BY <1>1, <2>1, CompiledStays, RealKidsType DEF ChildrenOf
  <2> QED  BY <2>1, <2>2, <2>3 DEF Fresh
<1>5. CASE settled' /\ ~RenameDb
  <2>1. settled /\ OthersPush
    <3>1. settled => pc = "off"
      BY <1>1 DEF RunOK
    <3>2. ~Start /\ ~Edit /\ ~ChangeFlags /\ ~Delete
      BY <1>5 DEF Start, Edit, ChangeFlags, Delete, Disturb
    <3>3. ~SkipHandled /\ ~VisitSource /\ ~Scan
      BY <1>5, <3>1 DEF SkipHandled, VisitSource, Scan, Looking
    <3>4. ~FindCurrent /\ ~FindChanged
      BY <1>5, <3>1 DEF FindCurrent, FindChanged, Deciding, Looking
    <3>5. ~Begin
      BY <1>5, <3>1 DEF Begin
    <3>6. ~Copied
      BY <1>5, <3>1 DEF Copied, Built
    <3>7. ~Acted
      BY <1>5, <3>1 DEF Acted, Built
    <3>8. ~Failed /\ ~Interrupted /\ ~WalkOver /\ ~UnlinkDb
      BY <1>5, <3>1 DEF Failed, Interrupted, WalkOver, UnlinkDb
    <3>9. ~Killed
      BY <1>5, <3>1 DEF Killed
    <3>10. OthersPush
      BY <1>5, <3>2, <3>3, <3>4, <3>5, <3>6, <3>7, <3>8, <3>9 DEF Next, RunStep
    <3> QED  BY <1>5, <3>10 DEF OthersPush
  <2>2. UNCHANGED <<disk, flags>>
    BY <2>1 DEF OthersPush
  <2>3. \A t \in Target : Compiled(t)' = Compiled(t)
    BY <1>1, <2>2, CompiledStays, RealKidsType DEF ChildrenOf
  <2> QED  BY <2>1, <2>2, <2>3 DEF Fresh
<1> QED  BY <1>3, <1>4, <1>5

\* A run that succeeds leaves every target as a build from scratch would, if it
\* decides by content, every run comes to its end, nobody edits during a run, and
\* signatures of old files are not believed beside a cache.
THEOREM FreshHolds == Spec /\ CompleteOptions => []Fresh
<1>1. Init => RememberedInv /\ Fresh
  <2>1. ASSUME Init PROVE RememberedInv
    <3>1. pc = "off" /\ status = 0 /\ db = EmptyDb /\ now = 1
      BY <2>1 DEF Init
    <3>2. \A f \in File : db[f] = NoEntry
      BY <3>1 DEF EmptyDb
    <3>3. NoEntry.csig = None /\ NoEntry.time = 0 /\ NoEntry.act = "none" /\ DOMAIN NoEntry.sigs = 1..Len(NoEntry.sigs)
      BY DEF NoEntry
    <3>4. \A t \in Target : TrueOfTarget(db, t)
      BY <3>2, <3>3 DEF TrueOfTarget, File
    <3>5. \A s \in Source : TrueOfSource(db, s)
      BY <3>1, <3>2, <3>3 DEF TrueOfSource, File
    <3> QED  BY <3>1, <3>4, <3>5 DEF RememberedInv
  <2> QED  BY <2>1 DEF Init, Fresh
<1>2. /\ CompleteOptions /\ Sound /\ KnowsInv /\ CacheInv /\ RememberedInv /\ Fresh /\ [Next]_vars
      => CompleteOptions' /\ RememberedInv' /\ Fresh'
  <2>1. CompleteOptions /\ Sound /\ KnowsInv /\ CacheInv /\ RememberedInv /\ Fresh /\ Next
        => RememberedInv' /\ Fresh'
    BY RememberedNext, FreshNext
  <2>2. ASSUME Sound, RememberedInv, Fresh, UNCHANGED vars PROVE RememberedInv' /\ Fresh'
    <3>1. UNCHANGED <<pc, status, db, known, disk, now, flags, stored, ninfo, output, todo, settled>>
      BY <2>2 DEF vars, world, run
    <3>2. Busy' = Busy /\ Node' = Node
      BY <3>1 DEF Busy, Node
    <3>3. \A t \in Target : Compiled(t)' = Compiled(t)
      BY <2>2, <3>1, CompiledStays, RealKidsType DEF Sound, ChildrenOf
    <3>4. \A d : \A t \in Target : TrueOfTarget(d, t)' = TrueOfTarget(d, t)
      BY <3>1 DEF TrueOfTarget, Exists
    <3>5. \A d : \A s \in Source : TrueOfSource(d, s)' = TrueOfSource(d, s)
      BY <3>1 DEF TrueOfSource
    <3>6. \A t \in Target : Handled(t)' = Handled(t)
      BY <3>1, <3>2 DEF Handled
    <3>7. Fresh'
      BY <2>2, <3>1, <3>3 DEF Fresh
    <3>8. pc \in {"copy", "act"} => output = Compiled(Node)'
      BY <2>2, <3>1 DEF RememberedInv, Compiled, RealKids, Node
    <3>9. RememberedInv'
      BY <2>2, <3>1, <3>3, <3>4, <3>5, <3>6, <3>8 DEF RememberedInv
    <3> QED  BY <3>7, <3>9
  <2>3. CompleteOptions /\ [Next]_vars => CompleteOptions'
    BY OptionsStay DEF CompleteOptions, vars, world
  <2> QED  BY <2>1, <2>2, <2>3
<1>3. CompleteOptions => HonestOptions
  BY DEF CompleteOptions, HonestOptions
<1>4. Knows => Sound /\ KnowsInv
  BY DEF Knows
<1> QED  BY <1>1, <1>2, <1>3, <1>4, CacheAlways, KnowsHolds, PTL DEF Spec
==============================================================================

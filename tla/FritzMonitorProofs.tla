------------------------- MODULE FritzMonitorProofs --------------------------
(***************************************************************************)
(* Theorems about FritzMonitor for any number of threads and refreshes:    *)
(* there is never a second monitor, if a new thread runs before the next   *)
(* click, and the panel always learns of a change.                         *)
(***************************************************************************)
EXTENDS FritzMonitor, TLAPS

(* Where a thread may be, and where it still reads or writes the flags.    *)
Place == {"none", "created", "begun", "connect", "greet", "up", "down", "backoff", "check",
          "stopped", "ended"}
Working(t) == tpc[t] \in {"begun", "connect", "greet", "up", "down", "backoff", "check"}
Busy(t) == tpc[t] = "created" \/ Working(t)

(* The types the proofs need, and that threads are created in order.       *)
Types ==
  /\ run \in BOOLEAN /\ running \in BOOLEAN /\ connected \in BOOLEAN
  /\ created \in Nat /\ refresh \in Nat
  /\ tpc \in [Thread -> Place]
  /\ gpc \in {"start", "wait", "idle", "stop", "join", "gone"}
  /\ \A t \in Thread : t > created => tpc[t] = "none"

(* Only the last thread created can be busy; the flag is up from its first *)
(* step to its last, so that Start finds out.  While a thread has not run  *)
(* yet the GUI thread is not between a click and what the click does.      *)
SoleMonitor ==
  /\ \A s, t \in Thread : Busy(s) /\ Busy(t) => s = t
  /\ \A t \in Thread : Working(t) => running
  /\ gpc \in {"start", "stop", "join"} => \A t \in Thread : tpc[t] # "created"

LEMMA InitTypes == Init => Types
<1> SUFFICES ASSUME Init PROVE Types
  OBVIOUS
<1>1. tpc \in [Thread -> Place] /\ \A t \in Thread : tpc[t] = "none"
  <2>1. tpc = [t \in Thread |-> "none"] /\ "none" \in Place
    BY DEF Init, Place
  <2> QED  BY <2>1
<1> QED  BY <1>1 DEF Init, Types

LEMMA InitSole == Init => SoleMonitor
BY DEF Init, SoleMonitor, Busy, Working

LEMMA InitPanel == Init => PanelCatchesUp
BY DEF Init, PanelCatchesUp

----------------------------------------------------------------------------
LEMMA GuiTypes ==
  ASSUME Types, Gui
  PROVE  Types'
<1>1. CASE Start
  <2>1. CASE running
    BY <1>1, <2>1 DEF Start, Types, threadVars, panelVars
  <2>2. CASE ~running
    <3>1. /\ created' = created + 1 /\ tpc' = [tpc EXCEPT ![created + 1] = "created"] /\ run' = TRUE
          /\ UNCHANGED <<running, connected, refresh>> /\ gpc' \in {"wait", "idle"}
      BY <1>1, <2>2 DEF Start, panelVars
    <3>2. tpc' \in [Thread -> Place] /\ created' \in Nat
      <4>1. tpc \in [Thread -> Place] /\ created \in Nat /\ "created" \in Place
        BY DEF Types, Place
      <4>2. created' \in Nat
        BY <3>1, <4>1
      <4>3. tpc' \in [Thread -> Place]
        BY <3>1, <4>1, Zenon
      <4> QED  BY <4>2, <4>3
    <3>3. \A t \in Thread : t > created' => tpc'[t] = "none"
      BY <3>1 DEF Types, Thread
    <3> QED  BY <3>1, <3>2, <3>3 DEF Types
  <2> QED  BY <2>1, <2>2
<1>2. CASE StartWaited \/ Click \/ Destroy \/ Shutdown \/ Join
  BY <1>2 DEF StartWaited, Click, Destroy, Shutdown, Join, Back, Types, flagVars, threadVars, panelVars
<1>3. CASE Refresh
  BY <1>3 DEF Refresh, Types, flagVars, threadVars
<1> QED  BY <1>1, <1>2, <1>3 DEF Gui

(* What a thread's step does to its own place; the others stay.            *)
LEMMA GotoPlace ==
  ASSUME Types, NEW t \in Thread, NEW from, NEW to \in Place, from # "none", Goto(t, from, to)
  PROVE  /\ tpc[t] = from /\ tpc'[t] = to /\ \A s \in Thread \ {t} : tpc'[s] = tpc[s]
         /\ tpc' \in [Thread -> Place]
         /\ \A s \in Thread : s > created => tpc'[s] = "none"
BY DEF Goto, Types

LEMMA StepTypes ==
  ASSUME Types, NEW t \in Thread, Step(t)
  PROVE  Types'
<1> USE DEF flagVars, guiVars, Place
<1>1. CASE Begin(t)
  BY <1>1, GotoPlace DEF Begin, Types
<1>2. CASE BeginNotify(t)
  BY <1>2, GotoPlace DEF BeginNotify, NotifyGuis, Types
<1>3. CASE Connected(t)
  BY <1>3, GotoPlace DEF Connected, Types
<1>4. CASE GreetNotify(t)
  BY <1>4, GotoPlace DEF GreetNotify, NotifyGuis, Types
<1>5. CASE ConnectFailed(t)
  BY <1>5, GotoPlace DEF ConnectFailed, Types
<1>6. CASE BackoffOver(t)
  BY <1>6, GotoPlace DEF BackoffOver, Types
<1>7. CASE Disconnected(t)
  BY <1>7, GotoPlace DEF Disconnected, Types
<1>8. CASE DownNotify(t)
  BY <1>8, GotoPlace DEF DownNotify, NotifyGuis, Types
<1>9. CASE Again(t)
  BY <1>9, GotoPlace DEF Again, Types
<1>10. CASE Stopped(t)
  BY <1>10, GotoPlace DEF Stopped, Types
<1>11. CASE StopNotify(t)
  BY <1>11, GotoPlace DEF StopNotify, NotifyGuis, Types
<1> QED  BY <1>1, <1>2, <1>3, <1>4, <1>5, <1>6, <1>7, <1>8, <1>9, <1>10, <1>11 DEF Step

LEMMA NextTypes ==
  ASSUME Types, [Next]_vars
  PROVE  Types'
<1>1. CASE UNCHANGED vars
  BY <1>1 DEF vars, flagVars, threadVars, panelVars, Types
<1> QED  BY <1>1, GuiTypes, StepTypes DEF Next

LEMMA TypesHold == Spec => []Types
<1>1. Types /\ [Next]_vars => Types'
  BY NextTypes
<1> QED  BY <1>1, InitTypes, PTL DEF Spec

----------------------------------------------------------------------------
(* A step of the GUI thread keeps SoleMonitor: only Start makes a thread,  *)
(* and it finds the flag down and no thread waiting to run.                *)
LEMMA GuiSole ==
  ASSUME PromptStart, Types, SoleMonitor, Gui
  PROVE  SoleMonitor'
<1>1. CASE Start
  <2>1. \A t \in Thread : tpc[t] # "created"
    BY <1>1 DEF Start, SoleMonitor
  <2>2. running' = running /\ gpc' \in {"wait", "idle"}
    BY <1>1 DEF Start
  <2>3. CASE running
    BY <1>1, <2>2, <2>3 DEF Start, SoleMonitor, Busy, Working, threadVars
  <2>4. CASE ~running
    <3>1. \A t \in Thread : ~Working(t)
      BY <2>4 DEF SoleMonitor
    <3>2. tpc' = [tpc EXCEPT ![created + 1] = "created"]
      BY <1>1, <2>4 DEF Start
    <3>3. \A t \in Thread : Busy(t)' => t = created + 1 /\ tpc'[t] = "created"
      <4> SUFFICES ASSUME NEW t \in Thread, t # created + 1
                   PROVE  ~Busy(t)'
        BY <3>2 DEF Types, Busy, Working
      <4>1. tpc'[t] = tpc[t]
        BY <3>2 DEF Types
      <4> QED  BY <4>1, <3>1, <2>1 DEF Busy, Working
    <3>4. \A t \in Thread : ~Working(t)'
      BY <3>3 DEF Busy, Working
    <3> QED  BY <3>3, <3>4, <2>2 DEF SoleMonitor
  <2> QED  BY <2>3, <2>4
<1>2. CASE Click \/ Destroy
  <2>1. UNCHANGED <<tpc, running>> /\ \A t \in Thread : tpc[t] # "created"
    BY <1>2 DEF Click, Destroy, GuiMayAct, threadVars, flagVars
  <2> QED  BY <2>1 DEF SoleMonitor, Busy, Working
<1>3. CASE StartWaited \/ Join \/ Refresh
  <2>1. UNCHANGED <<tpc, running>> /\ gpc' \notin {"start", "stop", "join"}
    BY <1>3 DEF StartWaited, Join, Refresh, Back, threadVars, flagVars
  <2> QED  BY <2>1 DEF SoleMonitor, Busy, Working
<1>4. CASE Shutdown
  <2>1. UNCHANGED <<tpc, running>> /\ gpc = "stop"
    BY <1>4 DEF Shutdown, threadVars
  <2> QED  BY <2>1 DEF SoleMonitor, Busy, Working
<1> QED  BY <1>1, <1>2, <1>3, <1>4 DEF Gui

(* A step of a thread keeps it: nobody becomes busy but who was, and the   *)
(* flag goes down only with the one that is.                               *)
LEMMA StepSole ==
  ASSUME Types, SoleMonitor, NEW t \in Thread, Step(t)
  PROVE  SoleMonitor'
<1>1. /\ \A s \in Thread \ {t} : tpc'[s] = tpc[s]
      /\ Busy(t) \/ ~Busy(t)'
      /\ tpc'[t] # "created"
      /\ gpc' = gpc
      /\ \/ running' = running /\ (Working(t)' => Working(t))
         \/ running' = TRUE
         \/ running' = FALSE /\ ~Working(t)' /\ Working(t)
  <2> USE GotoPlace DEF Place, flagVars, guiVars, Busy, Working
  <2>1. CASE Begin(t)
    BY <2>1 DEF Begin
  <2>2. CASE BeginNotify(t)
    BY <2>2 DEF BeginNotify
  <2>3. CASE Connected(t)
    BY <2>3 DEF Connected
  <2>4. CASE GreetNotify(t)
    BY <2>4 DEF GreetNotify
  <2>5. CASE ConnectFailed(t)
    BY <2>5 DEF ConnectFailed
  <2>6. CASE BackoffOver(t)
    BY <2>6 DEF BackoffOver
  <2>7. CASE Disconnected(t)
    BY <2>7 DEF Disconnected
  <2>8. CASE DownNotify(t)
    BY <2>8 DEF DownNotify
  <2>9. CASE Again(t)
    BY <2>9 DEF Again
  <2>10. CASE Stopped(t)
    BY <2>10 DEF Stopped
  <2>11. CASE StopNotify(t)
    BY <2>11 DEF StopNotify
  <2> QED  BY <2>1, <2>2, <2>3, <2>4, <2>5, <2>6, <2>7, <2>8, <2>9, <2>10, <2>11 DEF Step
<1>2. \A s \in Thread : Busy(s)' => Busy(s)
  BY <1>1 DEF Busy, Working
<1>3. \A s \in Thread : Working(s)' => running'
  <2>1. \A s \in Thread \ {t} : Working(s)' => Working(s)
    BY <1>1 DEF Working
  <2>2. Working(t) => \A s \in Thread \ {t} : ~Working(s)
    BY DEF SoleMonitor, Busy
  <2> QED  BY <1>1, <2>1, <2>2 DEF SoleMonitor
<1>4. gpc' \in {"start", "stop", "join"} => \A s \in Thread : tpc'[s] # "created"
  BY <1>1 DEF SoleMonitor
<1> QED  BY <1>2, <1>3, <1>4 DEF SoleMonitor

(* Two monitors never share the socket and the flags, if a new thread runs *)
(* before the GUI thread's next action (cpf_monitor.cpp:185-203).          *)
THEOREM OneMonitorHolds == ASSUME PromptStart PROVE Spec => []OneMonitor
<1>1. Types /\ SoleMonitor /\ [Next]_vars => SoleMonitor'
  <2> SUFFICES ASSUME Types, SoleMonitor, [Next]_vars PROVE SoleMonitor'
    OBVIOUS
  <2>1. CASE UNCHANGED vars
    BY <2>1 DEF vars, flagVars, threadVars, SoleMonitor, Busy, Working
  <2> QED  BY <2>1, GuiSole, StepSole DEF Next
<1>2. Types /\ SoleMonitor => OneMonitor
  BY DEF Types, Place, SoleMonitor, Busy, Working, OneMonitor, Alive
<1> QED  BY <1>1, <1>2, InitSole, TypesHold, PTL DEF Spec

----------------------------------------------------------------------------
(* The GUI thread changes neither flag, and takes a refresh off the queue  *)
(* only to show the flags as they are.                                     *)
LEMMA GuiPanel ==
  ASSUME Types, PanelCatchesUp, Gui
  PROVE  PanelCatchesUp'
<1>1. CASE Start
  <2>1. UNCHANGED <<running, connected, refresh, shown>>
    BY <1>1 DEF Start, panelVars
  <2>2. ASSUME NEW t \in Thread, AboutToNotify(t)
        PROVE  AboutToNotify(t)'
    <3>1. CASE UNCHANGED tpc
      BY <2>2, <3>1 DEF AboutToNotify
    <3>2. CASE tpc' = [tpc EXCEPT ![created + 1] = "created"]
      <4>1. t # created + 1
        BY <2>2 DEF Types, AboutToNotify, Thread
      <4> QED  BY <2>2, <3>2, <4>1 DEF Types, AboutToNotify
    <3> QED  BY <1>1, <3>1, <3>2 DEF Start, threadVars
  <2> QED  BY <2>1, <2>2 DEF PanelCatchesUp
<1>2. CASE StartWaited \/ Click \/ Destroy \/ Shutdown \/ Join
  <2>1. UNCHANGED <<running, connected, refresh, shown, tpc>>
    BY <1>2 DEF StartWaited, Click, Destroy, Shutdown, Join, flagVars, threadVars, panelVars
  <2> QED  BY <2>1 DEF PanelCatchesUp, AboutToNotify
<1>3. CASE Refresh
  BY <1>3 DEF Refresh, PanelCatchesUp, flagVars
<1> QED  BY <1>1, <1>2, <1>3 DEF Gui

(* A thread that changes a flag is about to notify, and one that is about  *)
(* to does.                                                                *)
LEMMA StepPanel ==
  ASSUME Types, PanelCatchesUp, NEW t \in Thread, Step(t)
  PROVE  PanelCatchesUp'
<1>1. /\ \A s \in Thread \ {t} : tpc'[s] = tpc[s]
      /\ shown' = shown
      /\ \/ AboutToNotify(t)'
         \/ refresh' = refresh + 1
         \/ ~AboutToNotify(t) /\ UNCHANGED <<running, connected, refresh>>
  <2> USE GotoPlace DEF Place, flagVars, guiVars, AboutToNotify, NotifyGuis
  <2>1. CASE Begin(t)
    BY <2>1 DEF Begin
  <2>2. CASE BeginNotify(t)
    BY <2>2 DEF BeginNotify
  <2>3. CASE Connected(t)
    BY <2>3 DEF Connected
  <2>4. CASE GreetNotify(t)
    BY <2>4 DEF GreetNotify
  <2>5. CASE ConnectFailed(t)
    BY <2>5 DEF ConnectFailed
  <2>6. CASE BackoffOver(t)
    BY <2>6 DEF BackoffOver
  <2>7. CASE Disconnected(t)
    BY <2>7 DEF Disconnected
  <2>8. CASE DownNotify(t)
    BY <2>8 DEF DownNotify
  <2>9. CASE Again(t)
    BY <2>9 DEF Again
  <2>10. CASE Stopped(t)
    BY <2>10 DEF Stopped
  <2>11. CASE StopNotify(t)
    BY <2>11 DEF StopNotify
  <2> QED  BY <2>1, <2>2, <2>3, <2>4, <2>5, <2>6, <2>7, <2>8, <2>9, <2>10, <2>11 DEF Step
<1>2. CASE AboutToNotify(t)'
  BY <1>2 DEF PanelCatchesUp
<1>3. CASE refresh' = refresh + 1
  BY <1>3 DEF PanelCatchesUp, Types
<1>4. CASE ~AboutToNotify(t) /\ UNCHANGED <<running, connected, refresh>>
  <2>1. \A s \in Thread : AboutToNotify(s) => AboutToNotify(s)'
    BY <1>1, <1>4 DEF AboutToNotify
  <2> QED  BY <1>1, <1>4, <2>1 DEF PanelCatchesUp
<1> QED  BY <1>1, <1>2, <1>3, <1>4

(* The panel is never left with an old status: it shows the flags, or a    *)
(* refresh is on its way (cpf_gui.cpp, UpdateStatus), whatever the GUI     *)
(* thread waits for.                                                       *)
THEOREM PanelCatchesUpHolds == Spec => []PanelCatchesUp
<1>1. Types /\ PanelCatchesUp /\ [Next]_vars => PanelCatchesUp'
  <2> SUFFICES ASSUME Types, PanelCatchesUp, [Next]_vars PROVE PanelCatchesUp'
    OBVIOUS
  <2>1. CASE UNCHANGED vars
    BY <2>1 DEF vars, flagVars, threadVars, panelVars, PanelCatchesUp, AboutToNotify
  <2> QED  BY <2>1, GuiPanel, StepPanel DEF Next
<1> QED  BY <1>1, InitPanel, TypesHold, PTL DEF Spec
=============================================================================

---------------------------- MODULE FritzMonitor -----------------------------
(***************************************************************************)
(* The life of the Fritz!Box monitor thread (plugin_cp_fritz/              *)
(* cpf_monitor.cpp) under the Start/Stop button of its preferences panel   *)
(* (cpf_gui.cpp), which is open throughout.                                *)
(*                                                                         *)
(* The threads share plain flags: m_bRunMonitor is written by the GUI      *)
(* thread and read by the monitor; m_bMonitorIsRunning, m_bMonitorIs-      *)
(* Connected and m_nLastError go the other way.  There is no lock.         *)
(***************************************************************************)
EXTENDS Naturals, FiniteSets

CONSTANTS
  RetryLimit,      \* retryCount grows up to one more than this (60 in the code)
  PromptStart,     \* a new thread runs before the GUI thread's next action
  JoinMayTimeOut,  \* may a blocking connect outlast the 10 s that shutdown waits?
  MaxThreads,      \* bound: threads created in a behaviour
  MaxRefresh       \* bound: a reconnect notifies only below this many refreshes

ASSUME MonitorAssumption ==
  /\ RetryLimit \in Nat /\ MaxRefresh \in Nat
  /\ PromptStart \in BOOLEAN /\ JoinMayTimeOut \in BOOLEAN
  /\ MaxThreads \in Nat \ {0}

VARIABLES
  run,        \* m_bRunMonitor
  running,    \* m_bMonitorIsRunning
  connected,  \* m_bMonitorIsConnected
  lastError,  \* m_nLastError is not 0
  endEvent,   \* m_hEndEvent is set; nothing ever resets it
  created,    \* threads created so far; m_hThread is the handle of the last
  tpc,        \* where each thread is in monitor()
  retry,      \* each thread's retryCount
  gpc,        \* where the GUI thread is
  leaving,    \* the plug-in is being destroyed
  refresh,    \* EVENT_REFRESH events in the panel's queue
  button,     \* the Start/Stop button is enabled
  shown       \* the status the panel shows: <<running, connected>>

flagVars == <<run, running, connected, lastError, endEvent>>
threadVars == <<created, tpc, retry>>
panelVars == <<refresh, button, shown>>
vars == <<flagVars, threadVars, gpc, leaving, panelVars>>

Thread == 1..MaxThreads
Alive(t) == tpc[t] \notin {"none", "ended"}

(* The constructor is about to call init(true).                            *)
Init ==
  /\ run = FALSE /\ running = FALSE /\ connected = FALSE
  /\ lastError = FALSE /\ endEvent = FALSE
  /\ created = 0
  /\ tpc = [t \in Thread |-> "none"]
  /\ retry = [t \in Thread |-> 1]
  /\ gpc = "start"
  /\ leaving = FALSE
  /\ refresh = 0 /\ button = TRUE /\ shown = <<FALSE, FALSE>>

----------------------------------------------------------------------------
(* GUI thread.                                                             *)

GuiMayAct == PromptStart => \A t \in Thread : tpc[t] # "created"

(* init: clear the error and call startMonitor, which does nothing if a    *)
(* monitor is already running.  Only the constructor waits afterwards.     *)
Start ==
  /\ gpc = "start"
  /\ lastError' = FALSE
  /\ IF running
       THEN UNCHANGED <<run, threadVars>>
       ELSE /\ created' = created + 1
            /\ tpc' = [tpc EXCEPT ![created + 1] = "created"]
            /\ run' = TRUE
            /\ UNCHANGED retry
  /\ gpc' = IF created = 0 THEN "wait" ELSE "idle"
  /\ UNCHANGED <<running, connected, endEvent, leaving, panelVars>>

(* The wait ends when the thread runs, fails, or 2.5 s have passed.        *)
StartWaited ==
  /\ gpc = "wait" /\ GuiMayAct
  /\ gpc' = "idle"
  /\ UNCHANGED <<flagVars, threadVars, leaving, panelVars>>

(* OnStartStop: disable the button and decide what it means.               *)
Click ==
  /\ gpc = "idle" /\ button /\ GuiMayAct
  /\ running \/ created < MaxThreads
  /\ button' = FALSE
  /\ gpc' = IF running THEN "stop" ELSE "start"
  /\ UNCHANGED <<flagVars, threadVars, leaving, refresh, shown>>

(* The program ends: the destructor runs, and the panel is no more.        *)
Destroy ==
  /\ gpc = "idle" /\ GuiMayAct
  /\ leaving' = TRUE
  /\ gpc' = "stop"
  /\ UNCHANGED <<flagVars, threadVars, panelVars>>

Back == IF leaving THEN "gone" ELSE "idle"

(* Mutation: shutdown marks the monitor as stopped itself.               *)
ShutdownMarksStopped ==
  /\ gpc = "stop"
  /\ IF running
       THEN run' = FALSE /\ endEvent' = TRUE /\ running' = FALSE /\ gpc' = "join"
       ELSE UNCHANGED <<run, endEvent, running>> /\ gpc' = Back
  /\ UNCHANGED <<connected, lastError, threadVars, leaving, panelVars>>

(* shutdown: nothing to do if no monitor runs; else ask it to end ...      *)
Shutdown ==
  /\ gpc = "stop"
  /\ IF running
       THEN run' = FALSE /\ endEvent' = TRUE /\ gpc' = "join"
       ELSE UNCHANGED <<run, endEvent>> /\ gpc' = Back
  /\ UNCHANGED <<running, connected, lastError, threadVars, leaving, panelVars>>

(* ... and wait for its thread, but not for ever.                          *)
Join ==
  /\ gpc = "join"
  /\ tpc[created] = "ended" \/ JoinMayTimeOut
  /\ lastError' = FALSE
  /\ gpc' = Back
  /\ UNCHANGED <<run, running, connected, endEvent, threadVars, leaving, panelVars>>

(* OnRefresh: UpdateStatus reads the flags and enables the button.         *)
Refresh ==
  /\ gpc = "idle" /\ refresh > 0 /\ GuiMayAct
  /\ refresh' = refresh - 1
  /\ shown' = <<running, connected>>
  /\ button' = TRUE
  /\ UNCHANGED <<flagVars, threadVars, gpc, leaving>>

----------------------------------------------------------------------------
(* Monitor thread t: monitor().                                            *)

Goto(t, from, to) == tpc[t] = from /\ tpc' = [tpc EXCEPT ![t] = to]
(* Mutation: only a connected monitor notifies.                          *)
NotifyIfConnected == refresh' = IF connected THEN refresh + 1 ELSE refresh

(* Mutation: nobody is notified.                                         *)
NotifyNobody == UNCHANGED refresh

NotifyGuis == refresh' = refresh + 1
guiVars == <<gpc, leaving, button, shown>>

Begin(t) ==
  /\ Goto(t, "created", "begun")
  /\ running' = TRUE
  /\ UNCHANGED <<run, connected, lastError, endEvent, created, retry, guiVars, refresh>>

BeginNotify(t) ==
  /\ Goto(t, "begun", "connect")
  /\ NotifyGuis
  /\ UNCHANGED <<flagVars, created, retry, guiVars>>

(* initSocket succeeds ...                                                 *)
Connected(t) ==
  /\ Goto(t, "connect", "greet")
  /\ refresh < MaxRefresh
  /\ retry' = [retry EXCEPT ![t] = 1]
  /\ connected' = TRUE
  /\ UNCHANGED <<run, running, lastError, endEvent, created, guiVars, refresh>>

GreetNotify(t) ==
  /\ Goto(t, "greet", "up")
  /\ NotifyGuis
  /\ UNCHANGED <<flagVars, created, retry, guiVars>>

NextRetry(n) == IF n <= RetryLimit THEN n + 1 ELSE n

(* ... or fails, and the next attempt is a little later than the last.     *)
ConnectFailed(t) ==
  /\ Goto(t, "connect", "backoff")
  /\ lastError' = TRUE
  /\ retry' = [retry EXCEPT ![t] = NextRetry(@)]
  /\ UNCHANGED <<run, running, connected, endEvent, created, guiVars, refresh>>

(* Mutation: the wait has no timeout.                                    *)
BackoffUntilEvent(t) ==
  /\ Goto(t, "backoff", "check")
  /\ endEvent
  /\ UNCHANGED <<flagVars, created, retry, guiVars, refresh>>

BackoffOver(t) ==
  /\ Goto(t, "backoff", "check")
  /\ UNCHANGED <<flagVars, created, retry, guiVars, refresh>>

(* The inner loop ends when the box hangs up, the connection breaks, or    *)
(* (at the latest when select times out) the monitor has been told to end. *)
Disconnected(t) ==
  /\ Goto(t, "up", "down")
  /\ connected' = FALSE
  /\ UNCHANGED <<run, running, lastError, endEvent, created, retry, guiVars, refresh>>

DownNotify(t) ==
  /\ Goto(t, "down", "check")
  /\ NotifyGuis
  /\ UNCHANGED <<flagVars, created, retry, guiVars>>

(* Mutation: the outer loop does not look at m_bRunMonitor.              *)
AgainAlways(t) ==
  /\ Goto(t, "check", "connect")
  /\ UNCHANGED <<flagVars, created, retry, guiVars, refresh>>

Again(t) ==
  /\ Goto(t, "check", "connect")
  /\ run
  /\ UNCHANGED <<flagVars, created, retry, guiVars, refresh>>

Stopped(t) ==
  /\ Goto(t, "check", "stopped")
  /\ ~run
  /\ running' = FALSE
  /\ UNCHANGED <<run, connected, lastError, endEvent, created, retry, guiVars, refresh>>

StopNotify(t) ==
  /\ Goto(t, "stopped", "ended")
  /\ NotifyGuis
  /\ UNCHANGED <<flagVars, created, retry, guiVars>>

----------------------------------------------------------------------------
Gui == Start \/ StartWaited \/ Click \/ Destroy \/ Shutdown \/ Join \/ Refresh

Step(t) ==
  \/ Begin(t) \/ BeginNotify(t)
  \/ Connected(t) \/ GreetNotify(t) \/ ConnectFailed(t) \/ BackoffOver(t)
  \/ Disconnected(t) \/ DownNotify(t)
  \/ Again(t) \/ Stopped(t) \/ StopNotify(t)

Next == Gui \/ \E t \in Thread : Step(t)

Spec == Init /\ [][Next]_vars

(* Every thread goes on; an established connection may last as long as it  *)
(* likes while the monitor is to run.  The GUI thread finishes what it     *)
(* began and handles its events; nobody has to click.                      *)
Fairness ==
  /\ \A t \in Thread : WF_vars(Step(t) /\ ~(tpc[t] = "up" /\ run))
  /\ WF_vars(Start \/ StartWaited \/ Shutdown \/ Join \/ Refresh)

FairSpec == Spec /\ Fairness

----------------------------------------------------------------------------
(* Properties.                                                             *)

(* Two monitors never share m_socket and the flags: the button starts a    *)
(* second one only when the first is past its last write, even if shutdown *)
(* has given up waiting for it (cpf_monitor.cpp:185-203).                  *)
OneMonitor ==
  \A s, t \in Thread : Alive(s) /\ Alive(t) /\ tpc[s] # "stopped" /\ tpc[t] # "stopped" => s = t

(* The panel is never left with an old status: if it differs from the      *)
(* flags, a refresh is queued or the thread is about to post one.          *)
AboutToNotify(t) == tpc[t] \in {"begun", "greet", "down", "stopped"}
PanelCatchesUp ==
  shown # <<running, connected>> => refresh > 0 \/ \E t \in Thread : AboutToNotify(t)

(* A monitor told to end does end, whatever it is doing.                   *)
StopTakesEffect == (running /\ ~run) ~> (~running \/ run)

(* A monitor not told to end tries to connect again and again.             *)
KeepsTrying == \A t \in Thread : (tpc[t] = "backoff") ~> (tpc[t] \in {"connect", "stopped"})

(* The button, disabled by a click, comes back as long as the panel lives. *)
ButtonComesBack == ~button ~> (button \/ leaving)
==============================================================================

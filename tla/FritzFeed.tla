------------------------------ MODULE FritzFeed ------------------------------
(***************************************************************************)
(* What the Fritz!Box monitor (plugin_cp_fritz/cpf_monitor.cpp) makes of   *)
(* the byte stream on port 1012: monitor() reassembles lines from whatever *)
(* pieces recv() returns, handleFritzMessage() turns a line into calls of  *)
(* its observers.  The box repeats nothing: what it says while no monitor  *)
(* is connected, or what a broken connection swallows, is gone.            *)
(*                                                                         *)
(* A line travels in two fragments, the second of which ends in '\n'.      *)
(***************************************************************************)
EXTENDS Naturals, Sequences

CONSTANTS
  Cid,          \* the box's call ids
  MayDrop,      \* may the connection break?
  MaxMessages   \* bound: lines the box sends in a behaviour

ASSUME FeedAssumption == MayDrop \in BOOLEAN /\ MaxMessages \in Nat

VARIABLES
  box,        \* the box's view of each call id: "free", "ringing" or "up"
  said,       \* history: the messages [n, cmd, cid] of the box, n their number
  connected,  \* m_bMonitorIsConnected
  since,      \* history: how much the box had said when the connection was made
  wire,       \* fragments [msg, last] sent on this connection, not yet received
  line,       \* monitor()'s local buffer
  handled,    \* the lines given to handleFritzMessage, oldest first
  app,        \* CMainApp: "starting", "running" or "cleanup"
  listeners,  \* how often CMainApp is in m_Listeners
  told        \* the calls of ICallObserver made to CMainApp, oldest first

boxVars == <<box, said>>
connVars == <<connected, since, wire, line>>
outVars == <<handled, told>>
appVars == <<app, listeners>>
vars == <<boxVars, connVars, outVars, appVars>>

Command == {"CALL", "RING", "CONNECT", "DISCONNECT"}

Init ==
  /\ box = [c \in Cid |-> "free"]
  /\ said = <<>>
  /\ connected = FALSE /\ since = 0
  /\ wire = <<>> /\ line = <<>>
  /\ handled = <<>>
  /\ app = "starting" /\ listeners = 0
  /\ told = <<>>

----------------------------------------------------------------------------
(* The box.                                                                *)

Follows(cmd, state) ==
  CASE cmd \in {"CALL", "RING"} -> state = "free"
    [] cmd = "CONNECT"          -> state = "ringing"
    [] cmd = "DISCONNECT"       -> state \in {"ringing", "up"}

StateAfter(cmd) ==
  CASE cmd \in {"CALL", "RING"} -> "ringing"
    [] cmd = "CONNECT"          -> "up"
    [] cmd = "DISCONNECT"       -> "free"

BoxSays(cmd, cid) ==
  LET m == [n |-> Len(said) + 1, cmd |-> cmd, cid |-> cid] IN
  /\ Len(said) < MaxMessages
  /\ Follows(cmd, box[cid])
  /\ said' = Append(said, m)
  /\ box' = [box EXCEPT ![cid] = StateAfter(cmd)]
  /\ wire' = IF connected
               THEN wire \o <<[msg |-> m, last |-> FALSE], [msg |-> m, last |-> TRUE]>>
               ELSE wire
  /\ UNCHANGED <<connected, since, line, outVars, appVars>>

----------------------------------------------------------------------------
(* The monitor thread.  Between two calls of recv() it handles the lines   *)
(* its buffer holds, one after the other.                                  *)

Ends(s) == {i \in DOMAIN s : s[i].last}

Connect ==
  /\ ~connected
  /\ connected' = TRUE
  /\ since' = Len(said)
  /\ wire' = <<>>
  /\ UNCHANGED <<boxVars, line, outVars, appVars>>

(* Mutation: the partial line survives the connection.                   *)
DropKeepsLine ==
  /\ MayDrop
  /\ connected /\ Ends(line) = {}
  /\ connected' = FALSE
  /\ wire' = <<>>
  /\ UNCHANGED <<boxVars, since, line, outVars, appVars>>

(* recv() or select() fails, or the box closes the socket: the partial     *)
(* line is thrown away with the connection.                                *)
Drop ==
  /\ MayDrop
  /\ connected /\ Ends(line) = {}
  /\ connected' = FALSE
  /\ wire' = <<>>
  /\ line' = <<>>
  /\ UNCHANGED <<boxVars, since, outVars, appVars>>

(* recv() returns the first k fragments that have arrived.                 *)
Receive(k) ==
  /\ connected /\ Ends(line) = {}
  /\ wire' = SubSeq(wire, k + 1, Len(wire))
  /\ line' = line \o SubSeq(wire, 1, k)
  /\ UNCHANGED <<boxVars, connected, since, outVars, appVars>>

(* The line that ends at p is whole if it is the two halves of one message *)
(* and nothing else.                                                       *)
Whole(s, p) == p = 2 /\ ~s[1].last /\ s[1].msg = s[2].msg

(* Mutation: the buffer is cleared, whatever it holds behind the line.   *)
ClearedAfter(s, p) == <<>>

After(s, p) == SubSeq(s, p + 1, Len(s))

(* handleFritzMessage: what one observer is told.                          *)
New(m, type) == <<[to |-> "newCall", n |-> m.n, cid |-> m.cid, type |-> type],
                  [to |-> "callInfo", n |-> m.n, cid |-> m.cid]>>
StatusNotice(m, status) == <<[to |-> "callStatus", n |-> m.n, cid |-> m.cid, status |-> status]>>

(* Mutation: the end of a call is reported as DISCONNECTED.                *)
NoticesNoIdle(m) ==
  CASE m.cmd = "CALL"       -> New(m, "OUTGOING")
    [] m.cmd = "RING"       -> New(m, "INCOMING")
    [] m.cmd = "CONNECT"    -> StatusNotice(m, "CONNECTED")
    [] m.cmd = "DISCONNECT" -> StatusNotice(m, "DISCONNECTED")

Notices(m) ==
  CASE m.cmd = "CALL"       -> New(m, "OUTGOING")
    [] m.cmd = "RING"       -> New(m, "INCOMING")
    [] m.cmd = "CONNECT"    -> StatusNotice(m, "CONNECTED")
    [] m.cmd = "DISCONNECT" -> StatusNotice(m, "IDLE")

(* The loop over m_Listeners: one observer after the other is told all.    *)
TellAll(m) ==
  LET notices == Notices(m)
  IN  [i \in 1..(listeners * Len(notices)) |-> notices[((i - 1) % Len(notices)) + 1]]

HandleLine ==
  /\ connected
  /\ \E p \in Ends(line) :
       /\ \A q \in Ends(line) : p <= q
       /\ handled' = Append(handled, [msg |-> line[p].msg, whole |-> Whole(line, p)])
       /\ told' = told \o TellAll(line[p].msg)
       /\ line' = After(line, p)
  /\ UNCHANGED <<boxVars, connected, since, wire, appVars>>

----------------------------------------------------------------------------
(* CMainApp registers after the plug-ins have been loaded, when monitors   *)
(* may already be connected.  CleanUp registers a second time.             *)

OnInit ==
  /\ app = "starting"
  /\ app' = "running"
  /\ listeners' = listeners + 1
  /\ UNCHANGED <<boxVars, connVars, outVars>>

CleanUp ==
  /\ app = "running"
  /\ app' = "cleanup"
  /\ listeners' = listeners + 1
  /\ UNCHANGED <<boxVars, connVars, outVars>>

Next ==
  \/ \E cmd \in Command, cid \in Cid : BoxSays(cmd, cid)
  \/ Connect
  \/ Drop
  \/ \E k \in 1..Len(wire) : Receive(k)
  \/ HandleLine
  \/ OnInit
  \/ CleanUp

Spec == Init /\ [][Next]_vars

----------------------------------------------------------------------------
(* Properties.                                                             *)

(* Wherever recv() cuts the stream and whenever the connection breaks, a   *)
(* handled line is one the box sent, never two halves glued together, and  *)
(* lines are handled at most once and in order (cpf_monitor.cpp:333-365).  *)
LinesIntact ==
  /\ \A i \in DOMAIN handled : handled[i].whole
  /\ \A i, j \in DOMAIN handled : i < j => handled[i].msg.n < handled[j].msg.n

(* While the connection lasts, nothing goes missing: what is under way is  *)
(* exactly what the box has said since it was made and was not handled.    *)
Heard == {handled[i].msg.n : i \in DOMAIN handled}
UnderWay == {line[i].msg.n : i \in Ends(line)} \cup {wire[i].msg.n : i \in Ends(wire)}
NoGap == connected => UnderWay = ((since + 1)..Len(said)) \ Heard

(* A call id that was announced is announced again only after its IDLE,    *)
(* unless the box said something in between that was never heard: what     *)
(* CMainApp's map of active calls depends on, whenever CMainApp registers. *)
Announced(i) == told[i].to = "newCall"
Retired(i) == told[i].to = "callStatus" /\ told[i].status = "IDLE"
HeardAll(from, to) == from..to \subseteq Heard
OneCallPerId ==
  listeners <= 1 =>
    \A i, j \in DOMAIN told :
      i < j /\ told[i].cid = told[j].cid /\ Announced(i) /\ Announced(j)
            /\ HeardAll(told[i].n, told[j].n)
        => \E k \in (i + 1)..(j - 1) : told[k].cid = told[i].cid /\ Retired(k)

(* mainapp.cpp:186: "Unregister from call monitor plug-ins".               *)
UnregisteredInCleanUp == app = "cleanup" => listeners = 0
==============================================================================

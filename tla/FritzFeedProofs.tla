--------------------------- MODULE FritzFeedProofs ---------------------------
(***************************************************************************)
(* Proofs about the byte stream of the Fritz!Box (FritzFeed): whatever     *)
(* recv() returns and whenever a connection breaks, lines are handled      *)
(* whole, in order and without a gap, and what CMainApp hears about a call *)
(* id alternates as its map of active calls needs.                         *)
(*                                                                         *)
(* The argument about the stream counts half lines: the buffer and what is *)
(* on the wire hold, in order, the halves 2h + 1 .. 2 Len(said) of what    *)
(* the box has said, where h is the last message handled.                  *)
(***************************************************************************)
EXTENDS FritzFeed, SequenceTheorems, TLAPS

Message == [n : Nat, cmd : Command, cid : Cid]
Fragment == [msg : Message, last : BOOLEAN]
Notice ==
  [to : {"newCall"}, n : Nat, cid : Cid, type : {"OUTGOING", "INCOMING"}]
    \cup [to : {"callInfo"}, n : Nat, cid : Cid]
    \cup [to : {"callStatus"}, n : Nat, cid : Cid, status : {"CONNECTED", "IDLE"}]

Types ==
  /\ box \in [Cid -> {"free", "ringing", "up"}]
  /\ said \in Seq(Message)
  /\ connected \in BOOLEAN
  /\ since \in Nat
  /\ wire \in Seq(Fragment)
  /\ line \in Seq(Fragment)
  /\ handled \in Seq([msg : Message, whole : BOOLEAN])
  /\ listeners \in Nat
  /\ told \in Seq(Notice)

----------------------------------------------------------------------------
(* What the operators of the monitor return.                               *)

(* A part of a sequence: its length, and the elements it consists of.      *)
LEMMA Parts ==
  ASSUME NEW S, NEW s \in Seq(S), NEW k \in 0..Len(s)
  PROVE  /\ SubSeq(s, k + 1, Len(s)) \in Seq(S)
         /\ Len(SubSeq(s, k + 1, Len(s))) = Len(s) - k
         /\ \A i \in 1..(Len(s) - k) : SubSeq(s, k + 1, Len(s))[i] = s[k + i]
         /\ SubSeq(s, 1, k) \in Seq(S)
         /\ Len(SubSeq(s, 1, k)) = k
         /\ \A i \in 1..k : SubSeq(s, 1, k)[i] = s[i]
  OBVIOUS

(* One observer is told at most two things about a line, all of the same   *)
(* message: a new call and its parties, or a status.                       *)
LEMMA NoticesOf ==
  ASSUME NEW m \in Message
  PROVE  /\ Notices(m) \in Seq(Notice)
         /\ m.cmd \in {"CALL", "RING"} =>
              /\ Len(Notices(m)) = 2
              /\ Notices(m)[1].to = "newCall"
              /\ Notices(m)[2].to = "callInfo"
         /\ m.cmd \in {"CONNECT", "DISCONNECT"} =>
              /\ Len(Notices(m)) = 1
              /\ Notices(m)[1].to = "callStatus"
              /\ m.cmd = "DISCONNECT" => Notices(m)[1].status = "IDLE"
         /\ \A i \in 1..Len(Notices(m)) :
              Notices(m)[i].n = m.n /\ Notices(m)[i].cid = m.cid
  <1>1. m.cmd \in Command /\ m.n \in Nat /\ m.cid \in Cid
    BY DEF Message
  <1>2. CASE m.cmd \in {"CALL", "RING"}
    <2>1. PICK type \in {"OUTGOING", "INCOMING"} : Notices(m) = New(m, type)
      BY <1>2 DEF Notices
    <2>2. [to |-> "newCall", n |-> m.n, cid |-> m.cid, type |-> type] \in Notice
      BY <1>1 DEF Notice
    <2>3. [to |-> "callInfo", n |-> m.n, cid |-> m.cid] \in Notice
      BY <1>1 DEF Notice
    <2> QED  BY <1>2, <2>1, <2>2, <2>3 DEF New
  <1>3. CASE m.cmd \in {"CONNECT", "DISCONNECT"}
    <2>1. PICK status \in {"CONNECTED", "IDLE"} :
            /\ Notices(m) = StatusNotice(m, status)
            /\ m.cmd = "DISCONNECT" => status = "IDLE"
      BY <1>3 DEF Notices
    <2>2. [to |-> "callStatus", n |-> m.n, cid |-> m.cid, status |-> status] \in Notice
      BY <1>1 DEF Notice
    <2> QED  BY <1>3, <2>1, <2>2 DEF StatusNotice
  <1> QED  BY <1>1, <1>2, <1>3 DEF Command

(* With one observer, the loop over the observers makes one round; with    *)
(* none, none.                                                             *)
LEMMA TellAllOf ==
  ASSUME NEW m \in Message, listeners \in Nat
  PROVE  /\ TellAll(m) \in Seq(Notice)
         /\ listeners = 0 => TellAll(m) = <<>>
         /\ listeners = 1 => TellAll(m) = Notices(m)
  <1> DEFINE s == Notices(m)
  <1>1. s \in Seq(Notice) /\ Len(s) \in {1, 2}
    BY NoticesOf DEF Message, Command
  <1> HIDE DEF s
  <1>2. \A i \in 1..(listeners * Len(s)) : ((i - 1) % Len(s)) + 1 \in 1..Len(s)
    BY <1>1
  <1>3. TellAll(m) = [i \in 1..(listeners * Len(s)) |-> s[((i - 1) % Len(s)) + 1]]
    BY DEF TellAll, s
  <1>4. TellAll(m) \in Seq(Notice)
    <2>1. listeners * Len(s) \in Nat
      BY <1>1
    <2> QED  BY <1>1, <1>2, <1>3, <2>1
  <1>5. ASSUME listeners = 0 PROVE TellAll(m) = <<>>
    <2>1. listeners * Len(s) = 0
      BY <1>1, <1>5
    <2> QED  BY <1>3, <1>4, <2>1
  <1>6. ASSUME listeners = 1 PROVE TellAll(m) = s
    <2>1. listeners * Len(s) = Len(s)
      BY <1>1, <1>6
    <2>2. \A i \in 1..Len(s) : ((i - 1) % Len(s)) + 1 = i
      BY <1>1
    <2> QED  BY <1>1, <1>3, <2>1, <2>2
  <1> QED  BY <1>4, <1>5, <1>6 DEF s

----------------------------------------------------------------------------
(* Types.                                                                  *)

LEMMA InitTypes == Init => Types
  <1> SUFFICES ASSUME Init PROVE Types
    OBVIOUS
  <1>1. box \in [Cid -> {"free", "ringing", "up"}]
    BY DEF Init
  <1>2. /\ said = <<>> /\ wire = <<>> /\ line = <<>> /\ handled = <<>> /\ told = <<>>
        /\ connected = FALSE /\ since = 0 /\ listeners = 0
    BY DEF Init
  <1>3. <<>> \in Seq(Message) /\ <<>> \in Seq(Fragment) /\ <<>> \in Seq(Notice)
    OBVIOUS
  <1>4. <<>> \in Seq([msg : Message, whole : BOOLEAN])
    OBVIOUS
  <1> QED  BY <1>1, <1>2, <1>3, <1>4, Zenon DEF Types

LEMMA SaysTypes ==
  ASSUME Types, NEW cmd \in Command, NEW cid \in Cid, BoxSays(cmd, cid)
  PROVE  Types'
  <1> DEFINE m == [n |-> Len(said) + 1, cmd |-> cmd, cid |-> cid]
             halves == <<[msg |-> m, last |-> FALSE], [msg |-> m, last |-> TRUE]>>
  <1>1. m \in Message
    BY DEF Types, Message
  <1>2. halves \in Seq(Fragment)
    <2>1. [msg |-> m, last |-> FALSE] \in Fragment /\ [msg |-> m, last |-> TRUE] \in Fragment
      BY <1>1 DEF Fragment
    <2> QED  BY <2>1
  <1>3. StateAfter(cmd) \in {"free", "ringing", "up"}
    BY DEF StateAfter, Command
  <1>4. /\ said' = Append(said, m)
        /\ wire' = IF connected THEN wire \o halves ELSE wire
        /\ box' = [box EXCEPT ![cid] = StateAfter(cmd)]
        /\ UNCHANGED <<connected, since, line, outVars, appVars>>
    BY DEF BoxSays
  <1> HIDE DEF m, halves
  <1>5. said' \in Seq(Message) /\ wire' \in Seq(Fragment)
    BY <1>1, <1>2, <1>4 DEF Types
  <1>6. box' \in [Cid -> {"free", "ringing", "up"}]
    BY <1>3, <1>4 DEF Types
  <1> QED  BY <1>4, <1>5, <1>6 DEF Types, outVars, appVars

LEMMA HandleTypes ==
  ASSUME Types, HandleLine
  PROVE  Types'
  <1>1. PICK p \in Ends(line) :
          /\ handled' = Append(handled, [msg |-> line[p].msg, whole |-> Whole(line, p)])
          /\ told' = told \o TellAll(line[p].msg)
          /\ line' = After(line, p)
    BY DEF HandleLine
  <1>2. p \in 1..Len(line) /\ line[p].msg \in Message
    <2>1. p \in DOMAIN line
      BY DEF Ends
    <2>2. line[p] \in Fragment
      BY <2>1 DEF Types
    <2> QED  BY <2>1, <2>2 DEF Types, Fragment
  <1>3. Whole(line, p) \in BOOLEAN
    BY DEF Whole
  <1>4. handled' \in Seq([msg : Message, whole : BOOLEAN])
    <2>1. [msg |-> line[p].msg, whole |-> Whole(line, p)] \in [msg : Message, whole : BOOLEAN]
      BY <1>2, <1>3
    <2> QED  BY <1>1, <2>1 DEF Types
  <1>5. told' \in Seq(Notice)
    BY <1>1, <1>2, TellAllOf DEF Types
  <1>6. line' \in Seq(Fragment)
    <2>1. p \in 0..Len(line) /\ line \in Seq(Fragment)
      BY <1>2 DEF Types
    <2> QED  BY <1>1, <2>1, Parts DEF After
  <1> QED
    BY <1>4, <1>5, <1>6 DEF HandleLine, Types, boxVars, appVars

LEMMA NextTypes == Types /\ [Next]_vars => Types'
  <1> SUFFICES ASSUME Types, [Next]_vars PROVE Types'
    OBVIOUS
  <1>1. ASSUME NEW cmd \in Command, NEW cid \in Cid, BoxSays(cmd, cid) PROVE Types'
    BY <1>1, SaysTypes
  <1>2. CASE Connect
    BY <1>2 DEF Connect, Types, boxVars, outVars, appVars
  <1>3. CASE Drop
    <2>1. <<>> \in Seq(Fragment)
      OBVIOUS
    <2> QED  BY <1>3, <2>1, Zenon DEF Drop, Types, boxVars, outVars, appVars
  <1>4. ASSUME NEW k \in 1..Len(wire), Receive(k) PROVE Types'
    <2>1. /\ SubSeq(wire, k + 1, Len(wire)) \in Seq(Fragment)
          /\ SubSeq(wire, 1, k) \in Seq(Fragment)
      BY Parts DEF Types
    <2> QED  BY <1>4, <2>1 DEF Receive, Types, boxVars, outVars, appVars
  <1>5. CASE HandleLine
    BY <1>5, HandleTypes
  <1>6. CASE OnInit \/ CleanUp
    BY <1>6 DEF OnInit, CleanUp, Types, boxVars, connVars, outVars
  <1>7. CASE UNCHANGED vars
    BY <1>7 DEF Types, vars, boxVars, connVars, outVars, appVars
  <1> QED  BY <1>1, <1>2, <1>3, <1>4, <1>5, <1>6, <1>7 DEF Next

----------------------------------------------------------------------------
(* The stream.                                                             *)

(* A fragment is the k-th half line the box has sent: the odd ones are     *)
(* first halves, and 2n is the second half of the n-th line.               *)
Half(f, k, messages) ==
  /\ f.msg.n \in DOMAIN messages
  /\ f.msg = messages[f.msg.n]
  /\ 2 * f.msg.n = IF f.last THEN k ELSE k + 1

(* The message h of the box was the last one handled, or there when the    *)
(* connection was made: the buffer and the wire hold the rest, in order.   *)
StreamAt(h) ==
  /\ h \in since..Len(said)
  /\ Len(line) + Len(wire) = 2 * (Len(said) - h)
  /\ \A i \in DOMAIN line : Half(line[i], 2 * h + i, said)
  /\ \A i \in DOMAIN wire : Half(wire[i], 2 * h + Len(line) + i, said)

HandledTo(h) ==
  /\ \A i \in DOMAIN handled : handled[i].msg.n <= h
  /\ \A n \in (since + 1)..h : n \in Heard

StreamInv ==
  /\ \A n \in DOMAIN said : said[n].n = n
  /\ ~connected => line = <<>>
  /\ since <= Len(said)
  /\ \A i \in DOMAIN handled : handled[i].msg.n \in DOMAIN said
                               /\ handled[i].msg = said[handled[i].msg.n]
  /\ LinesIntact
  /\ connected => \E h \in Nat : StreamAt(h) /\ HandledTo(h)

LEMMA InitStream == Init => StreamInv
  BY DEF Init, StreamInv, LinesIntact

(* What the box says is two halves more, on the wire if anybody listens.   *)
LEMMA SaysStream ==
  ASSUME Types, StreamInv, NEW cmd \in Command, NEW cid \in Cid, BoxSays(cmd, cid)
  PROVE  StreamInv'
  <1> DEFINE m == [n |-> Len(said) + 1, cmd |-> cmd, cid |-> cid]
             halves == <<[msg |-> m, last |-> FALSE], [msg |-> m, last |-> TRUE]>>
  <1>1. /\ said' = Append(said, m)
        /\ wire' = IF connected THEN wire \o halves ELSE wire
        /\ UNCHANGED <<connected, since, line, handled>>
    BY DEF BoxSays, outVars
  <1>2. m \in Message /\ m.n = Len(said) + 1
    BY DEF Types, Message
  <1>3. /\ halves \in Seq(Fragment) /\ Len(halves) = 2
        /\ halves[1].msg = m /\ ~halves[1].last /\ halves[2].msg = m /\ halves[2].last
    <2>1. [msg |-> m, last |-> FALSE] \in Fragment /\ [msg |-> m, last |-> TRUE] \in Fragment
      BY <1>2 DEF Fragment
    <2> QED  BY <2>1
  <1> HIDE DEF m, halves
  <1>4. /\ Len(said') = Len(said) + 1
        /\ \A n \in DOMAIN said : n \in DOMAIN said' /\ said'[n] = said[n]
        /\ Len(said') \in DOMAIN said' /\ said'[Len(said')] = m
        /\ DOMAIN said' = 1..Len(said')
        /\ DOMAIN said = 1..Len(said)
    BY <1>1, <1>2 DEF Types
  <1>5. \A n \in DOMAIN said' : said'[n].n = n
    <2>1. Len(said) \in Nat
      BY DEF Types
    <2>2. \A n \in DOMAIN said' : n \in DOMAIN said \/ n = Len(said')
      BY <1>4, <2>1
    <2>3. \A n \in DOMAIN said : said'[n].n = n
      BY <1>4 DEF StreamInv
    <2>4. said'[Len(said')].n = Len(said')
      BY <1>2, <1>4
    <2> QED  BY <2>2, <2>3, <2>4
  <1>6. \A i \in DOMAIN handled : handled[i].msg.n \in DOMAIN said'
                                  /\ handled[i].msg = said'[handled[i].msg.n]
    BY <1>4 DEF StreamInv
  <1>7. \A f, k : Half(f, k, said) => Half(f, k, said')
    BY <1>4 DEF Half
  <1>8. ASSUME connected'
        PROVE  \E h \in Nat : StreamAt(h)' /\ HandledTo(h)'
    <2>1. PICK h \in Nat : StreamAt(h) /\ HandledTo(h)
      BY <1>1, <1>8 DEF StreamInv
    <2>2. HandledTo(h)'
      BY <1>1, <2>1 DEF HandledTo, Heard
    <2>3. /\ wire' \in Seq(Fragment) /\ Len(wire') = Len(wire) + 2
          /\ \A i \in DOMAIN wire : wire'[i] = wire[i]
          /\ wire'[Len(wire) + 1] = halves[1] /\ wire'[Len(wire) + 2] = halves[2]
          /\ DOMAIN wire = 1..Len(wire) /\ DOMAIN wire' = 1..(Len(wire) + 2)
      <3>1. wire' = wire \o halves
        BY <1>1, <1>8
      <3>2. wire \in Seq(Fragment)
        BY DEF Types
      <3>3. 1 \in 1..Len(halves) /\ 2 \in 1..Len(halves)
        BY <1>3
      <3>4. wire \o halves \in Seq(Fragment)
        BY <1>3, <3>2
      <3>5. /\ Len(wire \o halves) = Len(wire) + Len(halves)
            /\ \A i \in 1..Len(wire) : (wire \o halves)[i] = wire[i]
            /\ \A i \in 1..Len(halves) : (wire \o halves)[Len(wire) + i] = halves[i]
        <4>1. wire \in Seq(Fragment) /\ halves \in Seq(Fragment)
          BY <1>3, <3>2
        <4> HIDE DEF Fragment
        <4>2. Len(wire \o halves) = Len(wire) + Len(halves)
          BY <4>1
        <4>3. \A i \in 1..Len(wire) : (wire \o halves)[i] = wire[i]
          BY <4>1
        <4>4. \A i \in 1..Len(halves) : (wire \o halves)[Len(wire) + i] = halves[i]
          BY <4>1
        <4> QED  BY <4>2, <4>3, <4>4
      <3>6. DOMAIN wire = 1..Len(wire) /\ DOMAIN wire' = 1..Len(wire')
        BY <3>1, <3>2, <3>4
      <3> HIDE DEF Fragment
      <3> QED  BY <1>3, <3>1, <3>3, <3>4, <3>5, <3>6
    <2>4. Half(halves[1], 2 * Len(said) + 1, said') /\ Half(halves[2], 2 * Len(said) + 2, said')
      <3>1. Len(said) \in Nat
        BY DEF Types
      <3> QED  BY <1>2, <1>3, <1>4, <3>1 DEF Half
    <2>5. 2 * h + Len(line) + Len(wire) = 2 * Len(said) /\ h \in Nat /\ Len(line) \in Nat
          /\ Len(wire) \in Nat /\ Len(said) \in Nat
      <3>1. Len(line) \in Nat /\ Len(wire) \in Nat /\ Len(said) \in Nat
        BY DEF Types
      <3>2. Len(line) + Len(wire) = 2 * (Len(said) - h) /\ h \in Nat
        BY <2>1 DEF StreamAt
      <3> QED  BY <3>1, <3>2
    <2>6. \A i \in DOMAIN wire' : Half(wire'[i], 2 * h + Len(line) + i, said')
      <3> SUFFICES ASSUME NEW i \in DOMAIN wire' PROVE Half(wire'[i], 2 * h + Len(line) + i, said')
        OBVIOUS
      <3>1. CASE i \in DOMAIN wire
        <4>1. Half(wire[i], 2 * h + Len(line) + i, said)
          BY <2>1, <3>1 DEF StreamAt
        <4>2. Half(wire[i], 2 * h + Len(line) + i, said')
          BY <4>1, <1>7
        <4> QED  BY <2>3, <3>1, <4>2
      <3>2. CASE i = Len(wire) + 1
        BY <1>1, <2>3, <2>4, <2>5, <3>2
      <3>3. CASE i = Len(wire) + 2
        BY <1>1, <2>3, <2>4, <2>5, <3>3
      <3> QED  BY <2>3, <2>5, <3>1, <3>2, <3>3
    <2>7. StreamAt(h)'
      BY <1>1, <1>4, <1>7, <2>1, <2>3, <2>5, <2>6 DEF StreamAt
    <2> QED  BY <2>2, <2>7
  <1>9. LinesIntact'
    BY <1>1 DEF LinesIntact, StreamInv
  <1> QED  BY <1>1, <1>4, <1>5, <1>6, <1>8, <1>9 DEF StreamInv, Types

(* A new connection starts where the box is.                               *)
LEMMA ConnectStream == Types /\ StreamInv /\ Connect => StreamInv'
  <1> SUFFICES ASSUME Types, StreamInv, Connect PROVE StreamInv'
    OBVIOUS
  <1>1. connected' /\ since' = Len(said) /\ wire' = <<>> /\ line = <<>>
        /\ UNCHANGED <<said, line, handled>>
    BY DEF Connect, boxVars, outVars, StreamInv
  <1>2. StreamAt(Len(said))' /\ Len(said) \in Nat
    BY <1>1 DEF StreamAt, Types
  <1>3. HandledTo(Len(said))'
    BY <1>1 DEF HandledTo, StreamInv, Types
  <1> QED  BY <1>1, <1>2, <1>3 DEF StreamInv, LinesIntact, Types

LEMMA DropStream == Types /\ StreamInv /\ Drop => StreamInv'
  BY DEF Drop, boxVars, outVars, StreamInv, LinesIntact, Types

(* What recv() returns moves from the wire to the buffer.                  *)
LEMMA ReceiveStream ==
  ASSUME Types, StreamInv, NEW k \in 1..Len(wire), Receive(k)
  PROVE  StreamInv'
  <1>1. /\ connected /\ UNCHANGED <<said, connected, since, handled>>
        /\ wire' = SubSeq(wire, k + 1, Len(wire))
        /\ line' = line \o SubSeq(wire, 1, k)
    BY DEF Receive, boxVars, outVars
  <1>2. PICK h \in Nat : StreamAt(h) /\ HandledTo(h)
    BY <1>1 DEF StreamInv
  <1>3. /\ Len(wire') = Len(wire) - k
        /\ DOMAIN wire' = 1..(Len(wire) - k)
        /\ \A i \in 1..(Len(wire) - k) : wire'[i] = wire[k + i]
    <2>1. wire \in Seq(Fragment) /\ k \in 0..Len(wire)
      BY DEF Types
    <2>2. /\ SubSeq(wire, k + 1, Len(wire)) \in Seq(Fragment)
          /\ Len(SubSeq(wire, k + 1, Len(wire))) = Len(wire) - k
          /\ \A i \in 1..(Len(wire) - k) : SubSeq(wire, k + 1, Len(wire))[i] = wire[k + i]
      BY <2>1, Parts
    <2> QED  BY <1>1, <2>2
  <1>4. /\ Len(line') = Len(line) + k
        /\ DOMAIN line' = 1..(Len(line) + k) /\ DOMAIN line = 1..Len(line)
        /\ \A i \in DOMAIN line : line'[i] = line[i]
        /\ \A i \in 1..k : line'[Len(line) + i] = wire[i]
    <2> DEFINE s == SubSeq(wire, 1, k)
    <2>1. s \in Seq(Fragment) /\ Len(s) = k /\ \A i \in 1..k : s[i] = wire[i]
      BY Parts DEF Types
    <2>2. line' = line \o s /\ line \in Seq(Fragment)
      BY <1>1 DEF Types
    <2> HIDE DEF s, Fragment
    <2>3. Len(line') = Len(line) + k /\ DOMAIN line = 1..Len(line)
          /\ DOMAIN line' = 1..(Len(line) + k)
      BY <2>1, <2>2
    <2>4. \A i \in 1..Len(line) : line'[i] = line[i]
      BY <2>2, <2>1
    <2>5. \A i \in 1..Len(s) : line'[Len(line) + i] = s[i]
      BY <2>1, <2>2
    <2> QED  BY <2>1, <2>3, <2>4, <2>5
  <1>6. Len(wire) \in Nat /\ Len(line) \in Nat /\ Len(said) \in Nat /\ DOMAIN wire = 1..Len(wire)
    BY DEF Types
  <1>7. \A i \in DOMAIN wire' : Half(wire'[i], 2 * h + Len(line') + i, said)
    <2> SUFFICES ASSUME NEW i \in DOMAIN wire' PROVE Half(wire'[i], 2 * h + Len(line') + i, said)
      OBVIOUS
    <2>1. k + i \in DOMAIN wire /\ wire'[i] = wire[k + i]
      BY <1>3, <1>6
    <2>2. Half(wire[k + i], 2 * h + Len(line) + (k + i), said)
      BY <1>2, <2>1 DEF StreamAt
    <2>3. 2 * h + Len(line) + (k + i) = 2 * h + Len(line') + i
      BY <1>3, <1>4, <1>6
    <2> QED  BY <2>1, <2>2, <2>3
  <1>8. \A i \in DOMAIN line' : Half(line'[i], 2 * h + i, said)
    <2> SUFFICES ASSUME NEW i \in DOMAIN line' PROVE Half(line'[i], 2 * h + i, said)
      OBVIOUS
    <2>1. CASE i \in DOMAIN line
      BY <1>2, <1>4, <2>1 DEF StreamAt
    <2>2. CASE i \notin DOMAIN line
      <3>1. PICK j \in 1..k : i = Len(line) + j
        <4>1. i - Len(line) \in 1..k /\ i = Len(line) + (i - Len(line))
          BY <1>4, <1>6, <2>2
        <4> QED  BY <4>1
      <3>2. Half(wire[j], 2 * h + Len(line) + j, said) /\ line'[i] = wire[j]
        <4>1. j \in DOMAIN wire
          BY <1>6
        <4> QED  BY <1>2, <1>4, <3>1, <4>1 DEF StreamAt
      <3>3. 2 * h + Len(line) + j = 2 * h + i
        BY <1>6, <3>1
      <3> QED  BY <3>2, <3>3
    <2> QED  BY <2>1, <2>2
  <1>9. StreamAt(h)'
    <2>1. Len(line') + Len(wire') = 2 * (Len(said) - h) /\ h \in since..Len(said)
      <3>1. Len(line) + Len(wire) = 2 * (Len(said) - h) /\ h \in since..Len(said)
        BY <1>2 DEF StreamAt
      <3>2. Len(line') = Len(line) + k /\ Len(wire') = Len(wire) - k /\ k \in Nat
        BY <1>3, <1>4
      <3> QED  BY <1>6, <3>1, <3>2
    <2> QED  BY <1>1, <1>7, <1>8, <2>1 DEF StreamAt
  <1>10. HandledTo(h)'
    BY <1>1, <1>2 DEF HandledTo, Heard
  <1> QED  BY <1>1, <1>9, <1>10 DEF StreamInv, LinesIntact

(* The first line in the buffer ends at its second half, and is the next   *)
(* message after the last one handled.                                     *)
LEMMA FirstLine ==
  ASSUME Types, NEW h \in Nat, StreamAt(h),
         NEW p \in Ends(line), \A q \in Ends(line) : p <= q
  PROVE  /\ p = 2 /\ Len(line) >= 2
         /\ line[p].msg = said[h + 1]
         /\ Whole(line, p)
         /\ h + 1 \in DOMAIN said
  <1>1. p \in 1..Len(line) /\ DOMAIN line = 1..Len(line) /\ Len(line) \in Nat /\ line[p].last
    BY DEF Types, Ends
  <1>2. \A i \in DOMAIN line : line[i].last \in BOOLEAN /\ line[i].msg.n \in Nat
    <2> SUFFICES ASSUME NEW i \in DOMAIN line
                 PROVE  line[i].last \in BOOLEAN /\ line[i].msg.n \in Nat
      OBVIOUS
    <2>1. line[i] \in Fragment
      BY DEF Types
    <2> QED  BY <2>1 DEF Fragment, Message
  <1>3. \A i \in DOMAIN line : Half(line[i], 2 * h + i, said)
    BY DEF StreamAt
  <1>4. ~line[1].last /\ line[1].msg.n = h + 1
    <2>1. 1 \in DOMAIN line
      BY <1>1
    <2>2. 2 * line[1].msg.n = IF line[1].last THEN 2 * h + 1 ELSE 2 * h + 1 + 1
      BY <1>3, <2>1 DEF Half
    <2> QED  BY <1>2, <2>1, <2>2
  <1>5. 2 \in DOMAIN line
    BY <1>1, <1>4
  <1>6. line[2].last /\ line[2].msg.n = h + 1
    <2>1. 2 * line[2].msg.n = IF line[2].last THEN 2 * h + 2 ELSE 2 * h + 2 + 1
      BY <1>3, <1>5 DEF Half
    <2> QED  BY <1>2, <1>5, <2>1
  <1>7. p = 2
    <2>1. 2 \in Ends(line)
      BY <1>5, <1>6 DEF Ends
    <2>2. p <= 2
      BY <2>1
    <2> QED  BY <1>1, <1>4, <2>2
  <1>8. line[1].msg = said[h + 1] /\ line[2].msg = said[h + 1] /\ h + 1 \in DOMAIN said
    <2>1. 1 \in DOMAIN line
      BY <1>1
    <2> QED  BY <1>3, <1>4, <1>5, <1>6, <2>1 DEF Half
  <1> QED  BY <1>1, <1>4, <1>5, <1>7, <1>8 DEF Whole

LEMMA HandleStream == Types /\ StreamInv /\ HandleLine => StreamInv'
  <1> SUFFICES ASSUME Types, StreamInv, HandleLine PROVE StreamInv'
    OBVIOUS
  <1>1. PICK h \in Nat : StreamAt(h) /\ HandledTo(h)
    BY DEF HandleLine, StreamInv
  <1>2. PICK p \in Ends(line) :
          /\ \A q \in Ends(line) : p <= q
          /\ handled' = Append(handled, [msg |-> line[p].msg, whole |-> Whole(line, p)])
          /\ line' = After(line, p)
    BY DEF HandleLine
  <1>3. connected /\ UNCHANGED <<said, connected, since, wire>>
    BY DEF HandleLine, boxVars
  <1>4. /\ p = 2 /\ Len(line) >= 2 /\ line[p].msg = said[h + 1] /\ Whole(line, p)
        /\ h + 1 \in DOMAIN said
    BY <1>1, <1>2, FirstLine
  <1> DEFINE it == [msg |-> line[p].msg, whole |-> Whole(line, p)]
  <1>5. it.msg = said[h + 1] /\ it.whole /\ it.msg.n = h + 1
    BY <1>4 DEF StreamInv
  <1>6. handled' = Append(handled, it)
    BY <1>2
  <1> HIDE DEF it
  <1>7. /\ Len(said) \in Nat /\ Len(line) \in Nat /\ Len(wire) \in Nat /\ Len(handled) \in Nat
        /\ since \in Nat /\ DOMAIN said = 1..Len(said)
        /\ DOMAIN line = 1..Len(line) /\ DOMAIN wire = 1..Len(wire)
    BY DEF Types
  <1>8. /\ DOMAIN handled = 1..Len(handled) /\ DOMAIN handled' = 1..(Len(handled) + 1)
        /\ \A i \in DOMAIN handled : handled'[i] = handled[i]
        /\ handled'[Len(handled) + 1] = it
    BY <1>6 DEF Types
  <1>9. /\ DOMAIN line' = 1..(Len(line) - 2) /\ Len(line') = Len(line) - 2
        /\ \A i \in DOMAIN line' : 2 + i \in DOMAIN line /\ line'[i] = line[2 + i]
    <2>1. line \in Seq(Fragment) /\ 2 \in 0..Len(line)
      BY <1>4, <1>7 DEF Types
    <2>2. /\ SubSeq(line, 2 + 1, Len(line)) \in Seq(Fragment)
          /\ Len(SubSeq(line, 2 + 1, Len(line))) = Len(line) - 2
          /\ \A i \in 1..(Len(line) - 2) : SubSeq(line, 2 + 1, Len(line))[i] = line[2 + i]
      BY <2>1, Parts
    <2>3. line' = SubSeq(line, 2 + 1, Len(line))
      BY <1>2, <1>4 DEF After
    <2>4. DOMAIN line' = 1..(Len(line) - 2) /\ Len(line') = Len(line) - 2
      BY <2>2, <2>3
    <2> QED  BY <1>7, <2>2, <2>3, <2>4
  <1>10. StreamAt(h + 1)'
    <2>1. /\ h \in since..Len(said) /\ Len(line) + Len(wire) = 2 * (Len(said) - h)
          /\ \A i \in DOMAIN line : Half(line[i], 2 * h + i, said)
          /\ \A i \in DOMAIN wire : Half(wire[i], 2 * h + Len(line) + i, said)
      BY <1>1 DEF StreamAt
    <2>2. h + 1 \in since..Len(said) /\ Len(line') + Len(wire) = 2 * (Len(said) - (h + 1))
      BY <1>4, <1>7, <1>9, <2>1
    <2>3. \A i \in DOMAIN line' : Half(line'[i], 2 * (h + 1) + i, said)
      <3> SUFFICES ASSUME NEW i \in DOMAIN line' PROVE Half(line'[i], 2 * (h + 1) + i, said)
        OBVIOUS
      <3>1. Half(line[2 + i], 2 * h + (2 + i), said)
        BY <1>9, <2>1
      <3>2. 2 * h + (2 + i) = 2 * (h + 1) + i
        BY <1>7, <1>9
      <3> QED  BY <1>9, <3>1, <3>2
    <2>4. \A i \in DOMAIN wire : Half(wire[i], 2 * (h + 1) + Len(line') + i, said)
      <3> SUFFICES ASSUME NEW i \in DOMAIN wire
                   PROVE  Half(wire[i], 2 * (h + 1) + Len(line') + i, said)
        OBVIOUS
      <3>1. Half(wire[i], 2 * h + Len(line) + i, said)
        BY <2>1
      <3>2. 2 * h + Len(line) + i = 2 * (h + 1) + Len(line') + i
        BY <1>7, <1>9
      <3> QED  BY <3>1, <3>2
    <2> QED  BY <1>3, <2>2, <2>3, <2>4 DEF StreamAt
  <1>11. \A i \in DOMAIN handled : handled[i].msg.n \in Nat /\ handled[i].msg.n <= h
    BY <1>1, <1>7 DEF HandledTo, StreamInv
  <1>12. \A i \in DOMAIN handled' : i \in DOMAIN handled \/ i = Len(handled) + 1
    BY <1>7, <1>8
  <1>13. HandledTo(h + 1)'
    <2>1. \A i \in DOMAIN handled' : handled'[i].msg.n <= h + 1
      BY <1>5, <1>8, <1>11, <1>12
    <2>2. ASSUME NEW n \in (since + 1)..(h + 1)
          PROVE  n \in Heard'
      <3>1. CASE n = h + 1
        <4>1. Len(handled) + 1 \in DOMAIN handled'
          BY <1>7, <1>8
        <4> QED  BY <1>5, <1>8, <3>1, <4>1 DEF Heard
      <3>2. CASE n # h + 1
        <4>1. n \in Heard
          BY <1>1, <1>7, <3>2 DEF HandledTo
        <4>2. PICK i \in DOMAIN handled : n = handled[i].msg.n
          BY <4>1 DEF Heard
        <4>3. i \in DOMAIN handled' /\ handled'[i].msg.n = n
          BY <1>7, <1>8, <4>2
        <4> QED  BY <4>3 DEF Heard
      <3> QED  BY <3>1, <3>2
    <2> QED  BY <1>3, <2>1, <2>2 DEF HandledTo
  <1>14. LinesIntact'
    <2>1. \A i \in DOMAIN handled' : handled'[i].whole
      BY <1>5, <1>8, <1>12 DEF StreamInv, LinesIntact
    <2>2. ASSUME NEW i \in DOMAIN handled', NEW j \in DOMAIN handled', i < j
          PROVE  handled'[i].msg.n < handled'[j].msg.n
      <3>1. i \in DOMAIN handled
        BY <1>7, <1>8, <1>12, <2>2
      <3>2. CASE j \in DOMAIN handled
        BY <1>8, <2>2, <3>1, <3>2 DEF StreamInv, LinesIntact
      <3>3. CASE j = Len(handled) + 1
        BY <1>5, <1>8, <1>11, <3>1, <3>3
      <3> QED  BY <1>12, <3>2, <3>3
    <2> QED  BY <2>1, <2>2 DEF LinesIntact
  <1>15. \A i \in DOMAIN handled' : handled'[i].msg.n \in DOMAIN said
                                   /\ handled'[i].msg = said[handled'[i].msg.n]
    BY <1>4, <1>5, <1>8, <1>12 DEF StreamInv
  <1> QED  BY <1>3, <1>10, <1>13, <1>14, <1>15 DEF StreamInv

LEMMA NextStream == Types /\ StreamInv /\ [Next]_vars => StreamInv'
  <1> SUFFICES ASSUME Types, StreamInv, [Next]_vars PROVE StreamInv'
    OBVIOUS
  <1>1. ASSUME NEW cmd \in Command, NEW cid \in Cid, BoxSays(cmd, cid) PROVE StreamInv'
    BY <1>1, SaysStream
  <1>2. ASSUME NEW k \in 1..Len(wire), Receive(k) PROVE StreamInv'
    BY <1>2, ReceiveStream
  <1>3. CASE OnInit \/ CleanUp \/ UNCHANGED vars
    <2>1. UNCHANGED <<said, connVars, handled>>
      BY <1>3 DEF OnInit, CleanUp, vars, boxVars, outVars
    <2> QED  BY <2>1 DEF connVars, StreamInv, StreamAt, HandledTo, LinesIntact, Heard
  <1> QED  BY <1>1, <1>2, <1>3, ConnectStream, DropStream, HandleStream DEF Next

(* Wherever recv() cuts the stream and whenever a connection breaks, lines *)
(* are handled whole, at most once and in the order the box sent them.     *)
THEOREM LinesIntactHolds == Spec => []LinesIntact
  <1>1. Types /\ StreamInv => LinesIntact
    BY DEF StreamInv
  <1> QED  BY <1>1, InitTypes, InitStream, NextTypes, NextStream, PTL DEF Spec

LEMMA StreamMeansNoGap == Types /\ StreamInv => NoGap
  <1> SUFFICES ASSUME Types, StreamInv, connected PROVE UnderWay = ((since + 1)..Len(said)) \ Heard
    BY DEF NoGap
  <1>1. PICK h \in Nat : StreamAt(h) /\ HandledTo(h)
    BY DEF StreamInv
  <1>2. /\ Len(said) \in Nat /\ Len(line) \in Nat /\ Len(wire) \in Nat /\ since \in Nat
        /\ DOMAIN said = 1..Len(said) /\ DOMAIN handled = 1..Len(handled)
        /\ DOMAIN line = 1..Len(line) /\ DOMAIN wire = 1..Len(wire)
    BY DEF Types
  <1>3. /\ h \in since..Len(said) /\ Len(line) + Len(wire) = 2 * (Len(said) - h)
        /\ \A i \in DOMAIN line : Half(line[i], 2 * h + i, said)
        /\ \A i \in DOMAIN wire : Half(wire[i], 2 * h + Len(line) + i, said)
    BY <1>1 DEF StreamAt
  <1>4. ((since + 1)..Len(said)) \ Heard = (h + 1)..Len(said)
    <2>1. \A n \in (since + 1)..h : n \in Heard
      BY <1>1 DEF HandledTo
    <2>2. \A n \in Heard : n \in Nat /\ n <= h
      BY <1>1, <1>2 DEF HandledTo, Heard, StreamInv
    <2> QED  BY <1>2, <1>3, <2>1, <2>2
  <1>5. ASSUME NEW n \in UnderWay PROVE n \in (h + 1)..Len(said)
    <2>1. CASE \E i \in Ends(line) : n = line[i].msg.n
      <3>1. PICK i \in DOMAIN line : line[i].last /\ n = line[i].msg.n
        BY <2>1 DEF Ends
      <3>2. n \in DOMAIN said /\ 2 * n = 2 * h + i
        BY <1>3, <3>1 DEF Half
      <3> QED  BY <1>2, <1>3, <3>2
    <2>2. CASE \E i \in Ends(wire) : n = wire[i].msg.n
      <3>1. PICK i \in DOMAIN wire : wire[i].last /\ n = wire[i].msg.n
        BY <2>2 DEF Ends
      <3>2. n \in DOMAIN said /\ 2 * n = 2 * h + Len(line) + i
        BY <1>3, <3>1 DEF Half
      <3> QED  BY <1>2, <1>3, <3>2
    <2> QED  BY <2>1, <2>2 DEF UnderWay
  <1>6. ASSUME NEW n \in (h + 1)..Len(said) PROVE n \in UnderWay
    <2> DEFINE i == 2 * n - 2 * h
               j == 2 * n - 2 * h - Len(line)
    <2>1. n \in Nat /\ i \in Nat /\ i >= 2 /\ i <= Len(line) + Len(wire)
      BY <1>2, <1>3
    <2>2. CASE i <= Len(line)
      <3>1. i \in DOMAIN line
        BY <1>2, <2>1, <2>2
      <3>2. Half(line[i], 2 * n, said)
        <4>1. 2 * h + i = 2 * n
          BY <2>1
        <4> QED  BY <1>3, <3>1, <4>1
      <3>3. line[i].last /\ line[i].msg.n = n
        <4>1. line[i].msg.n \in Nat
          BY <1>2, <3>2 DEF Half
        <4>2. 2 * line[i].msg.n = IF line[i].last THEN 2 * n ELSE 2 * n + 1
          BY <3>2 DEF Half
        <4> QED  BY <2>1, <4>1, <4>2
      <3> QED  BY <3>1, <3>3 DEF UnderWay, Ends
    <2>3. CASE i > Len(line)
      <3>1. j \in DOMAIN wire
        BY <1>2, <2>1, <2>3
      <3>2. Half(wire[j], 2 * n, said)
        <4>1. 2 * h + Len(line) + j = 2 * n
          BY <1>2, <2>1
        <4> QED  BY <1>3, <3>1, <4>1
      <3>3. wire[j].last /\ wire[j].msg.n = n
        <4>1. wire[j].msg.n \in Nat
          BY <1>2, <3>2 DEF Half
        <4>2. 2 * wire[j].msg.n = IF wire[j].last THEN 2 * n ELSE 2 * n + 1
          BY <3>2 DEF Half
        <4> QED  BY <2>1, <4>1, <4>2
      <3> QED  BY <3>1, <3>3 DEF UnderWay, Ends
    <2> QED  BY <1>2, <2>1, <2>2, <2>3
  <1> QED  BY <1>4, <1>5, <1>6

(* While the connection lasts nothing goes missing: the buffer and the     *)
(* wire hold what the box has said since, less what was handled.           *)
THEOREM NoGapHolds == Spec => []NoGap
  <1> QED  BY StreamMeansNoGap, InitTypes, InitStream, NextTypes, NextStream, PTL DEF Spec

----------------------------------------------------------------------------
(* What CMainApp is told.                                                  *)

Starts(messages, n) == messages[n].cmd \in {"CALL", "RING"}
EndsCall(messages, n, d) ==
  /\ n < d /\ messages[d].cmd = "DISCONNECT"
  /\ messages[d].cid = messages[n].cid

(* The box gives a call id to a new call after the end of the last one.    *)
BoxInv ==
  /\ \A n \in DOMAIN said :
       Starts(said, n) /\ box[said[n].cid] = "free"
         => \E d \in DOMAIN said : EndsCall(said, n, d)
  /\ \A a, b \in DOMAIN said :
       a < b /\ Starts(said, a) /\ Starts(said, b) /\ said[a].cid = said[b].cid
         => \E d \in DOMAIN said : d < b /\ EndsCall(said, a, d)

(* What was told, in the order of the messages; and once CMainApp has been *)
(* told anything, it is told of every end of a call that is heard.         *)
ToldRight ==
  /\ \A i \in DOMAIN told :
       /\ told[i].n \in Heard
       /\ told[i].cid = said[told[i].n].cid
       /\ Announced(i) => Starts(said, told[i].n)
  /\ \A i, j \in DOMAIN told :
       i < j => \/ told[i].n < told[j].n
                \/ told[i].n = told[j].n /\ ~Announced(j)
  /\ \A i \in DOMAIN told, g \in DOMAIN handled :
       handled[g].msg.cmd = "DISCONNECT" /\ told[i].n < handled[g].msg.n
         => \E k \in DOMAIN told : Retired(k) /\ told[k].n = handled[g].msg.n
                                   /\ told[k].cid = handled[g].msg.cid

ToldInv ==
  /\ told # <<>> => listeners >= 1
  /\ listeners <= 1 => ToldRight

FeedInv == Types /\ StreamInv /\ BoxInv /\ ToldInv

LEMMA SaysBox ==
  ASSUME Types, BoxInv, NEW cmd \in Command, NEW cid \in Cid, BoxSays(cmd, cid)
  PROVE  BoxInv'
  <1> DEFINE m == [n |-> Len(said) + 1, cmd |-> cmd, cid |-> cid]
             N == Len(said) + 1
  <1>1. /\ said' = Append(said, m) /\ Follows(cmd, box[cid])
        /\ box' = [box EXCEPT ![cid] = StateAfter(cmd)]
    BY DEF BoxSays
  <1>2. m \in Message /\ m.cmd = cmd /\ m.cid = cid /\ N \in Nat
    BY DEF Types, Message
  <1>3. \A c \in Cid : box'[c] = IF c = cid THEN StateAfter(cmd) ELSE box[c]
    BY <1>1 DEF Types
  <1> HIDE DEF m
  <1>4. /\ DOMAIN said = 1..(N - 1) /\ DOMAIN said' = 1..N
        /\ \A n \in DOMAIN said : said'[n] = said[n] /\ n < N /\ n \in DOMAIN said'
        /\ said'[N] = m /\ N \in DOMAIN said'
    BY <1>1, <1>2 DEF Types
  <1>5. \A n \in DOMAIN said' : n \in DOMAIN said \/ n = N
    BY <1>2, <1>4
  <1>6. \A n \in DOMAIN said' : said'[n].cid \in Cid /\ n \in Nat
    <2> SUFFICES ASSUME NEW n \in DOMAIN said' PROVE said'[n].cid \in Cid /\ n \in Nat
      OBVIOUS
    <2>1. said'[n] \in Message
      BY <1>2, <1>4, <1>5 DEF Types
    <2> QED  BY <1>4, <2>1 DEF Message
  <1> HIDE DEF N
  <1>7. \A a, d \in DOMAIN said : EndsCall(said, a, d) => EndsCall(said', a, d)
    BY <1>4 DEF EndsCall
  <1>8. ASSUME NEW n \in DOMAIN said', Starts(said', n), box'[said'[n].cid] = "free"
        PROVE  \E d \in DOMAIN said' : EndsCall(said', n, d)
    <2>1. CASE said'[n].cid = cid
      <3>1. StateAfter(cmd) = "free"
        BY <1>3, <1>8, <2>1
      <3>2. cmd = "DISCONNECT"
        BY <3>1 DEF StateAfter, Command
      <3>3. n \in DOMAIN said
        BY <1>2, <1>4, <1>5, <1>8, <3>2 DEF Starts
      <3>4. EndsCall(said', n, N)
        BY <1>2, <1>4, <2>1, <3>2, <3>3 DEF EndsCall
      <3> QED  BY <1>4, <3>4
    <2>2. CASE said'[n].cid # cid
      <3>1. n \in DOMAIN said /\ said'[n] = said[n]
        BY <1>2, <1>4, <1>5, <2>2
      <3>2. box[said[n].cid] = "free" /\ Starts(said, n)
        BY <1>3, <1>6, <1>8, <2>2, <3>1 DEF Starts
      <3>3. PICK d \in DOMAIN said : EndsCall(said, n, d)
        BY <3>1, <3>2 DEF BoxInv
      <3> QED  BY <1>4, <1>7, <3>1, <3>3
    <2> QED  BY <2>1, <2>2
  <1>9. ASSUME NEW a \in DOMAIN said', NEW b \in DOMAIN said',
               a < b, Starts(said', a), Starts(said', b), said'[a].cid = said'[b].cid
        PROVE  \E d \in DOMAIN said' : d < b /\ EndsCall(said', a, d)
    <2>1. a \in DOMAIN said
      <3>1. a # N
        BY <1>2, <1>4, <1>5, <1>6, <1>9
      <3> QED  BY <1>5, <3>1
    <2>2. CASE b = N
      <3>1. cmd \in {"CALL", "RING"} /\ said[a].cid = cid /\ Starts(said, a)
        BY <1>2, <1>4, <1>9, <2>1, <2>2 DEF Starts
      <3>2. box[cid] = "free"
        BY <1>1, <3>1 DEF Follows
      <3>3. PICK d \in DOMAIN said : EndsCall(said, a, d)
        BY <2>1, <3>1, <3>2 DEF BoxInv
      <3> QED  BY <1>4, <1>7, <2>1, <2>2, <3>3
    <2>3. CASE b \in DOMAIN said
      <3>1. PICK d \in DOMAIN said : d < b /\ EndsCall(said, a, d)
        BY <1>4, <1>9, <2>1, <2>3 DEF BoxInv, Starts
      <3> QED  BY <1>4, <1>7, <2>1, <3>1
    <2> QED  BY <1>5, <2>2, <2>3
  <1> QED  BY <1>8, <1>9 DEF BoxInv

LEMMA SaysTold ==
  ASSUME Types, StreamInv, ToldInv, NEW cmd \in Command, NEW cid \in Cid, BoxSays(cmd, cid)
  PROVE  ToldInv'
  <1>1. UNCHANGED <<told, handled, listeners>>
    BY DEF BoxSays, outVars, appVars
  <1>2. \A n \in Heard : said'[n] = said[n]
    <2> SUFFICES ASSUME NEW n \in Heard PROVE said'[n] = said[n]
      OBVIOUS
    <2>1. n \in DOMAIN said
      BY DEF Heard, StreamInv
    <2>2. PICK m : said' = Append(said, m)
      BY DEF BoxSays
    <2> QED  BY <2>1, <2>2 DEF Types
  <1>3. Heard' = Heard /\ \A i : Announced(i)' = Announced(i) /\ Retired(i)' = Retired(i)
    BY <1>1 DEF Heard, Announced, Retired
  <1>4. ToldRight => ToldRight'
    BY <1>1, <1>2, <1>3 DEF ToldRight, Starts
  <1> QED  BY <1>1, <1>4 DEF ToldInv

LEMMA HandleTold ==
  ASSUME Types, StreamInv, ToldInv, HandleLine
  PROVE  ToldInv'
  <1>1. PICK h \in Nat : StreamAt(h) /\ HandledTo(h)
    BY DEF HandleLine, StreamInv
  <1>2. PICK p \in Ends(line) :
          /\ \A q \in Ends(line) : p <= q
          /\ handled' = Append(handled, [msg |-> line[p].msg, whole |-> Whole(line, p)])
          /\ told' = told \o TellAll(line[p].msg)
    BY DEF HandleLine
  <1>3. UNCHANGED <<said, listeners>>
    BY DEF HandleLine, boxVars, appVars
  <1>4. PICK m \in Message : m = said[h + 1] /\ m.n = h + 1 /\ m = line[p].msg
    <2>1. line[p].msg = said[h + 1] /\ h + 1 \in DOMAIN said
      BY <1>1, <1>2, FirstLine
    <2>2. said[h + 1] \in Message /\ said[h + 1].n = h + 1
      BY <2>1 DEF StreamInv, Types
    <2> QED  BY <2>1, <2>2
  <1>5. /\ Len(handled) \in Nat /\ DOMAIN handled = 1..Len(handled)
        /\ DOMAIN handled' = 1..(Len(handled) + 1)
        /\ \A g \in DOMAIN handled : handled'[g] = handled[g]
        /\ handled'[Len(handled) + 1].msg = m
    <2>1. handled' = Append(handled, [msg |-> m, whole |-> Whole(line, p)])
      BY <1>2, <1>4
    <2>2. [msg |-> m, whole |-> Whole(line, p)].msg = m
      OBVIOUS
    <2> QED  BY <2>1, <2>2 DEF Types
  <1>6. Heard' = Heard \cup {h + 1} /\ \A n \in Heard : n \in Nat /\ n <= h
    <2>1. \A g \in DOMAIN handled : handled[g].msg.n \in Nat /\ handled[g].msg.n <= h
      BY <1>1 DEF HandledTo, StreamInv, Types
    <2>2. \A g \in DOMAIN handled' : g \in DOMAIN handled \/ g = Len(handled) + 1
      BY <1>5
    <2>3. DOMAIN handled \subseteq DOMAIN handled' /\ Len(handled) + 1 \in DOMAIN handled'
      BY <1>5
    <2> QED  BY <1>4, <1>5, <2>1, <2>2, <2>3 DEF Heard
  <1>7. CASE listeners = 0
    <2>1. told = <<>>
      BY <1>7 DEF ToldInv
    <2>2. told' = <<>>
      BY <1>2, <1>4, <1>7, <2>1, TellAllOf DEF Types
    <2> QED  BY <1>3, <2>2 DEF ToldInv, ToldRight
  <1>8. CASE listeners = 1
    <2> DEFINE t == Notices(m)
    <2>1. told' = told \o t /\ told \in Seq(Notice) /\ t \in Seq(Notice)
      BY <1>2, <1>4, <1>8, TellAllOf, NoticesOf DEF Types
    <2>2. /\ \A x \in 1..Len(t) : t[x].n = m.n /\ t[x].cid = m.cid
          /\ \A x \in 1..Len(t) : t[x].to = "newCall"
                                    => x = 1 /\ m.cmd \in {"CALL", "RING"}
          /\ m.cmd = "DISCONNECT" =>
               Len(t) = 1 /\ t[1].to = "callStatus" /\ t[1].status = "IDLE"
          /\ Len(t) \in Nat
      BY NoticesOf DEF Message, Command
    <2> HIDE DEF t
    <2>3. ToldRight
      BY <1>8 DEF ToldInv
    <2>4. /\ Len(told) \in Nat /\ DOMAIN told = 1..Len(told)
          /\ DOMAIN told' = 1..(Len(told) + Len(t))
          /\ \A i \in DOMAIN told : told'[i] = told[i] /\ i \in DOMAIN told'
          /\ \A x \in 1..Len(t) : told'[Len(told) + x] = t[x]
      <3> HIDE DEF Notice
      <3> QED  BY <2>1
    <2>5. \A i \in DOMAIN told' :
             i \in DOMAIN told \/ \E x \in 1..Len(t) : i = Len(told) + x
      <3> SUFFICES ASSUME NEW i \in DOMAIN told', i \notin DOMAIN told
                   PROVE  \E x \in 1..Len(t) : i = Len(told) + x
        OBVIOUS
      <3>1. i - Len(told) \in 1..Len(t) /\ i = Len(told) + (i - Len(told))
        BY <2>2, <2>4
      <3> QED  BY <3>1
    <2>6. \A i \in DOMAIN told : /\ told[i].n \in Nat /\ told[i].n <= h
                                 /\ Announced(i)' = Announced(i) /\ Retired(i)' = Retired(i)
      BY <1>6, <2>3, <2>4 DEF ToldRight, Announced, Retired
    <2>7. \A i \in DOMAIN told' :
            /\ told'[i].n \in Heard'
            /\ told'[i].cid = said'[told'[i].n].cid
            /\ Announced(i)' => Starts(said', told'[i].n)
      <3> SUFFICES ASSUME NEW i \in DOMAIN told'
                   PROVE  /\ told'[i].n \in Heard'
                          /\ told'[i].cid = said[told'[i].n].cid
                          /\ Announced(i)' => Starts(said, told'[i].n)
        BY <1>3
      <3>1. CASE i \in DOMAIN told
        BY <1>6, <2>3, <2>4, <2>6, <3>1 DEF ToldRight
      <3>2. CASE \E x \in 1..Len(t) : i = Len(told) + x
        <4>1. PICK x \in 1..Len(t) : i = Len(told) + x
          BY <3>2
        <4>2. told'[i] = t[x]
          BY <2>4, <4>1
        <4>3. told'[i].n = h + 1 /\ told'[i].cid = m.cid
          BY <1>4, <2>2, <4>2
        <4>4. Announced(i)' => m.cmd \in {"CALL", "RING"}
          BY <2>2, <4>2 DEF Announced
        <4> QED  BY <1>4, <1>6, <4>3, <4>4 DEF Starts
      <3> QED  BY <2>5, <3>1, <3>2
    <2>8. ASSUME NEW i \in DOMAIN told', NEW j \in DOMAIN told', i < j
          PROVE  \/ told'[i].n < told'[j].n
                 \/ told'[i].n = told'[j].n /\ ~Announced(j)'
      <3>1. CASE j \in DOMAIN told
        <4>1. i \in DOMAIN told
          BY <2>4, <2>8, <3>1
        <4> QED  BY <2>3, <2>4, <2>6, <2>8, <3>1, <4>1 DEF ToldRight
      <3>2. CASE \E x \in 1..Len(t) : j = Len(told) + x
        <4>1. PICK x \in 1..Len(t) : j = Len(told) + x
          BY <3>2
        <4>2. told'[j] = t[x] /\ told'[j].n = h + 1
          BY <1>4, <2>2, <2>4, <4>1
        <4>3. CASE i \in DOMAIN told
          BY <2>4, <2>6, <4>2, <4>3
        <4>4. CASE \E y \in 1..Len(t) : i = Len(told) + y
          <5>1. PICK y \in 1..Len(t) : i = Len(told) + y
            BY <4>4
          <5>2. told'[i].n = h + 1 /\ x # 1
            BY <1>4, <2>2, <2>4, <2>8, <4>1, <5>1
          <5> QED  BY <2>2, <4>2, <5>2 DEF Announced
        <4> QED  BY <2>5, <4>3, <4>4
      <3> QED  BY <2>5, <3>1, <3>2
    <2>9. ASSUME NEW i \in DOMAIN told', NEW g \in DOMAIN handled',
                 handled'[g].msg.cmd = "DISCONNECT", told'[i].n < handled'[g].msg.n
          PROVE  \E k \in DOMAIN told' : /\ Retired(k)' /\ told'[k].n = handled'[g].msg.n
                                         /\ told'[k].cid = handled'[g].msg.cid
      <3>1. CASE g \in DOMAIN handled
        <4>1. handled'[g] = handled[g] /\ handled[g].msg.n \in Nat /\ handled[g].msg.n <= h
          BY <1>1, <1>5, <3>1 DEF HandledTo, StreamInv, Types
        <4>2. i \in DOMAIN told
          BY <1>4, <2>2, <2>4, <2>5, <2>9, <4>1
        <4>3. PICK k \in DOMAIN told : Retired(k) /\ told[k].n = handled[g].msg.n
                                       /\ told[k].cid = handled[g].msg.cid
          BY <2>3, <2>4, <2>9, <3>1, <4>1, <4>2 DEF ToldRight
        <4> QED  BY <2>4, <2>6, <4>1, <4>3
      <3>2. CASE g = Len(handled) + 1
        <4>1. m.cmd = "DISCONNECT" /\ handled'[g].msg = m
          BY <1>5, <2>9, <3>2
        <4>2. /\ Len(told) + 1 \in DOMAIN told' /\ told'[Len(told) + 1] = t[1]
              /\ t[1].to = "callStatus" /\ t[1].status = "IDLE"
              /\ t[1].n = m.n /\ t[1].cid = m.cid
          <5>1. Len(t) = 1 /\ 1 \in 1..Len(t)
            <6>1. Len(t) = 1
              BY <2>2, <4>1, Zenon
            <6> QED  BY <6>1
          <5>2. Len(told) + 1 \in DOMAIN told'
            BY <2>4, <5>1
          <5> QED  BY <2>2, <2>4, <4>1, <5>1, <5>2
        <4> QED  BY <4>1, <4>2 DEF Retired
      <3> QED  BY <1>5, <3>1, <3>2
    <2>10. ToldRight'
      BY <2>7, <2>8, <2>9 DEF ToldRight
    <2> QED  BY <1>3, <1>8, <2>10 DEF ToldInv
  <1>9. CASE listeners > 1
    BY <1>3, <1>9 DEF ToldInv, Types
  <1> QED  BY <1>7, <1>8, <1>9 DEF Types

LEMMA NextTold == FeedInv /\ [Next]_vars => BoxInv' /\ ToldInv'
  <1> SUFFICES ASSUME Types, StreamInv, BoxInv, ToldInv, [Next]_vars PROVE BoxInv' /\ ToldInv'
    BY DEF FeedInv
  <1>1. ASSUME NEW cmd \in Command, NEW cid \in Cid, BoxSays(cmd, cid) PROVE BoxInv' /\ ToldInv'
    BY <1>1, SaysBox, SaysTold
  <1>2. CASE HandleLine
    BY <1>2, HandleTold DEF HandleLine, boxVars, BoxInv
  <1>3. CASE OnInit \/ CleanUp
    <2>1. listeners' = listeners + 1 /\ UNCHANGED <<box, said, handled, told>>
      BY <1>3 DEF OnInit, CleanUp, boxVars, outVars
    <2>2. ToldRight => ToldRight'
      BY <2>1 DEF ToldRight, Heard, Announced, Retired
    <2>3. ToldInv'
      BY <2>1, <2>2 DEF ToldInv, Types
    <2> QED  BY <2>1, <2>3 DEF BoxInv
  <1>4. CASE Connect \/ Drop \/ (\E k \in 1..Len(wire) : Receive(k)) \/ UNCHANGED vars
    <2>1. UNCHANGED <<box, said, handled, told, listeners>>
      BY <1>4 DEF Connect, Drop, Receive, vars, boxVars, outVars, appVars
    <2> QED  BY <2>1 DEF BoxInv, ToldInv, ToldRight, Heard, Announced, Retired
  <1> QED  BY <1>1, <1>2, <1>3, <1>4 DEF Next

LEMMA ToldMeansOneCall == FeedInv => OneCallPerId
  <1> SUFFICES ASSUME FeedInv, listeners <= 1,
                      NEW i \in DOMAIN told, NEW j \in DOMAIN told,
                      i < j, told[i].cid = told[j].cid, Announced(i), Announced(j),
                      HeardAll(told[i].n, told[j].n)
               PROVE  \E k \in (i + 1)..(j - 1) : told[k].cid = told[i].cid /\ Retired(k)
    BY DEF OneCallPerId
  <1>1. ToldRight /\ Types /\ StreamInv /\ BoxInv
    BY DEF FeedInv, ToldInv
  <1>2. \A n \in Heard : n \in DOMAIN said
    BY <1>1 DEF Heard, StreamInv
  <1>3. DOMAIN told = 1..Len(told) /\ Len(told) \in Nat /\ DOMAIN said \subseteq Nat
    BY <1>1 DEF Types
  <1>4. PICK a \in DOMAIN said : a = told[i].n /\ Starts(said, a) /\ said[a].cid = told[i].cid
    BY <1>1, <1>2 DEF ToldRight
  <1>5. PICK b \in DOMAIN said : b = told[j].n /\ Starts(said, b) /\ said[b].cid = told[j].cid
    BY <1>1, <1>2 DEF ToldRight
  <1>6. a < b
    BY <1>1, <1>4, <1>5 DEF ToldRight
  <1>7. PICK d \in DOMAIN said : d < b /\ EndsCall(said, a, d)
    BY <1>1, <1>4, <1>5, <1>6 DEF BoxInv
  <1>8. a < d /\ d < b /\ said[d].cmd = "DISCONNECT" /\ said[d].cid = told[i].cid
    BY <1>4, <1>7 DEF EndsCall
  <1>9. d \in Heard
    BY <1>3, <1>4, <1>5, <1>8 DEF HeardAll
  <1>10. PICK g \in DOMAIN handled : d = handled[g].msg.n /\ handled[g].msg = said[d]
    BY <1>1, <1>9 DEF Heard, StreamInv
  <1>11. PICK k \in DOMAIN told : Retired(k) /\ told[k].n = d /\ told[k].cid = told[i].cid
    <2>1. handled[g].msg.cmd = "DISCONNECT" /\ told[i].n < handled[g].msg.n
      BY <1>4, <1>8, <1>10
    <2>2. PICK k \in DOMAIN told : Retired(k) /\ told[k].n = handled[g].msg.n
                                   /\ told[k].cid = handled[g].msg.cid
      BY <1>1, <2>1 DEF ToldRight
    <2> QED  BY <1>8, <1>10, <2>2
  <1>12. ~(k < i) /\ k # i
    BY <1>1, <1>3, <1>4, <1>8, <1>11 DEF ToldRight
  <1>13. ~(j < k) /\ k # j
    BY <1>1, <1>3, <1>5, <1>8, <1>11 DEF ToldRight
  <1>14. k \in (i + 1)..(j - 1)
    BY <1>3, <1>12, <1>13
  <1> QED  BY <1>11, <1>14

(* As long as CMainApp is registered at most once, whenever that happens,  *)
(* it is told of a second call with an id only after the IDLE of the first *)
(* one, provided that nothing the box said in between was lost.            *)
THEOREM OneCallPerIdHolds == Spec => []OneCallPerId
  <1>1. Init => BoxInv /\ ToldInv
    BY DEF Init, BoxInv, ToldInv, ToldRight
  <1>2. Init => FeedInv
    BY <1>1, InitTypes, InitStream DEF FeedInv
  <1>3. FeedInv /\ [Next]_vars => FeedInv'
    BY NextTypes, NextStream, NextTold DEF FeedInv
  <1> QED  BY <1>2, <1>3, ToldMeansOneCall, PTL DEF Spec
==============================================================================

---------------------------- MODULE JournalEntry -----------------------------
(***************************************************************************)
(* CJournalEntry (gui/journal/journalentry.cpp): the record the program    *)
(* keeps of one telephone call, and the operations on it.  Every operator  *)
(* takes the entry and returns the entry the method leaves behind.         *)
(*                                                                         *)
(* Times are abstracted to what the journal tells apart: "begun" is        *)
(* m_dtBegin.IsValid(), "timed" that setEndNow has measured a duration.    *)
(* The creation time, the image and the pid/cid (the key of the map of     *)
(* active calls) are not part of the record.                               *)
(***************************************************************************)
EXTENDS Naturals

CONSTANTS
  Number,    \* formatted telephone numbers
  NoNumber,  \* the empty address
  Name,      \* names of contacts
  NoName     \* the empty name

ASSUME EmptyAssumption == NoNumber \notin Number /\ NoName \notin Name

Type == {"UNKNOWN", "INCOMING", "OUTGOING"}
State == {"UNKNOWN", "PENDING", "CONNECTED", "DISCONNECTED", "BUSY", "ONHOLD"}
Result == {"UNKNOWN", "OK", "BUSY", "NOTREACHED", "FAILED"}

Address == Number \cup {NoNumber}
Label == Name \cup {NoName}

Entry == [dbKey : Nat, dirty : BOOLEAN, type : Type, state : State, result : Result,
          begun : BOOLEAN, timed : BOOLEAN,
          clnr : Address, cln : Label, cdnr : Address, cdn : Label,
          resolvingCaller : BOOLEAN, resolvingCalled : BOOLEAN]

(* The constructor; setCreation leaves the entry dirty, and an incoming    *)
(* call counts as missed until it is answered.                             *)
NewEntry(type) ==
  [dbKey |-> 0, dirty |-> TRUE, type |-> type, state |-> "UNKNOWN",
   result |-> IF type = "INCOMING" THEN "NOTREACHED" ELSE "UNKNOWN",
   begun |-> FALSE, timed |-> FALSE,
   clnr |-> NoNumber, cln |-> NoName, cdnr |-> NoNumber, cdn |-> NoName,
   resolvingCaller |-> FALSE, resolvingCalled |-> FALSE]

(* A setter marks the entry dirty only if it changes the field.            *)
SetField(e, field, value) == [e EXCEPT ![field] = value, !.dirty = @ \/ e[field] # value]

SetDbKey(e, key) == SetField(e, "dbKey", key)
SetResult(e, result) == SetField(e, "result", result)
SetBeginNow(e) == [e EXCEPT !.begun = TRUE, !.dirty = TRUE]
SetEndNow(e) == [e EXCEPT !.timed = TRUE, !.dirty = TRUE]

(* What setState does to the other fields for an outgoing call ...         *)
OutgoingEffect(e, state) ==
  CASE state = "PENDING"      -> SetResult(e, "NOTREACHED")
    [] state = "CONNECTED"    -> SetResult(SetBeginNow(e), "OK")
    [] state = "DISCONNECTED" -> IF e.begun THEN SetEndNow(e) ELSE e
    [] state = "BUSY"         -> SetResult(e, "BUSY")
    [] OTHER                  -> e

(* Mutation: an answered call stays a missed one.                        *)
IncomingStaysMissed(e, state) ==
  CASE state = "CONNECTED" /\ e.state # "CONNECTED" -> SetBeginNow(e)
    [] state = "DISCONNECTED" /\ e.begun            -> SetEndNow(e)
    [] OTHER                                        -> e

(* ... and for an incoming one, where a repeated CONNECTED is ignored.     *)
IncomingEffect(e, state) ==
  CASE state = "CONNECTED" /\ e.state # "CONNECTED" -> SetBeginNow(SetResult(e, "OK"))
    [] state = "DISCONNECTED" /\ e.begun            -> SetEndNow(e)
    [] OTHER                                        -> e

SetState(e, state) ==
  SetField(CASE e.type = "OUTGOING" -> OutgoingEffect(e, state)
             [] e.type = "INCOMING" -> IncomingEffect(e, state)
             [] OTHER               -> e,
           "state", state)
==============================================================================

--------------------------- MODULE ResolverService ---------------------------
(***************************************************************************)
(* What CMainApp relies on when it hands a number to the resolver:         *)
(* requests are taken up one at a time in the order they were made, each   *)
(* is answered at most once (a number nobody knows gets no answer at all), *)
(* and once the resolver has been shut down nothing is answered any more.  *)
(* ResolverQueue is the mechanism in resolvermodel.cpp that provides this. *)
(***************************************************************************)
EXTENDS Sequences

CONSTANT Request      \* everything that may be asked

VARIABLES
  pending,   \* requests that were made and not yet dealt with, oldest first
  answered,  \* the requests that got an answer, in the order of the answers
  open       \* FALSE once shutdown() has returned

vars == <<pending, answered, open>>

Init ==
  /\ pending = <<>>
  /\ answered = <<>>
  /\ open = TRUE

Ask(r) ==
  /\ open
  /\ pending' = Append(pending, r)
  /\ UNCHANGED <<answered, open>>

(* The oldest request is dealt with: answered, or given up silently.       *)
Serve ==
  /\ open
  /\ pending # <<>>
  /\ pending' = Tail(pending)
  /\ answered' \in {answered, Append(answered, Head(pending))}
  /\ UNCHANGED open

(* Shutdown drops what is still waiting.                                   *)
Close ==
  /\ open
  /\ open' = FALSE
  /\ pending' = <<>>
  /\ UNCHANGED answered

Next == (\E r \in Request : Ask(r)) \/ Serve \/ Close

Spec == Init /\ [][Next]_vars
==============================================================================

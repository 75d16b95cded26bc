---------------------------- MODULE ResolverQueue ----------------------------
(***************************************************************************)
(* The asynchronous half of CResolverModel (gui/resolver/resolvermodel.cpp)*)
(* with its two threads: the GUI thread, which queues requests, edits the  *)
(* resolver list, looks numbers up synchronously and finally shuts down;   *)
(* and the worker thread (Entry), which waits on the semaphore, pops one   *)
(* request and walks the list under m_mtxResolvers until a resolver knows  *)
(* the number.                                                             *)
(*                                                                         *)
(* m_csRequestList is held by the GUI thread between push_back and the     *)
(* return from Post (gpc = "posting") and by the worker only inside Pop.   *)
(***************************************************************************)
EXTENDS Naturals, Sequences

CONSTANTS
  Number,       \* the telephone numbers that may be asked for
  Resolver,     \* CResolver objects
  Online,       \* those of type RT_ONLINE_REGEX
  Knows,        \* which numbers each resolver has a name for
  Initial,      \* m_Resolvers as loadResolvers() left it
  MaxRequests   \* bound: requests made in a behaviour

ASSUME ResolverAssumption ==
  /\ Online \subseteq Resolver
  /\ Knows \in [Resolver -> SUBSET Number]
  /\ Initial \in Seq(Resolver)
  /\ \A i, j \in 1..Len(Initial) : Initial[i] = Initial[j] => i = j
  /\ MaxRequests \in Nat

VARIABLES
  requestList,  \* m_RequestList
  semaQ,        \* the count of m_semaQ
  bTerminate,   \* m_bTerminate
  resolvers,    \* m_Resolvers
  enabled,      \* the resolvers whose m_bEnabled is set
  mtxResolvers, \* owner of m_mtxResolvers: "none", "gui" or "worker"
  gpc,          \* where the GUI thread is
  wpc,          \* where the worker thread is
  req,          \* the worker's local copy of the request (Entry: req)
  it,           \* the worker's list iterator, as a position in resolvers
  issued,       \* number of requests made so far
  responses     \* the events posted by resolverResponse, oldest first

guiVars == <<gpc, issued>>
queueVars == <<requestList, semaQ, bTerminate>>
listVars == <<resolvers, enabled>>
workVars == <<wpc, req, it, responses>>
vars == <<queueVars, listVars, mtxResolvers, guiVars, workVars>>

Request == [id : 1..MaxRequests, nr : Number, online : BOOLEAN]
Response == [id : 1..MaxRequests, nr : Number, online : BOOLEAN, by : Resolver]
NoRequest == [id |-> 0]

TypeOK ==
  /\ requestList \in Seq(Request)
  /\ semaQ \in Nat
  /\ bTerminate \in BOOLEAN
  /\ resolvers \in Seq(Resolver)
  /\ enabled \subseteq Resolver
  /\ mtxResolvers \in {"none", "gui", "worker"}
  /\ gpc \in {"idle", "posting", "lookup", "terminate", "join", "joined"}
  /\ wpc \in {"wait", "woken", "pop", "lock", "walk", "done"}
  /\ req \in Request \cup {NoRequest}
  /\ wpc \in {"lock", "walk"} => req \in Request
  /\ it \in Nat
  /\ issued \in 0..MaxRequests
  /\ responses \in Seq(Response)

Init ==
  /\ requestList = <<>>
  /\ semaQ = 0
  /\ bTerminate = FALSE
  /\ resolvers = Initial
  /\ enabled \in SUBSET Resolver
  /\ mtxResolvers = "none"
  /\ gpc = "idle"
  /\ wpc = "wait"
  /\ req = NoRequest
  /\ it = 0
  /\ issued = 0
  /\ responses = <<>>

----------------------------------------------------------------------------
(* GUI thread: requests.                                                   *)

(* resolve(id, ...): enter m_csRequestList and push_back.                  *)
Resolve(nr, online) ==
  /\ gpc = "idle"
  /\ issued < MaxRequests
  /\ issued' = issued + 1
  /\ requestList' = Append(requestList, [id |-> issued + 1, nr |-> nr, online |-> online])
  /\ gpc' = "posting"
  /\ UNCHANGED <<semaQ, bTerminate, listVars, mtxResolvers, workVars>>

(* Mutation: Post only if the list was empty before.                     *)
PostFirstOnly ==
  /\ gpc = "posting"
  /\ semaQ' = IF Len(requestList) = 1 THEN semaQ + 1 ELSE semaQ
  /\ gpc' = "idle"
  /\ UNCHANGED <<requestList, bTerminate, listVars, mtxResolvers, issued, workVars>>

(* ... m_semaQ.Post() and the release of m_csRequestList.                  *)
PostRequest ==
  /\ gpc = "posting"
  /\ semaQ' = semaQ + 1
  /\ gpc' = "idle"
  /\ UNCHANGED <<requestList, bTerminate, listVars, mtxResolvers, issued, workVars>>

----------------------------------------------------------------------------
(* GUI thread: the synchronous resolve(strNumber, contact) that            *)
(* CMainApp::reverseLookup calls; it walks the list holding the mutex.     *)

BeginLookup ==
  /\ gpc = "idle"
  /\ mtxResolvers = "none"
  /\ mtxResolvers' = "gui"
  /\ gpc' = "lookup"
  /\ UNCHANGED <<queueVars, listVars, issued, workVars>>

EndLookup ==
  /\ gpc = "lookup"
  /\ mtxResolvers' = "none"
  /\ gpc' = "idle"
  /\ UNCHANGED <<queueVars, listVars, issued, workVars>>

----------------------------------------------------------------------------
(* GUI thread: edits of the list.  Each holds m_mtxResolvers from start to *)
(* end and calls nothing that waits for the worker, hence one step each.   *)

(* Mutation: an edit does not take the mutex.                            *)
EditUnlocked ==
  /\ gpc = "idle"
  /\ UNCHANGED <<queueVars, mtxResolvers, guiVars, workVars>>

EditList ==
  /\ gpc = "idle"
  /\ mtxResolvers = "none"
  /\ UNCHANGED <<queueVars, mtxResolvers, guiVars, workVars>>

Swapped(s, i) == [s EXCEPT ![i] = s[i + 1], ![i + 1] = s[i]]
Without(s, i) == SubSeq(s, 1, i - 1) \o SubSeq(s, i + 1, Len(s))

MoveUp(i) ==
  /\ EditList
  /\ i \in 2..Len(resolvers)
  /\ resolvers' = Swapped(resolvers, i - 1)
  /\ UNCHANGED enabled

(* The last entry is excluded: CResolverPage::OnUpdateButtons disables the *)
(* button, and the code would advance past the end of the list.            *)
MoveDown(i) ==
  /\ EditList
  /\ i \in 1..(Len(resolvers) - 1)
  /\ resolvers' = Swapped(resolvers, i)
  /\ UNCHANGED enabled

Toggle(i) ==
  /\ EditList
  /\ i \in 1..Len(resolvers)
  /\ enabled' = (enabled \ {resolvers[i]}) \cup ({resolvers[i]} \ enabled)
  /\ UNCHANGED resolvers

(* deleteEntry when its transaction commits; otherwise nothing changes.    *)
DeleteEntry(i) ==
  /\ EditList
  /\ i \in 1..Len(resolvers)
  /\ resolvers' = Without(resolvers, i)
  /\ UNCHANGED enabled

(* appendEntry refuses a name that is already listed (hasEntry); a new     *)
(* resolver comes enabled or not, as the imported file says.               *)
AppendEntry(r) ==
  /\ EditList
  /\ \A i \in 1..Len(resolvers) : resolvers[i] # r
  /\ resolvers' = Append(resolvers, r)
  /\ enabled' \in {enabled \cup {r}, enabled \ {r}}

----------------------------------------------------------------------------
(* GUI thread: shutdown(), called from CMainApp::CleanUp.                  *)

SetTerminate ==
  /\ gpc = "idle"
  /\ bTerminate' = TRUE
  /\ gpc' = "terminate"
  /\ UNCHANGED <<requestList, semaQ, listVars, mtxResolvers, issued, workVars>>

(* Mutation: the worker is not woken up.                                 *)
PostNothing ==
  /\ gpc = "terminate"
  /\ gpc' = "join"
  /\ UNCHANGED <<requestList, semaQ, bTerminate, listVars, mtxResolvers, issued, workVars>>

PostTerminate ==
  /\ gpc = "terminate"
  /\ semaQ' = semaQ + 1
  /\ gpc' = "join"
  /\ UNCHANGED <<requestList, bTerminate, listVars, mtxResolvers, issued, workVars>>

(* Mutation: shutdown does not wait for the thread.                      *)
JoinAtOnce ==
  /\ gpc = "join"
  /\ gpc' = "joined"
  /\ UNCHANGED <<queueVars, listVars, mtxResolvers, issued, workVars>>

Join ==
  /\ gpc = "join"
  /\ wpc = "done"
  /\ gpc' = "joined"
  /\ UNCHANGED <<queueVars, listVars, mtxResolvers, issued, workVars>>

----------------------------------------------------------------------------
(* Worker thread: Entry().                                                 *)

Wait ==
  /\ wpc = "wait"
  /\ semaQ > 0
  /\ semaQ' = semaQ - 1
  /\ wpc' = "woken"
  /\ UNCHANGED <<requestList, bTerminate, listVars, mtxResolvers, guiVars, req, it, responses>>

(* Mutation: m_bTerminate is not looked at after a wake-up.              *)
CheckNothing ==
  /\ wpc = "woken"
  /\ wpc' = "pop"
  /\ UNCHANGED <<queueVars, listVars, mtxResolvers, guiVars, req, it, responses>>

CheckTerminate ==
  /\ wpc = "woken"
  /\ wpc' = IF bTerminate THEN "done" ELSE "pop"
  /\ UNCHANGED <<queueVars, listVars, mtxResolvers, guiVars, req, it, responses>>

(* Mutation: the request is removed but not copied.                      *)
PopNotCopied ==
  /\ wpc = "pop"
  /\ gpc # "posting"
  /\ requestList # <<>>
  /\ requestList' = Tail(requestList)
  /\ wpc' = "lock"
  /\ UNCHANGED <<semaQ, bTerminate, listVars, mtxResolvers, guiVars, req, it, responses>>

(* front() and pop_front() under m_csRequestList.  On an empty list they   *)
(* are undefined behaviour, which NoEmptyPop shows to be out of reach.     *)
Pop ==
  /\ wpc = "pop"
  /\ gpc # "posting"
  /\ requestList # <<>>
  /\ req' = Head(requestList)
  /\ requestList' = Tail(requestList)
  /\ wpc' = "lock"
  /\ UNCHANGED <<semaQ, bTerminate, listVars, mtxResolvers, guiVars, it, responses>>

(* processRequest: take the mutex and start at the head of the list.       *)
Lock ==
  /\ wpc = "lock"
  /\ mtxResolvers = "none"
  /\ mtxResolvers' = "worker"
  /\ it' = 1
  /\ wpc' = "walk"
  /\ UNCHANGED <<queueVars, listVars, guiVars, req, responses>>

(* Mutation: the request's online flag is ignored.                       *)
ApplicableIfEnabled(r) == r \in enabled

Applicable(r) == r \in enabled /\ (r \in Online => req.online)

(* The resolver at the iterator does not apply, or does not find the       *)
(* number; a web lookup may fail for any number.                           *)
NextResolver ==
  /\ wpc = "walk"
  /\ it <= Len(resolvers)
  /\ \/ ~Applicable(resolvers[it])
     \/ req.nr \notin Knows[resolvers[it]]
     \/ resolvers[it] \in Online
  /\ it' = it + 1
  /\ UNCHANGED <<queueVars, listVars, mtxResolvers, guiVars, wpc, req, responses>>

(* The resolver finds the number: post the response, leave the loop and    *)
(* release the mutex.                                                      *)
Found ==
  /\ wpc = "walk"
  /\ it <= Len(resolvers)
  /\ Applicable(resolvers[it])
  /\ req.nr \in Knows[resolvers[it]]
  /\ responses' = Append(responses, [id |-> req.id, nr |-> req.nr, online |-> req.online,
                                     by |-> resolvers[it]])
  /\ mtxResolvers' = "none"
  /\ wpc' = "wait"
  /\ UNCHANGED <<queueVars, listVars, guiVars, req, it>>

(* Nobody knows the number: the request ends without a response.           *)
NotFound ==
  /\ wpc = "walk"
  /\ it > Len(resolvers)
  /\ mtxResolvers' = "none"
  /\ wpc' = "wait"
  /\ UNCHANGED <<queueVars, listVars, guiVars, req, it, responses>>

----------------------------------------------------------------------------
Edits ==
  \/ \E i \in 1..Len(resolvers) : MoveUp(i) \/ MoveDown(i) \/ Toggle(i) \/ DeleteEntry(i)
  \/ \E r \in Resolver : AppendEntry(r)

Gui ==
  \/ \E nr \in Number, online \in BOOLEAN : Resolve(nr, online)
  \/ PostRequest
  \/ BeginLookup
  \/ EndLookup
  \/ Edits
  \/ SetTerminate
  \/ PostTerminate
  \/ Join

Worker ==
  \/ Wait
  \/ CheckTerminate
  \/ Pop
  \/ Lock
  \/ NextResolver
  \/ Found
  \/ NotFound

Next == Gui \/ Worker

Spec == Init /\ [][Next]_vars

(* A thread that can go on does.  Lock gets strong fairness because a GUI  *)
(* lookup may hold the mutex again and again; Win32 mutexes serve waiters  *)
(* in order.  What the user does (requests, lookups, edits, leaving the    *)
(* program) is never forced, but an operation that was begun is finished.  *)
Fairness ==
  /\ WF_vars(PostRequest \/ EndLookup \/ PostTerminate \/ Join)
  /\ WF_vars(Wait \/ CheckTerminate \/ Pop \/ NextResolver \/ Found \/ NotFound)
  /\ SF_vars(Lock)

FairSpec == Spec /\ Fairness

----------------------------------------------------------------------------
(* Properties.                                                             *)

(* Tokens in the semaphore plus the one the worker has just taken always   *)
(* pay for exactly the queued requests (one may still be waiting for its   *)
(* Post) and for shutdown's wake-up: no wake-up is lost, none is spurious. *)
Held == IF wpc \in {"woken", "pop", "done"} THEN 1 ELSE 0
Unposted == IF gpc = "posting" THEN 1 ELSE 0
Wakeup == IF gpc \in {"join", "joined"} THEN 1 ELSE 0

TokensPayForWork == semaQ + Held + Unposted = Len(requestList) + Wakeup

(* The worker never calls front() on an empty request list, not even when  *)
(* shutdown's extra Post is what woke it (resolvermodel.cpp:432).          *)
NoEmptyPop == wpc = "pop" => requestList # <<>>

(* A response never overrules the user's list: when resolver r answers, no *)
(* enabled local resolver listed before r knows the number, with the list  *)
(* as it is at that moment although the GUI may edit it at any time.       *)
FirstMatchWins ==
  [][\A i \in 1..Len(resolvers), j \in 1..Len(resolvers) :
       Len(responses') > Len(responses) /\ j < i =>
         LET a == responses'[Len(responses')] IN
           a.by = resolvers[i] =>
             ~(resolvers[j] \in enabled \ Online /\ a.nr \in Knows[resolvers[j]])]_vars

(* A number that must not leave the house (internal, international, or the *)
(* local party's own) is never answered by a web resolver.                 *)
OnlineOnlyIfAllowed ==
  \A i \in 1..Len(responses) : responses[i].by \in Online => responses[i].online

(* The mechanism implements the service: order, at most one answer each,   *)
(* silence after shutdown.  The request in the worker's hands is still the *)
(* oldest pending one until it is answered or given up.                    *)
Plain(a) == [id |-> a.id, nr |-> a.nr, online |-> a.online]

InWork == wpc \in {"lock", "walk"}

pendingBar ==
  IF gpc = "joined" THEN <<>>
  ELSE IF InWork THEN <<req>> \o requestList
  ELSE requestList

answeredBar == [i \in 1..Len(responses) |-> Plain(responses[i])]

Service == INSTANCE ResolverService WITH
  pending <- pendingBar, answered <- answeredBar, open <- (gpc # "joined")

Implements == Service!Spec

(* Every request is eventually dealt with unless the program is leaving.   *)
Waiting(n) ==
  \/ InWork /\ req.id = n
  \/ \E i \in 1..Len(requestList) : requestList[i].id = n

EveryRequestServed ==
  \A n \in 1..MaxRequests : Waiting(n) ~> (~Waiting(n) \/ bTerminate)

(* shutdown() always gets the worker to end: CleanUp does not hang, however*)
(* much is queued and whatever the worker is doing.                        *)
ShutdownCompletes == bTerminate ~> (gpc = "joined")
==============================================================================

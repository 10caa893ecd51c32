------------------------------ MODULE ActionPair ------------------------------
(***************************************************************************)
(* Two enablers, the client and the server of an action, and the           *)
(* applications that use them as examples/action/main.cpp does.            *)
(*                                                                         *)
(* What ActionClient leaves to a remote server is here done by an enabler, *)
(* and what ActionServer leaves to remote clients by the other: every step *)
(* below is a step of one of the two modules, or of both.  A sample of the *)
(* network is in net from its publication until the answer to it takes its *)
(* place, and stays there if the answer could not be published.            *)
(*                                                                         *)
(* DDS Pipe keeps, with the identifier that the server's enabler gives a   *)
(* request, which request of the client it is: a reply goes to the request *)
(* whose identifier it carries, whatever goal it was meant for.            *)
(***************************************************************************)
EXTENDS ActionClient

CONSTANTS GivenResults,  \* what the server's application may give, once each
          FinalCodes     \* how it ends its goals

\* The server's enabler tells the client what its application said, and its
\* application, as that of the client, does not cancel.  Both ends know the
\* types of the action, so that every result received is notified.  Feedback,
\* which touches no map, is left out.
ASSUME PairAssumption ==
    /\ GoalAnswers = {"accepted", "rejected"}
    /\ ResultAnswers = {"result"}
    /\ CancelTargets = {}
    /\ FeedbackGoals = {}
    /\ GivenResults \subseteq Goals \X Results
    /\ FinalCodes \subseteq FinalPhases

VARIABLES
    \* the server, as in ActionServer, where the first two are store and
    \* requests_id; srv is what its application has decided of a goal
    s_store, s_requests_id, requests, sent, answer, goal_reply, result_call,
    asked, replies, failed, cancels,
    \* goals whose final status was published, and those of which a sample
    \* with it was lost on the client
    finals_published, finals_lost

client == vars
server == <<s_store, s_requests_id, requests, sent, answer, goal_reply,
            result_call, asked, replies, failed, cancels>>
finals == <<finals_published, finals_lost>>
pairVars == <<client, server, finals>>

\* The participant that asks is the client's enabler.
Asker == "client"
Asks(kind, u) == IF kind = "RESULT" THEN [kind |-> kind, uuid |-> u, asker |-> Asker]
                                    ELSE [kind |-> kind, uuid |-> u]

S == INSTANCE ActionServer WITH
        store <- s_store, requests_id <- s_requests_id, Askers <- {Asker},
        ClientRequests <- {Asks(kind, u) : kind \in {"GOAL", "RESULT", "CANCEL"}, u \in Goals}

PairInit == Init /\ S!Init /\ finals_published = {} /\ finals_lost = {}

-----------------------------------------------------------------------------
(* The applications.                                                       *)

\* client_routine: one thread sends goals.
SendGoal(g) ==
    /\ \A h \in Goals : call[h] # "published"
    /\ SendGoalPublish(g)

ClientCall(g) ==
    /\ SendGoal(g) \/ SendGoalStore(g)
    /\ UNCHANGED <<server, finals>>

\* server_routine: one thread works on the accepted goals, in any order,
\* each until its result has been given.
AtWork(u) == /\ srv[u] \in FinalPhases
             /\ \A c \in GivenResults : c[1] = u => result_call[c] \in {"idle", "checked"}

Finish(u) ==
    /\ answer[u] = "accepted"
    /\ \A v \in Goals : ~AtWork(v)
    /\ ServerFinishes(u)
    /\ srv'[u] \in FinalCodes
    /\ UNCHANGED <<server, finals>>

\* The goals whose final status a sample brings.
FinalIn(sample) == {g \in Goals : sample[g] \in FinalStatus}

\* update_action_status, refused once the goal has left the map: a sample
\* that lists one goal, and takes the place of one that nobody has read yet.
\* The application announces the end of a goal once.
UpdateStatus(u) ==
    LET a == ActionOf[u] IN
    /\ srv[u] \in FinalPhases
    /\ u \notin finals_published
    /\ S!IsActive(s_store, a, u)
    /\ PublishStatus(a)
    /\ status_topic'[a] = [g \in UUIDs |-> IF g = u THEN srv[u] ELSE "none"]
    /\ finals_published' = finals_published \cup FinalIn(status_topic'[a])
    /\ finals_lost' = finals_lost \cup (FinalIn(status_topic[a]) \ {u})
    /\ UNCHANGED server

\* The result of a goal is given once it is over.
GiveResult(u, r) ==
    /\ srv[u] \in FinalPhases
    /\ S!SendResultCheck(u, r)
    /\ UNCHANGED <<client, finals>>

FinishResult(u, r) == S!HandleResult(u, r) /\ UNCHANGED <<client, finals>>

-----------------------------------------------------------------------------
(* The network and the deliveries at either end.                           *)

\* Kinds of a request at the client's end and at the server's.
Kinds == [goal_request |-> "GOAL", result_request |-> "RESULT", cancel_request |-> "CANCEL"]

Carry(u, kind) ==
    /\ InFlight(kind, u)
    /\ S!ClientSends(Asks(Kinds[kind], u))
    /\ UNCHANGED <<client, finals>>

\* The server's application is asked and its answer sent.  The reply takes
\* the place of the request, and is not delivered if it was not published.
TakeGoal(u) ==
    /\ S!ReceiveGoalRequest(u)
    /\ ServerTakesGoal(u)
    /\ \E m \in net' : m.kind = "goal_reply" /\ m.uuid = u /\ m.body = answer'[u]
    /\ UNCHANGED finals

TakeRequest(u) ==
    /\ S!ReceiveResultRequest(u) \/ S!ReceiveCancelRequest(u)
    /\ UNCHANGED <<client, finals>>

\* The results published in answer to the request for the result of u.
Answers(u) == {p.result : p \in {q \in replies : q.id \in asked[u]}}

CarryResult(u) ==
    /\ Answers(u) # {}
    /\ ServerAnswersResult(u)
    /\ UNCHANGED <<server, finals>>

Deliver(u) ==
    /\ \/ goal_reply[u] # "failed" /\ ReceiveGoalReply(u)
       \/ ReceiveResultReply(u)
    /\ UNCHANGED <<server, finals>>

\* A sample about a goal that the client has not stored yet is ignored.
DeliverStatus(a) ==
    /\ ReceiveStatus(a)
    /\ finals_lost' = finals_lost \cup {g \in FinalIn(status_topic[a]) : call[g] = "published"}
    /\ UNCHANGED <<server, finals_published>>

-----------------------------------------------------------------------------
PairNext ==
    \/ \E u \in Goals : \/ ClientCall(u) \/ Finish(u) \/ UpdateStatus(u)
                        \/ TakeGoal(u) \/ TakeRequest(u)
                        \/ CarryResult(u) \/ Deliver(u)
                        \/ \E kind \in DOMAIN Kinds : Carry(u, kind)
                        \/ \E r \in Results : GiveResult(u, r) \/ FinishResult(u, r)
    \/ \E a \in Actions : DeliverStatus(a)

PairSpec == PairInit /\ [][PairNext]_pairVars

\* Calls that have begun return, and what is on the network is carried and
\* delivered, in any order.  Nobody has to make a call.
PairProgress ==
    \/ \E u \in Goals :
          \/ SendGoalStore(u) /\ UNCHANGED <<server, finals>>
          \/ TakeGoal(u) \/ TakeRequest(u) \/ CarryResult(u) \/ Deliver(u)
          \/ \E kind \in DOMAIN Kinds : Carry(u, kind)
          \/ \E r \in Results : FinishResult(u, r)
    \/ \E a \in Actions : DeliverStatus(a)

FairPairSpec == PairSpec /\ WF_pairVars(PairProgress)

-----------------------------------------------------------------------------
(* Properties.                                                             *)

\* Callbacks.hpp and DDSEnabler.hpp, end to end: the verdict and the result
\* that the client's application hears of a goal are those that the server's
\* application gave on that goal, though neither reply names the goal.
Exchange == INSTANCE GoalExchange WITH
    verdict      <- [g \in Goals |-> answer[g]],
    offered      <- [g \in Goals |->
                       {r \in Results : /\ <<g, r>> \in GivenResults
                                        /\ result_call[<<g, r>>] \in {"kept", "sent"}}],
    told_verdict <- [g \in Goals |->
                       IF "ACCEPTED" \in reply_notes[g] THEN "accepted"
                       ELSE IF "REJECTED" \in reply_notes[g] THEN "rejected" ELSE "none"],
    told_results <- [g \in Goals |-> IF result_replies[g] = 0 THEN {} ELSE Answers(g)]

ImplementsExchange == Exchange!Spec

Awaited(g) == /\ Known(store, g)
              /\ store[g].result_request_id # 0
              /\ ~store[g].result_received

\* The two maps agree: a goal whose result the client's enabler waits for is
\* in the map of the server's, so that the calls about it are not refused,
\* until its result is published.
AwaitedGoalIsServed ==
    \A g \in Goals : Awaited(g) => S!IsActive(s_store, ActionOf[g], g) \/ Answers(g) # {}

\* A result that send_action_result took reaches the application of the
\* client, unless the client could not ask for it or a reply was lost.
TakenResultIsTold ==
    \A c \in GivenResults :
        LET g == c[1] IN
        result_call[c] \in {"kept", "sent"} ~>
            \/ result_replies[g] = 1
            \/ g \in failed \cup orphaned
            \/ goal_reply[g] = "failed"
            \/ "ABORTED" \in reply_notes[g]

\* A goal whose result was told leaves the client's map in the end if its
\* final status was published, which the server's enabler allows until the
\* result is.  Every such sample reaches the entry of the goal, unless it was
\* replaced by another goal's or came before send_action_goal had stored it.
ToldGoalIsReleased ==
    \A g \in Goals :
        result_replies[g] = 1 /\ g \in finals_published
            ~> ~Known(store, g) \/ g \in finals_lost

=============================================================================

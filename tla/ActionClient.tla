---------------------------- MODULE ActionClient ----------------------------
(***************************************************************************)
(* The enabler as a client of ROS 2 actions.                               *)
(*                                                                         *)
(* Application threads call send_action_goal and cancel_action_goal; pipe  *)
(* threads deliver the samples of the remote action servers to             *)
(* Handler::add_data.  add_data holds Handler::mtx_ from its first line to *)
(* its last, the callbacks it makes into EnablerParticipant included, so a *)
(* delivery is one step.  The calls of the application take that mutex     *)
(* once per access to the map and are split there.                         *)
(*                                                                         *)
(* The remote servers and the network are external: a sample in flight may *)
(* be delivered at any time, in any order with those of other topics, or   *)
(* never.  Whether EnablerParticipant::publish_rpc succeeds depends on     *)
(* what has been discovered and on the payload, and is left open.          *)
(***************************************************************************)
EXTENDS ActionRequests

CONSTANTS EmptyUUID,      \* UUID(), the default value: every goal
          ActionOf,       \* the action each goal is sent to
          CancelTargets,  \* what the application may cancel, once each
          GoalAnswers,    \* what the remote servers answer a goal request,
          ResultAnswers,  \* a result request
          CancelCodes,    \* and a cancel request
          FeedbackGoals   \* goals whose servers publish feedback

Goals == UUIDs \ {EmptyUUID}

ASSUME ClientAssumption ==
    /\ EmptyUUID \in UUIDs
    /\ ActionOf \in [UUIDs -> Actions]
    /\ CancelTargets \subseteq UUIDs
    /\ GoalAnswers \subseteq {"accepted", "rejected", "malformed"}
    /\ ResultAnswers \subseteq {"result", "unreadable"}
    /\ FeedbackGoals \subseteq Goals
    /\ CancelCodes \subseteq {"NONE", "REJECTED", "UNKNOWN_GOAL_ID",
                              "GOAL_TERMINATED", "other"}

VARIABLES
    store,         \* Handler::action_request_id_to_uuid_
    requests_id,   \* Handler::requests_id_
    call,          \* where the send_action_goal call of each goal is
    goal_rid,      \* its local goal_request_id, 0 before it is drawn
    cancel,        \* where the cancel_action_goal call of each id is
    net,           \* requests and replies in flight
    status_topic,  \* last undelivered sample of each status topic
    srv,           \* state of each goal in its remote server
    reply_notes,   \* status codes notified upon goal and cancel replies
    status_notes,  \* status codes notified upon samples of the status topic
    result_replies,  \* number of result replies that found the goal
    unread,        \* goals whose result could not be converted, nor notified
    feedback_notes,  \* goals of which feedback has been notified
    orphaned       \* goals whose goal reply found no entry in the map

enabler == <<store, requests_id, call, goal_rid, cancel>>
remote == <<status_topic, srv>>
asides == <<unread, feedback_notes>>
notes == <<reply_notes, status_notes, result_replies, asides, orphaned>>
vars == <<store, requests_id, call, goal_rid, cancel, net, status_topic, srv,
          reply_notes, status_notes, result_replies, asides, orphaned>>

-----------------------------------------------------------------------------
(* Messages.  uuid is in the payload of every request; in a reply it only  *)
(* says which request the server is answering, and the code has nothing    *)
(* but the request identifier to find that out.                            *)

RequestKinds == {"goal_request", "result_request", "cancel_request"}
ReplyKinds == {"goal_reply", "result_reply", "cancel_reply"}

\* listed: the uuid is in goals_canceling (cancel replies only).
Message == [ kind   : RequestKinds \cup ReplyKinds \cup {"feedback"},
             uuid   : UUIDs,
             id     : Nat,
             body   : GoalAnswers \cup ResultAnswers \cup CancelCodes \cup {"-"},
             listed : BOOLEAN ]

Request(kind, u, id) ==
    [kind |-> kind, uuid |-> u, id |-> id, body |-> "-", listed |-> FALSE]
Reply(kind, m, body, listed) ==
    [kind |-> kind, uuid |-> m.uuid, id |-> m.id, body |-> body, listed |-> listed]

\* A sample of the feedback topic answers no request.
Feedback(u) ==
    [kind |-> "feedback", uuid |-> u, id |-> 0, body |-> "-", listed |-> FALSE]

InFlight(kind, u) == \E m \in net : m.kind = kind /\ m.uuid = u

\* States of a goal in a remote server, named after the codes it publishes.
FinalPhases == {"SUCCEEDED", "CANCELED", "ABORTED"}
Phases == {"none", "ACCEPTED", "CANCELING", "REJECTED"} \cup FinalPhases

\* Mutated form: the other cases of the switch do not report.
FinalStatus_SucceededOnly == {"SUCCEEDED"}

\* Codes after which the writer reports the final status to the map.
FinalStatus == FinalPhases \cup {"REJECTED"}
StatusCodes == Phases \cup {"UNKNOWN", "CANCEL_REQUEST_FAILED"}

NoSample == [u \in UUIDs |-> "none"]

-----------------------------------------------------------------------------
Init ==
    /\ store = [u \in UUIDs |-> NoEntry]
    /\ requests_id = 0
    /\ call = [g \in Goals |-> "idle"]
    /\ goal_rid = [g \in Goals |-> 0]
    /\ cancel = [u \in UUIDs |-> "idle"]
    /\ net = {}
    /\ status_topic = [a \in Actions |-> NoSample]
    /\ srv = [u \in UUIDs |-> "none"]
    /\ reply_notes = [g \in UUIDs |-> {}]
    /\ status_notes = [g \in UUIDs |-> {}]
    /\ result_replies = [g \in UUIDs |-> 0]
    /\ unread = {}
    /\ feedback_notes = {}
    /\ orphaned = {}

-----------------------------------------------------------------------------
(* The application's calls.                                                *)

\* Mutated form: the new request identifier is not kept as the last one.
SendGoalPublish_NoIncrement(g) ==
    /\ call[g] = "idle"
    /\ goal_rid' = [goal_rid EXCEPT ![g] = requests_id + 1]
    /\ net' = net \cup {Request("goal_request", g, requests_id + 1)}
    /\ call' = [call EXCEPT ![g] = "published"]
    /\ UNCHANGED <<store, requests_id, cancel, remote, notes>>

\* send_action_goal, until publish_rpc has returned: the fresh UUID and the
\* new request identifier are on the network and not yet in the map.
SendGoalPublish(g) ==
    /\ call[g] = "idle"
    /\ requests_id' = requests_id + 1
    /\ goal_rid' = [goal_rid EXCEPT ![g] = requests_id + 1]
    /\ \/ /\ net' = net \cup {Request("goal_request", g, requests_id + 1)}
          /\ call' = [call EXCEPT ![g] = "published"]
       \/ /\ call' = [call EXCEPT ![g] = "failed"]
          /\ UNCHANGED net
    /\ UNCHANGED <<store, cancel, remote, notes>>

\* The rest of send_action_goal: the map is told which goal was sent.
SendGoalStore(g) ==
    /\ call[g] = "published"
    /\ IF CanStore(store, ActionOf[g], g, "GOAL")
       THEN /\ store' = Stored(store, ActionOf[g], g, goal_rid[g], "GOAL")
            /\ call' = [call EXCEPT ![g] = "stored"]
       ELSE /\ store' = Erased(store, g, "FORCED")
            /\ call' = [call EXCEPT ![g] = "failed"]
    /\ UNCHANGED <<requests_id, goal_rid, cancel, net, remote, notes>>

\* cancel_action_goal reads the map twice, first whether the goal is active,
\* which the empty UUID is spared, then the protocol to send with.
CancelCheck(u) ==
    /\ u \in CancelTargets
    /\ cancel[u] = "idle"
    /\ cancel' = [cancel EXCEPT ![u] =
                    IF u = EmptyUUID \/ IsActive(store, ActionOf[u], u)
                    THEN "checked" ELSE "refused"]
    /\ UNCHANGED <<store, requests_id, call, goal_rid, net, remote, notes>>

CancelAddress(u) ==
    /\ cancel[u] = "checked"
    /\ cancel' = [cancel EXCEPT ![u] =
                    IF ProtocolKnown(store, ActionOf[u], u)
                    THEN "addressed" ELSE "refused"]
    /\ UNCHANGED <<store, requests_id, call, goal_rid, net, remote, notes>>

CancelPublish(u) ==
    /\ cancel[u] = "addressed"
    /\ requests_id' = requests_id + 1
    /\ \/ /\ net' = net \cup {Request("cancel_request", u, requests_id + 1)}
          /\ cancel' = [cancel EXCEPT ![u] = "sent"]
       \/ /\ cancel' = [cancel EXCEPT ![u] = "failed"]
          /\ UNCHANGED net
    /\ UNCHANGED <<store, call, goal_rid, remote, notes>>

-----------------------------------------------------------------------------
(* Handler::add_data on the topics of a client.                            *)

Notify(codes, g, code) == [codes EXCEPT ![g] = @ \cup {code}]

\* A goal reply whose request identifier is in no entry of the map is dropped.
GoalReplyOrphaned(m) ==
    /\ UUIDsOf(store, m.id, "GOAL") = {}
    /\ orphaned' = orphaned \cup {m.uuid}
    /\ net' = net \ {m}
    /\ UNCHANGED <<enabler, remote, reply_notes, status_notes, result_replies, asides>>

GoalReplyRefused(m, g) ==
    /\ m.body # "accepted"
    /\ reply_notes' = Notify(reply_notes, g,
                        IF m.body = "rejected" THEN "REJECTED" ELSE "UNKNOWN")
    /\ net' = net \ {m}
    /\ UNCHANGED <<enabler, remote, status_notes, result_replies, asides, orphaned>>

\* The acceptance is notified and the result requested at once.
\* send_action_get_result_request stores after it has published, but the
\* mutex of add_data is held around both and the store cannot fail.
GoalReplyAccepted(m, g) ==
    /\ m.body = "accepted"
    /\ ProtocolKnown(store, ActionOf[m.uuid], g)
    /\ reply_notes' = Notify(reply_notes, g, "ACCEPTED")
    /\ requests_id' = requests_id + 1
    /\ net' = (net \ {m}) \cup {Request("result_request", g, requests_id + 1)}
    /\ store' = Stored(store, ActionOf[m.uuid], g, requests_id + 1, "RESULT")
    /\ UNCHANGED <<call, goal_rid, cancel, remote, status_notes, result_replies,
                   asides, orphaned>>

\* Mutated form: the request is sent and stored and the caller told that
\* it was not.
GoalReplyAborted_RequestIsSent(m, g) ==
    /\ m.body = "accepted"
    /\ reply_notes' = [reply_notes EXCEPT ![g] = @ \cup {"ACCEPTED", "ABORTED"}]
    /\ requests_id' = requests_id + 1
    /\ net' = (net \ {m}) \cup {Request("result_request", g, requests_id + 1)}
    /\ store' = Stored(store, ActionOf[m.uuid], g, requests_id + 1, "RESULT")
    /\ UNCHANGED <<call, goal_rid, cancel, remote, status_notes, result_replies,
                   asides, orphaned>>

\* The result request could not be sent: the goal is cancelled, which may
\* fail too, and notified as aborted.
GoalReplyAborted(m, g) ==
    /\ m.body = "accepted"
    /\ reply_notes' = [reply_notes EXCEPT ![g] = @ \cup {"ACCEPTED", "ABORTED"}]
    /\ IF ProtocolKnown(store, ActionOf[m.uuid], g)
       THEN /\ requests_id' = requests_id + 2
            /\ \E cancelled \in SUBSET {Request("cancel_request", g, requests_id + 2)} :
                    net' = (net \ {m}) \cup cancelled
       ELSE /\ net' = net \ {m}
            /\ UNCHANGED requests_id
    /\ UNCHANGED <<store, call, goal_rid, cancel, remote, status_notes, result_replies,
                   asides, orphaned>>

ReceiveGoalReply(u) ==
    \E m \in net :
        /\ m.kind = "goal_reply" /\ m.uuid = u
        /\ \/ GoalReplyOrphaned(m)
           \/ \E g \in UUIDsOf(store, m.id, "GOAL") :
                \/ GoalReplyRefused(m, g)
                \/ GoalReplyAccepted(m, g)
                \/ GoalReplyAborted(m, g)

\* The UUID handed to erase_action_UUID is the one found, or whatever the
\* uninitialized local holds when none is found.  The entry is told of the
\* result though the application is not if it cannot be converted.
ReceiveResultReply(u) ==
    \E m \in net :
        LET found == UUIDsOf(store, m.id, "RESULT") IN
        /\ m.kind = "result_reply" /\ m.uuid = u
        /\ \E g \in IF found = {} THEN UUIDs ELSE found :
              /\ result_replies' = IF found = {} THEN result_replies
                                   ELSE [result_replies EXCEPT ![g] = @ + 1]
              /\ unread' = IF found # {} /\ m.body = "unreadable"
                           THEN unread \cup {g} ELSE unread
              /\ store' = Erased(store, g, "RESULT")
        /\ net' = net \ {m}
        /\ UNCHANGED <<requests_id, call, goal_rid, cancel, remote,
                       reply_notes, status_notes, feedback_notes, orphaned>>

\* Feedback is notified under the goal it names, which is not looked up.
ReceiveFeedback(u) ==
    /\ Feedback(u) \in net
    /\ feedback_notes' = feedback_notes \cup {u}
    /\ net' = net \ {Feedback(u)}
    /\ UNCHANGED <<enabler, remote, reply_notes, status_notes, result_replies,
                   unread, orphaned>>

\* Mutated form: the return code is cast to the StatusCode of the same value.
CancelStatus_Cast(code) ==
    CASE code = "NONE"            -> "UNKNOWN"
      [] code = "REJECTED"        -> "ACCEPTED"
      [] code = "UNKNOWN_GOAL_ID" -> "EXECUTING"
      [] code = "GOAL_TERMINATED" -> "CANCELING"
      [] OTHER                    -> code

\* Code 0 of the server means that it has accepted to cancel the goal.
CancelStatus(code) ==
    CASE code = "NONE"     -> "CANCELED"
      [] code = "REJECTED" -> "REJECTED"
      [] code = "other"    -> "UNKNOWN"
      [] OTHER             -> "CANCEL_REQUEST_FAILED"

\* Mutated form: a listed goal is notified whether it is active or not.
ReceiveCancelReply_AnyGoal(u) ==
    \E m \in net :
        /\ m.kind = "cancel_reply" /\ m.uuid = u
        /\ reply_notes' = IF m.listed
                          THEN Notify(reply_notes, u, CancelStatus(m.body))
                          ELSE reply_notes
        /\ net' = net \ {m}
        /\ UNCHANGED <<enabler, remote, status_notes, result_replies, asides, orphaned>>

\* Only the goals that the reply lists and that are active are notified.
ReceiveCancelReply(u) ==
    \E m \in net :
        /\ m.kind = "cancel_reply" /\ m.uuid = u
        /\ reply_notes' = IF m.listed /\ IsActive(store, ActionOf[u], u)
                          THEN Notify(reply_notes, u, CancelStatus(m.body))
                          ELSE reply_notes
        /\ net' = net \ {m}
        /\ UNCHANGED <<enabler, remote, status_notes, result_replies, asides, orphaned>>

\* Every active goal in the list is notified; a final code is first
\* reported to the map, which may forget the goal.
ReceiveStatus(a) ==
    LET sample == status_topic[a]
        listed == {u \in UUIDs : sample[u] # "none" /\ IsActive(store, a, u)}
    IN  /\ sample # NoSample
        /\ store' = [u \in UUIDs |->
                        IF u \in listed /\ sample[u] \in FinalStatus
                        THEN EraseInfo(store[u], "FINAL_STATUS") ELSE store[u]]
        /\ status_notes' = [u \in UUIDs |->
                        IF u \in listed THEN status_notes[u] \cup {sample[u]}
                                        ELSE status_notes[u]]
        /\ status_topic' = [status_topic EXCEPT ![a] = NoSample]
        /\ UNCHANGED <<requests_id, call, goal_rid, cancel, net, srv,
                       reply_notes, result_replies, asides, orphaned>>

-----------------------------------------------------------------------------
(* The remote action servers, as far as their clients see them.            *)

ServerTakesGoal(u) ==
    \E m \in net, answer \in GoalAnswers :
        /\ m.kind = "goal_request" /\ m.uuid = u
        /\ srv' = [srv EXCEPT ![u] =
                     IF answer = "rejected" THEN "REJECTED" ELSE "ACCEPTED"]
        /\ net' = (net \ {m}) \cup {Reply("goal_reply", m, answer, FALSE)}
        /\ UNCHANGED <<enabler, status_topic, notes>>

\* A goal that is being cancelled may still succeed or be aborted.
ServerFinishes(u) ==
    /\ srv[u] \in {"ACCEPTED", "CANCELING"}
    /\ \E phase \in FinalPhases :
          /\ phase = "CANCELED" => srv[u] = "CANCELING"
          /\ srv' = [srv EXCEPT ![u] = phase]
    /\ UNCHANGED <<enabler, net, status_topic, notes>>

ServerTakesCancel(u) ==
    \E m \in net, code \in CancelCodes, listed \in BOOLEAN :
        /\ m.kind = "cancel_request" /\ m.uuid = u
        /\ code = "NONE" => srv[u] = "ACCEPTED" /\ listed
        /\ srv' = IF code = "NONE" THEN [srv EXCEPT ![u] = "CANCELING"] ELSE srv
        /\ net' = (net \ {m}) \cup {Reply("cancel_reply", m, code, listed)}
        /\ UNCHANGED <<enabler, status_topic, notes>>

\* The result is sent when there is one.
ServerAnswersResult(u) ==
    \E m \in net, result \in ResultAnswers :
        /\ m.kind = "result_request" /\ m.uuid = u
        /\ srv[u] \in FinalPhases
        /\ net' = (net \ {m}) \cup {Reply("result_reply", m, result, FALSE)}
        /\ UNCHANGED <<enabler, remote, notes>>

ServerPublishesFeedback(u) ==
    /\ u \in FeedbackGoals
    /\ srv[u] \in {"ACCEPTED", "CANCELING"}
    /\ net' = net \cup {Feedback(u)}
    /\ UNCHANGED <<enabler, remote, notes>>

\* A sample lists every goal that the server remembers, or only the one
\* that has changed, as update_action_status does; it replaces a sample of
\* the topic that is not delivered yet.
PublishStatus(a) ==
    \E listed \in SUBSET {u \in UUIDs : ActionOf[u] = a} :
        LET sample == [u \in UUIDs |-> IF u \in listed THEN srv[u] ELSE "none"]
        IN  /\ sample # NoSample
            /\ status_topic' = [status_topic EXCEPT ![a] = sample]
            /\ UNCHANGED <<enabler, net, srv, notes>>

-----------------------------------------------------------------------------
ApplicationStep ==
    \/ \E g \in Goals : SendGoalPublish(g) \/ SendGoalStore(g)
    \/ \E u \in UUIDs : CancelCheck(u) \/ CancelAddress(u) \/ CancelPublish(u)

DeliveryStep ==
    \/ \E u \in UUIDs : \/ ReceiveGoalReply(u) \/ ReceiveResultReply(u)
                        \/ ReceiveCancelReply(u) \/ ReceiveFeedback(u)
    \/ \E a \in Actions : ReceiveStatus(a)

RemoteStep ==
    \/ \E u \in UUIDs : \/ ServerTakesGoal(u) \/ ServerFinishes(u)
                        \/ ServerTakesCancel(u) \/ ServerAnswersResult(u)
                        \/ ServerPublishesFeedback(u)
    \/ \E a \in Actions : PublishStatus(a)

Next == ApplicationStep \/ DeliveryStep \/ RemoteStep

Spec == Init /\ [][Next]_vars

\* A server that has ended a goal answers the request for its result, and
\* the pipe thread that has the reply hands it over.  Nobody has to call, to
\* end a goal or to publish its status.
Fairness ==
    \A u \in Goals : WF_vars(ServerAnswersResult(u)) /\ WF_vars(ReceiveResultReply(u))

FairSpec == Spec /\ Fairness

-----------------------------------------------------------------------------
(* Properties.                                                             *)

TypeOK ==
    /\ store \in [UUIDs -> ActionRequestInfo \cup {NoEntry}]
    /\ requests_id \in Nat
    /\ call \in [Goals -> {"idle", "published", "stored", "failed"}]
    /\ goal_rid \in [Goals -> Nat]
    /\ cancel \in [UUIDs -> {"idle", "checked", "addressed", "sent", "refused", "failed"}]
    /\ net \subseteq Message
    /\ status_topic \in [Actions -> [UUIDs -> Phases]]
    /\ srv \in [UUIDs -> Phases]
    /\ reply_notes \in [UUIDs -> SUBSET StatusCodes]
    /\ status_notes \in [UUIDs -> SUBSET StatusCodes]
    /\ result_replies \in [UUIDs -> Nat]
    /\ unread \subseteq UUIDs
    /\ feedback_notes \subseteq UUIDs
    /\ orphaned \subseteq UUIDs

\* A reply carries no goal, only the request identifier.  The search of the
\* map by that identifier never stops at another goal, and for a result reply
\* it always finds the goal, so that the uninitialized UUID of add_data is
\* never handed to erase_action_UUID.
ReplyFindsItsGoal ==
    \A m \in net :
        /\ m.kind = "goal_reply" => UUIDsOf(store, m.id, "GOAL") \subseteq {m.uuid}
        /\ m.kind = "result_reply" => UUIDsOf(store, m.id, "RESULT") = {m.uuid}

\* A goal gets at most one result, after its acceptance, and none at all once
\* the enabler has told the application that it aborted the goal.
ResultAtMostOnce ==
    \A g \in Goals :
        /\ result_replies[g] <= 1
        /\ result_replies[g] = 1 => /\ "ACCEPTED" \in reply_notes[g]
                                    /\ "ABORTED" \notin reply_notes[g]

\* The reply of an accepted goal has been delivered and the goal is still in
\* the map: its result has been requested, or the application knows that it
\* never will be.
IsFollowedUp(g) ==
    ( /\ Known(store, g)
      /\ srv[g] \notin {"none", "REJECTED"}
      /\ ~InFlight("goal_reply", g) )
    => \/ store[g].result_request_id # 0
       \/ reply_notes[g] \cap {"ABORTED", "UNKNOWN"} # {}

\* Every accepted goal is followed up, except one whose reply overtook the
\* rest of send_action_goal.
MatchedGoalIsFollowedUp == \A g \in Goals \ orphaned : IsFollowedUp(g)

\* The same without the exception: DDSEnabler.hpp says that the result is
\* requested when the send_goal_reply is received and positive.
AcceptedGoalIsFollowedUp == \A g \in Goals : IsFollowedUp(g)

\* Handler.hpp: a goal is active until its result and a final status have
\* been received.  The entry of a goal leaves the map only in a step that
\* completes the pair.  A result that could not be converted counts as
\* received, though the application has not been told of it.
EraseNeedsBoth ==
    [][\A g \in Goals :
          Known(store, g) /\ ~Known(store', g) =>
              /\ result_replies'[g] # 0
              /\ status_notes'[g] \cap FinalStatus # {}]_vars

\* No status and no result is notified of a goal that is not in the map, and
\* one that has left the map never comes back, whatever arrives late.
\* Feedback alone is notified whatever the map says.
ReleasedGoalStaysSilent ==
    [][\A g \in Goals : ~Known(store, g) =>
          /\ reply_notes'[g] = reply_notes[g]
          /\ status_notes'[g] = status_notes[g]
          /\ result_replies'[g] = result_replies[g]
          /\ call[g] # "published" => ~Known(store', g)]_vars

\* The map implements the abstract tracking of goals.
Tracking == INSTANCE GoalTracking WITH
    active     <- {g \in Goals : Known(store, g)},
    closed     <- {g \in Goals : call[g] = "stored" /\ ~Known(store, g)},
    has_result <- {g \in Goals : result_replies[g] # 0},
    has_final  <- {g \in Goals : status_notes[g] \cap FinalStatus # {}}

ImplementsTracking == Tracking!Spec

\* Once the server has ended a goal whose result was requested, the result
\* arrives, and then the goal leaves the map unless no final status has ever
\* been notified of it: servers may not publish one, and a sample may be
\* replaced or come before the goal is stored.  The two come in either order.
RequestedGoalIsReleased ==
    \A g \in Goals :
        Known(store, g) /\ store[g].result_request_id # 0 /\ srv[g] \in FinalPhases
            ~> \/ ~Known(store, g)
               \/ store[g].result_received /\ status_notes[g] \cap FinalPhases = {}

=============================================================================

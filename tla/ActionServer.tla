---------------------------- MODULE ActionServer ----------------------------
(***************************************************************************)
(* The enabler as a server of ROS 2 actions.                               *)
(*                                                                         *)
(* Pipe threads deliver the requests of remote clients to                  *)
(* Handler::add_data, which holds Handler::mtx_ to its end: it asks the    *)
(* application whether it accepts a goal and replies at once, and answers  *)
(* a result request at once if the result is known.  Application threads   *)
(* give the results; send_action_result takes the mutex once per access to *)
(* the map and is split there.  The calls that publish feedbacks, statuses *)
(* and cancel replies only read the map and are left out.                  *)
(*                                                                         *)
(* A result and the request for it meet in the entry of the goal, in       *)
(* either order.  Whether publish_rpc succeeds is left open, as in         *)
(* ActionClient.  The remote clients are external: they ask for the result *)
(* of a goal once they know that it was accepted, more than once if they   *)
(* like, and no two goals have the same identifier.                        *)
(***************************************************************************)
EXTENDS ActionRequests

CONSTANTS ActionOf,        \* the action of each goal
          Askers,          \* who may ask for a result
          ClientRequests,  \* what the remote clients may send, once each
          GivenResults     \* what the application may give, once each

Request == [kind : {"GOAL", "CANCEL"}, uuid : UUIDs]
              \cup [kind : {"RESULT"}, uuid : UUIDs, asker : Askers]

ASSUME ServerAssumption ==
    /\ ActionOf \in [UUIDs -> Actions]
    /\ ClientRequests \subseteq Request
    /\ GivenResults \subseteq UUIDs \X Results

VARIABLES
    store,         \* Handler::action_request_id_to_uuid_
    requests_id,   \* Handler::requests_id_
    requests,      \* requests in flight
    sent,          \* requests the remote clients have sent
    answer,        \* what the application answered of each goal
    goal_reply,    \* what the client of each goal was told
    result_call,   \* where each call of send_action_result is
    asked,         \* identifiers given to the result requests of each goal
    replies,       \* result replies published
    failed,        \* goals with a result reply that could not be published
    cancels        \* goals whose cancel request was notified

vars == <<store, requests_id, requests, sent, answer, goal_reply,
          result_call, asked, replies, failed, cancels>>

Reply == [uuid : UUIDs, id : Nat, result : Results]

Init ==
    /\ store = [u \in UUIDs |-> NoEntry]
    /\ requests_id = 0
    /\ requests = {}
    /\ sent = {}
    /\ answer = [u \in UUIDs |-> "none"]
    /\ goal_reply = [u \in UUIDs |-> "none"]
    /\ result_call = [c \in GivenResults |-> "idle"]
    /\ asked = [u \in UUIDs |-> {}]
    /\ replies = {}
    /\ failed = {}
    /\ cancels = {}

-----------------------------------------------------------------------------
(* The remote clients.                                                     *)

ClientSends(m) ==
    /\ m \notin sent
    /\ m.kind # "GOAL" => goal_reply[m.uuid] = "accepted"
    /\ sent' = sent \cup {m}
    /\ requests' = requests \cup {m}
    /\ UNCHANGED <<store, requests_id, answer, goal_reply, result_call, asked,
                   replies, failed, cancels>>

-----------------------------------------------------------------------------
(* send_action_get_result_reply: the entry goes once the reply is out.     *)

\* Mutated form: the entry goes, whether the reply is out or not.
SendResultReply_EraseFirst(f, u, id, r) ==
    /\ store' = Erased(f, u, "FORCED")
    /\ \/ replies' = replies \cup {[uuid |-> u, id |-> id, result |-> r]}
          /\ UNCHANGED failed
       \/ failed' = failed \cup {u} /\ UNCHANGED replies

\* Mutated form: the entry stays.
SendResultReply_NoErase(f, u, id, r) ==
    /\ store' = f
    /\ \/ replies' = replies \cup {[uuid |-> u, id |-> id, result |-> r]}
          /\ UNCHANGED failed
       \/ failed' = failed \cup {u} /\ UNCHANGED replies

\* f is the map as the caller has left it.
SendResultReply(f, u, id, r) ==
    \/ /\ replies' = replies \cup {[uuid |-> u, id |-> id, result |-> r]}
       /\ store' = Erased(f, u, "FORCED")
       /\ UNCHANGED failed
    \/ /\ failed' = failed \cup {u}
       /\ store' = f
       /\ UNCHANGED replies

-----------------------------------------------------------------------------
(* Handler::add_data on the topics of a server.                            *)

\* The requests whose payload has a goal_id on its first level, the only
\* place uuid_from_request_json looks at: in a CancelGoal request it is in
\* goal_info, and json_to_uuid throws out of add_data.
HasGoalId == {"GOAL", "RESULT"}

\* A goal is stored before the application is asked; the answer is read
\* from an uninitialized variable if there is no callback to ask.  A goal
\* that is in the map already is dropped.  The entry of a rejected goal stays.
ReceiveGoalRequest(u) ==
    LET m == [kind |-> "GOAL", uuid |-> u] IN
    /\ m \in requests
    /\ requests' = requests \ {m}
    /\ requests_id' = requests_id + 1
    /\ IF CanStore(store, ActionOf[u], u, "GOAL")
       THEN /\ store' = Stored(store, ActionOf[u], u, requests_id + 1, "GOAL")
            /\ \E accepted \in {"accepted", "rejected"} :
                  /\ answer' = [answer EXCEPT ![u] = accepted]
                  /\ \E told \in {accepted, "failed"} :
                        goal_reply' = [goal_reply EXCEPT ![u] = told]
       ELSE UNCHANGED <<store, answer, goal_reply>>
    /\ UNCHANGED <<sent, result_call, asked, replies, failed, cancels>>

ReceiveCancelRequest(u) ==
    LET m == [kind |-> "CANCEL", uuid |-> u] IN
    /\ m \in requests
    /\ requests' = requests \ {m}
    /\ requests_id' = requests_id + 1
    /\ IF m.kind \in HasGoalId /\ CanStore(store, ActionOf[u], u, "CANCEL")
       THEN /\ store' = Stored(store, ActionOf[u], u, requests_id + 1, "CANCEL")
            /\ cancels' = cancels \cup {u}
       ELSE UNCHANGED <<store, cancels>>
    /\ UNCHANGED <<sent, answer, goal_reply, result_call, asked, replies, failed>>

\* Mutated form: the result is not looked up.
ReceiveResultRequest_NoLookup(u) ==
    \E m \in requests :
        /\ m.kind = "RESULT" /\ m.uuid = u
        /\ requests' = requests \ {m}
        /\ requests_id' = requests_id + 1
        /\ store' = IF CanStore(store, ActionOf[u], u, "RESULT")
                    THEN Stored(store, ActionOf[u], u, requests_id + 1, "RESULT")
                    ELSE store
        /\ asked' = [asked EXCEPT ![u] = @ \cup {requests_id + 1}]
        /\ UNCHANGED <<sent, answer, goal_reply, result_call, replies, failed, cancels>>

\* Mutated form: what the lookup returns is sent, an empty string or not.
ReceiveResultRequest_EmptySent(u) ==
    \E m \in requests :
        LET id == requests_id + 1
            stored == Stored(store, ActionOf[u], u, id, "RESULT")
        IN  /\ m.kind = "RESULT" /\ m.uuid = u
            /\ requests' = requests \ {m}
            /\ requests_id' = id
            /\ asked' = [asked EXCEPT ![u] = @ \cup {id}]
            /\ IF CanStore(store, ActionOf[u], u, "RESULT")
               THEN SendResultReply(stored, u, id, stored[u].result)
               ELSE UNCHANGED <<store, replies, failed>>
            /\ UNCHANGED <<sent, answer, goal_reply, result_call, cancels>>

\* A request for the result of a goal that is not in the map is dropped.
ReceiveResultRequest(u) ==
    \E m \in requests :
        LET id == requests_id + 1
            stored == Stored(store, ActionOf[u], u, id, "RESULT")
        IN  /\ m.kind = "RESULT" /\ m.uuid = u
            /\ requests' = requests \ {m}
            /\ requests_id' = id
            /\ asked' = [asked EXCEPT ![u] = @ \cup {id}]
            /\ IF CanStore(store, ActionOf[u], u, "RESULT")
               THEN IF stored[u].result = NoResult
                    THEN store' = stored /\ UNCHANGED <<replies, failed>>
                    ELSE SendResultReply(stored, u, id, stored[u].result)
               ELSE UNCHANGED <<store, replies, failed>>
            /\ UNCHANGED <<sent, answer, goal_reply, result_call, cancels>>

-----------------------------------------------------------------------------
(* The calls of the application.                                           *)

\* send_action_result, until is_UUID_active has returned.
SendResultCheck(u, r) ==
    /\ <<u, r>> \in GivenResults
    /\ answer[u] = "accepted"
    /\ result_call[<<u, r>>] = "idle"
    /\ result_call' = [result_call EXCEPT ![<<u, r>>] =
                         IF IsActive(store, ActionOf[u], u) THEN "checked" ELSE "refused"]
    /\ UNCHANGED <<store, requests_id, requests, sent, answer, goal_reply,
                   asked, replies, failed, cancels>>

Return(u, r, value) == result_call' = [result_call EXCEPT ![<<u, r>>] = value]

\* Mutated form: the result is kept, whoever waits for it.
HandleResult_AlwaysKept(u, r) ==
    /\ <<u, r>> \in GivenResults
    /\ result_call[<<u, r>>] = "checked"
    /\ IF IsActive(store, ActionOf[u], u) /\ CanSetResult(store, u)
       THEN store' = ResultSet(store, u, r) /\ Return(u, r, "kept")
       ELSE Return(u, r, "refused") /\ UNCHANGED store
    /\ UNCHANGED <<requests_id, requests, sent, answer, goal_reply,
                   asked, replies, failed, cancels>>

\* The rest of it, handle_action_result: the result answers the request the
\* entry holds, or is kept for the request to come.
HandleResult(u, r) ==
    /\ <<u, r>> \in GivenResults
    /\ result_call[<<u, r>>] = "checked"
    /\ \/ /\ ~IsActive(store, ActionOf[u], u)
          /\ Return(u, r, "refused")
          /\ UNCHANGED <<store, replies, failed>>
       \/ /\ IsActive(store, ActionOf[u], u)
          /\ store[u].result_request_id # 0
          /\ SendResultReply(store, u, store[u].result_request_id, r)
          /\ Return(u, r, IF replies' # replies THEN "sent" ELSE "refused")
       \/ /\ IsActive(store, ActionOf[u], u)
          /\ store[u].result_request_id = 0
          /\ IF CanSetResult(store, u)
             THEN store' = ResultSet(store, u, r) /\ Return(u, r, "kept")
             ELSE Return(u, r, "refused") /\ UNCHANGED store
          /\ UNCHANGED <<replies, failed>>
    /\ UNCHANGED <<requests_id, requests, sent, answer, goal_reply,
                   asked, cancels>>

-----------------------------------------------------------------------------
RemoteStep == \E m \in ClientRequests : ClientSends(m)

DeliveryStep ==
    \E u \in UUIDs : \/ ReceiveGoalRequest(u)
                     \/ ReceiveCancelRequest(u)
                     \/ ReceiveResultRequest(u)

ApplicationStep ==
    \E u \in UUIDs, r \in Results : SendResultCheck(u, r) \/ HandleResult(u, r)

Next == RemoteStep \/ DeliveryStep \/ ApplicationStep

Spec == Init /\ [][Next]_vars

\* A request that has reached the enabler is handed over and a call that has
\* been made returns; nobody has to send a request or make a call.
Fairness ==
    /\ \A u \in UUIDs : WF_vars(ReceiveGoalRequest(u)) /\ WF_vars(ReceiveResultRequest(u))
    /\ \A u \in UUIDs, r \in Results : WF_vars(HandleResult(u, r))

FairSpec == Spec /\ Fairness

-----------------------------------------------------------------------------
(* Properties.                                                             *)

TypeOK ==
    /\ store \in [UUIDs -> ActionRequestInfo \cup {NoEntry}]
    /\ requests_id \in Nat
    /\ requests \subseteq Request
    /\ sent \subseteq Request
    /\ answer \in [UUIDs -> {"none", "accepted", "rejected"}]
    /\ goal_reply \in [UUIDs -> {"none", "accepted", "rejected", "failed"}]
    /\ result_call \in [GivenResults -> {"idle", "checked", "kept", "sent", "refused"}]
    /\ asked \in [UUIDs -> SUBSET Nat]
    /\ replies \subseteq Reply
    /\ failed \subseteq UUIDs
    /\ cancels \subseteq UUIDs

\* A result and a request for it never wait for each other in an entry: the
\* one that comes second sends the reply, whichever thread brings it, unless
\* a reply of that goal could not be published.
ResultMeetsRequest ==
    \A u \in UUIDs :
        ( /\ Known(store, u)
          /\ store[u].result # NoResult
          /\ store[u].result_request_id # 0 ) => u \in failed

\* A request for a result is answered at most once, and the answer goes to a
\* client that asked for the result of that goal.
ResultRequestAnsweredOnce ==
    /\ \A p, q \in replies : p.id = q.id => p = q
    /\ \A p \in replies : p.id \in asked[p.uuid]

\* The clients get the result that send_action_result said it took, even if
\* the application gives several: the first one kept or sent, unless a reply
\* of that goal could not be published.
TakenResultIsReplied ==
    \A p \in replies : p.uuid \notin failed =>
        \A r \in Results : <<p.uuid, r>> \in GivenResults =>
            (result_call[<<p.uuid, r>>] \in {"kept", "sent"} <=> r = p.result)

\* The entry of a goal leaves the map only in the step that publishes its
\* result, so that a result that could not be sent may be sent again.
ReplyBeforeErase ==
    [][\A u \in UUIDs :
          Known(store, u) /\ ~Known(store', u) =>
              \E p \in replies' \ replies : p.uuid = u]_vars

\* A result request is answered in the end if the result has been kept
\* before it is delivered, unless a reply of that goal fails.
KeptResultIsReplied ==
    \A u \in UUIDs, r \in Results :
        ( /\ <<u, r>> \in GivenResults /\ result_call[<<u, r>>] = "kept"
          /\ \E m \in requests : m.kind = "RESULT" /\ m.uuid = u )
        ~> (u \in failed \/ \E p \in replies : p.uuid = u)

\* Handler.hpp: if the result request was previously received the reply will
\* be sent.  When the result of a goal is sent, every request received for it
\* before is answered.
EarlierRequestsAreAnswered ==
    [][\A p \in replies' \ replies :
          \A id \in asked[p.uuid] : \E q \in replies' : q.id = id]_vars

=============================================================================

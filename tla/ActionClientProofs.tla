------------------------- MODULE ActionClientProofs -------------------------
(***************************************************************************)
(* Theorems about ActionClient, for any number of goals and actions and    *)
(* any answers of the remote servers.                                      *)
(*                                                                         *)
(* The invariant says where each goal is: its goal exchange (the request   *)
(* or its reply, at most one of them in flight) comes before its result    *)
(* exchange, and the entry of the map holds the identifiers of both.       *)
(***************************************************************************)
EXTENDS ActionClient, ActionRequestsProofs

GoalKinds == {"goal_request", "goal_reply"}
ResultKinds == {"result_request", "result_reply"}

\* Identifiers in use have all been drawn from the counter.
IdsAreDrawn ==
    /\ \A g \in Goals : goal_rid[g] <= requests_id
    /\ \A u \in UUIDs : Known(store, u) => store[u].result_request_id <= requests_id

\* The send_action_goal call of a goal, its identifier and its entry.
CallInv ==
    \A g \in Goals :
        /\ call[g] = "idle" <=> goal_rid[g] = 0
        /\ call[g] \in {"idle", "published"} =>
              /\ ~Known(store, g)
              /\ result_replies[g] = 0 /\ reply_notes[g] = {} /\ status_notes[g] = {}

EntryInv ==
    \A u \in UUIDs : Known(store, u) =>
        /\ u \in Goals
        /\ call[u] = "stored"
        /\ store[u].goal_request_id = goal_rid[u]
        /\ goal_rid[u] # 0
        /\ store[u].result_received =>
              store[u].result_request_id # 0 /\ result_replies[u] # 0
        /\ store[u].final_status_received => status_notes[u] \cap FinalStatus # {}
        /\ result_replies[u] # 0 => store[u].result_received
        /\ status_notes[u] \cap FinalStatus # {} => store[u].final_status_received
        /\ ~(store[u].result_received /\ store[u].final_status_received)

IdsAreDistinct ==
    /\ \A g, h \in Goals : goal_rid[g] = goal_rid[h] /\ goal_rid[g] # 0 => g = h
    /\ \A u, v \in UUIDs :
          ( /\ Known(store, u) /\ Known(store, v)
            /\ store[u].result_request_id = store[v].result_request_id
            /\ store[u].result_request_id # 0 ) => u = v

\* The goal exchange of a goal.
GoalExchange ==
    \A m \in net : m.kind \in GoalKinds =>
        /\ m.uuid \in Goals
        /\ m.id = goal_rid[m.uuid]
        /\ m.id # 0
        /\ Known(store, m.uuid) => store[m.uuid].result_request_id = 0
        /\ result_replies[m.uuid] = 0
        /\ "ABORTED" \notin reply_notes[m.uuid]

\* The result exchange of a goal.
ResultExchange ==
    \A m \in net : m.kind \in ResultKinds =>
        /\ Known(store, m.uuid)
        /\ m.id = store[m.uuid].result_request_id
        /\ m.id # 0
        /\ result_replies[m.uuid] = 0
        /\ "ACCEPTED" \in reply_notes[m.uuid]
        /\ "ABORTED" \notin reply_notes[m.uuid]

OneAtATime ==
    \A m, n \in net : \A kinds \in {GoalKinds, ResultKinds} :
        m.uuid = n.uuid /\ m.kind \in kinds /\ n.kind \in kinds => m = n

IInv == /\ TypeOK
        /\ IdsAreDrawn
        /\ CallInv
        /\ EntryInv
        /\ IdsAreDistinct
        /\ GoalExchange
        /\ ResultExchange
        /\ OneAtATime
        /\ ResultAtMostOnce

-----------------------------------------------------------------------------
(* Messages.                                                               *)

\* A request is a message and keeps what it is built from.
LEMMA RequestLemma ==
    ASSUME NEW kind \in RequestKinds, NEW u \in UUIDs, NEW id \in Nat
    PROVE  /\ Request(kind, u, id) \in Message
           /\ Request(kind, u, id).kind = kind
           /\ Request(kind, u, id).uuid = u
           /\ Request(kind, u, id).id = id
  BY DEF Request, Message

\* So is a reply, which keeps the goal and the identifier it answers.
LEMMA ReplyLemma ==
    ASSUME NEW kind \in ReplyKinds, NEW m \in Message,
           NEW body \in GoalAnswers \cup ResultAnswers \cup CancelCodes \cup {"-"},
           NEW listed \in BOOLEAN
    PROVE  /\ Reply(kind, m, body, listed) \in Message
           /\ Reply(kind, m, body, listed).kind = kind
           /\ Reply(kind, m, body, listed).uuid = m.uuid
           /\ Reply(kind, m, body, listed).id = m.id
  BY DEF Reply, Message

\* And a sample of feedback, which is of neither exchange.
LEMMA FeedbackLemma ==
    ASSUME NEW u \in UUIDs
    PROVE  /\ Feedback(u) \in Message
           /\ Feedback(u).kind \notin GoalKinds \cup ResultKinds
  BY DEF Feedback, Message, GoalKinds, ResultKinds

\* What a cancel reply notifies, whatever its code.
LEMMA CancelStatusLemma ==
    ASSUME NEW code
    PROVE  CancelStatus(code) \in {"CANCELED", "REJECTED", "UNKNOWN", "CANCEL_REQUEST_FAILED"}
  BY DEF CancelStatus

-----------------------------------------------------------------------------
(* Type correctness.                                                       *)

\* The initial state has the right types.
LEMMA TypeInit == Init => TypeOK
  BY ClientAssumption DEF Init, TypeOK, NoSample, Phases, Message

\* The calls of the application keep the types.
LEMMA TypeApplication == TypeOK /\ ApplicationStep => TypeOK'
  <1> SUFFICES ASSUME TypeOK, ApplicationStep PROVE TypeOK'
    OBVIOUS
  <1> USE DEF MapType
  <1>1. ASSUME NEW g \in Goals, SendGoalPublish(g) PROVE TypeOK'
    <2>1. Request("goal_request", g, requests_id + 1) \in Message
      BY RequestLemma DEF Goals, RequestKinds, TypeOK
    <2> QED
      BY <1>1, <2>1 DEF SendGoalPublish, TypeOK, remote, notes, asides
  <1>2. ASSUME NEW g \in Goals, SendGoalStore(g) PROVE TypeOK'
    <2>1. /\ Stored(store, ActionOf[g], g, goal_rid[g], "GOAL") \in MapType
          /\ Erased(store, g, "FORCED") \in MapType
      BY StoredLemma, ErasedLemma, ClientAssumption DEF Goals, TypeOK, EraseReasons
    <2> QED
      BY <1>2, <2>1 DEF SendGoalStore, TypeOK, remote, notes, asides
  <1>3. ASSUME NEW u \in UUIDs, CancelCheck(u) \/ CancelAddress(u) PROVE TypeOK'
    BY <1>3 DEF CancelCheck, CancelAddress, TypeOK, remote, notes, asides
  <1>4. ASSUME NEW u \in UUIDs, CancelPublish(u) PROVE TypeOK'
    <2>1. Request("cancel_request", u, requests_id + 1) \in Message
      BY RequestLemma DEF RequestKinds, TypeOK
    <2> QED
      BY <1>4, <2>1 DEF CancelPublish, TypeOK, remote, notes, asides
  <1> QED
    BY <1>1, <1>2, <1>3, <1>4 DEF ApplicationStep

\* So do the remote servers.
LEMMA TypeRemote == TypeOK /\ RemoteStep => TypeOK'
  <1> SUFFICES ASSUME TypeOK, RemoteStep PROVE TypeOK'
    OBVIOUS
  <1>1. ASSUME NEW u \in UUIDs, ServerTakesGoal(u) PROVE TypeOK'
    <2>1. PICK m \in net, answer \in GoalAnswers :
              /\ srv' = [srv EXCEPT ![u] =
                            IF answer = "rejected" THEN "REJECTED" ELSE "ACCEPTED"]
              /\ net' = (net \ {m}) \cup {Reply("goal_reply", m, answer, FALSE)}
              /\ UNCHANGED <<enabler, status_topic, notes>>
      BY <1>1 DEF ServerTakesGoal
    <2>2. Reply("goal_reply", m, answer, FALSE) \in Message
      BY ReplyLemma DEF ReplyKinds, TypeOK
    <2> QED
      BY <2>1, <2>2 DEF TypeOK, enabler, notes, asides, Phases
  <1>2. ASSUME NEW u \in UUIDs, ServerFinishes(u) PROVE TypeOK'
    BY <1>2 DEF ServerFinishes, TypeOK, enabler, notes, asides, Phases
  <1>3. ASSUME NEW u \in UUIDs, ServerTakesCancel(u) PROVE TypeOK'
    <2>1. PICK m \in net, code \in CancelCodes, listed \in BOOLEAN :
              /\ srv' = IF code = "NONE" THEN [srv EXCEPT ![u] = "CANCELING"] ELSE srv
              /\ net' = (net \ {m}) \cup {Reply("cancel_reply", m, code, listed)}
              /\ UNCHANGED <<enabler, status_topic, notes>>
      BY <1>3 DEF ServerTakesCancel
    <2>2. Reply("cancel_reply", m, code, listed) \in Message
      BY ReplyLemma DEF ReplyKinds, TypeOK
    <2> QED
      BY <2>1, <2>2 DEF TypeOK, enabler, notes, asides, Phases
  <1>4. ASSUME NEW u \in UUIDs, ServerAnswersResult(u) PROVE TypeOK'
    <2>1. PICK m \in net, result \in ResultAnswers :
              /\ net' = (net \ {m}) \cup {Reply("result_reply", m, result, FALSE)}
              /\ UNCHANGED <<enabler, remote, notes>>
      BY <1>4 DEF ServerAnswersResult
    <2>2. Reply("result_reply", m, result, FALSE) \in Message
      BY ReplyLemma DEF ReplyKinds, TypeOK
    <2> QED
      BY <2>1, <2>2 DEF TypeOK, enabler, notes, asides, remote
  <1>5. ASSUME NEW a \in Actions, PublishStatus(a) PROVE TypeOK'
    <2>1. PICK listed \in SUBSET {u \in UUIDs : ActionOf[u] = a} :
              /\ status_topic' = [status_topic EXCEPT ![a] =
                    [u \in UUIDs |-> IF u \in listed THEN srv[u] ELSE "none"]]
              /\ UNCHANGED <<enabler, net, srv, notes>>
      BY <1>5 DEF PublishStatus
    <2> QED
      BY <2>1 DEF TypeOK, enabler, notes, asides, Phases
  <1>6. ASSUME NEW u \in UUIDs, ServerPublishesFeedback(u) PROVE TypeOK'
    BY <1>6, FeedbackLemma DEF ServerPublishesFeedback, TypeOK, enabler, remote, notes, asides
  <1> QED
    BY <1>1, <1>2, <1>3, <1>4, <1>5, <1>6 DEF RemoteStep

\* So do the deliveries.
LEMMA TypeDelivery == TypeOK /\ DeliveryStep => TypeOK'
  <1> SUFFICES ASSUME TypeOK, DeliveryStep PROVE TypeOK'
    OBVIOUS
  <1> USE DEF MapType
  <1>1. ASSUME NEW u \in UUIDs, ReceiveGoalReply(u) PROVE TypeOK'
    <2>1. PICK m \in net :
              \/ GoalReplyOrphaned(m)
              \/ \E g \in UUIDsOf(store, m.id, "GOAL") :
                    \/ GoalReplyRefused(m, g)
                    \/ GoalReplyAccepted(m, g)
                    \/ GoalReplyAborted(m, g)
      BY <1>1 DEF ReceiveGoalReply
    <2>2. m.uuid \in UUIDs
      BY DEF TypeOK, Message
    <2>3. CASE GoalReplyOrphaned(m)
      BY <2>2, <2>3 DEF GoalReplyOrphaned, TypeOK, enabler, remote, asides
    <2>4. ASSUME NEW g \in UUIDs, GoalReplyRefused(m, g) PROVE TypeOK'
      BY <2>4 DEF GoalReplyRefused, Notify, StatusCodes, Phases, TypeOK, enabler, remote, asides
    <2>5. ASSUME NEW g \in UUIDs, GoalReplyAccepted(m, g) PROVE TypeOK'
      <3>1. Request("result_request", g, requests_id + 1) \in Message
        BY RequestLemma DEF RequestKinds, TypeOK
      <3>2. Stored(store, ActionOf[m.uuid], g, requests_id + 1, "RESULT") \in MapType
        <4>1. store \in MapType /\ ActionOf[m.uuid] \in Actions /\ requests_id + 1 \in Nat
          BY ClientAssumption, <2>2 DEF TypeOK
        <4> QED
          BY <4>1, StoredLemma
      <3> QED
        BY <2>5, <3>1, <3>2
        DEF GoalReplyAccepted, Notify, StatusCodes, Phases, TypeOK, remote, asides
    <2>6. ASSUME NEW g \in UUIDs, GoalReplyAborted(m, g) PROVE TypeOK'
      <3>1. Request("cancel_request", g, requests_id + 2) \in Message
        BY RequestLemma DEF RequestKinds, TypeOK
      <3> QED
        BY <2>6, <3>1 DEF GoalReplyAborted, StatusCodes, Phases, FinalPhases, TypeOK, remote, asides
    <2> QED
      BY <2>1, <2>3, <2>4, <2>5, <2>6 DEF UUIDsOf
  <1>2. ASSUME NEW u \in UUIDs, ReceiveResultReply(u) PROVE TypeOK'
    <2>1. PICK m \in net, g \in UUIDs :
              /\ \/ result_replies' = result_replies
                 \/ result_replies' = [result_replies EXCEPT ![g] = @ + 1]
              /\ unread' \in {unread, unread \cup {g}}
              /\ store' = Erased(store, g, "RESULT")
              /\ net' = net \ {m}
              /\ UNCHANGED <<requests_id, call, goal_rid, cancel, remote,
                             reply_notes, status_notes, feedback_notes, orphaned>>
      BY <1>2 DEF ReceiveResultReply, UUIDsOf
    <2>2. Erased(store, g, "RESULT") \in MapType
      BY ErasedLemma DEF TypeOK, EraseReasons
    <2> QED
      BY <2>1, <2>2 DEF TypeOK, remote
  <1>3. ASSUME NEW u \in UUIDs, ReceiveCancelReply(u) PROVE TypeOK'
    <2>1. PICK m \in net :
              /\ reply_notes' = IF m.listed /\ IsActive(store, ActionOf[u], u)
                                THEN Notify(reply_notes, u, CancelStatus(m.body))
                                ELSE reply_notes
              /\ net' = net \ {m}
              /\ UNCHANGED <<enabler, remote, status_notes, result_replies, asides, orphaned>>
      BY <1>3 DEF ReceiveCancelReply
    <2>2. CancelStatus(m.body) \in StatusCodes
      BY CancelStatusLemma DEF StatusCodes, Phases, FinalPhases
    <2> QED
      BY <2>1, <2>2 DEF TypeOK, Notify, enabler, remote, asides
  <1>4. ASSUME NEW a \in Actions, ReceiveStatus(a) PROVE TypeOK'
    <2>1. ASSUME NEW v \in UUIDs, Known(store, v)
          PROVE  EraseInfo(store[v], "FINAL_STATUS") \in ActionRequestInfo \cup {NoEntry}
      BY <2>1, EraseFinalLemma DEF TypeOK, Known
    <2>2. store' \in MapType
      BY <1>4, <2>1 DEF ReceiveStatus, IsActive, TypeOK
    <2>3. status_notes' \in [UUIDs -> SUBSET StatusCodes]
      BY <1>4 DEF ReceiveStatus, TypeOK, StatusCodes
    <2>4. NoSample \in [UUIDs -> Phases]
      BY DEF NoSample, Phases
    <2> QED
      BY <1>4, <2>2, <2>3, <2>4 DEF ReceiveStatus, TypeOK, asides
  <1>5. ASSUME NEW u \in UUIDs, ReceiveFeedback(u) PROVE TypeOK'
    BY <1>5 DEF ReceiveFeedback, TypeOK, enabler, remote
  <1> QED
    BY <1>1, <1>2, <1>3, <1>4, <1>5 DEF DeliveryStep

\* So does every step.
LEMMA TypeStep == TypeOK /\ [Next]_vars => TypeOK'
  <1>1. TypeOK /\ UNCHANGED vars => TypeOK'
    BY DEF TypeOK, vars, asides
  <1> QED
    BY <1>1, TypeApplication, TypeRemote, TypeDelivery DEF Next

\* Every variable keeps its type, the map of the Handler in particular.
THEOREM TypeCorrect == Spec => []TypeOK
  BY TypeInit, TypeStep, PTL DEF Spec

-----------------------------------------------------------------------------
(* The invariant is inductive.                                             *)

\* The invariant holds initially.
LEMMA InvInit == Init => IInv
  <1> SUFFICES ASSUME Init PROVE IInv
    OBVIOUS
  <1>1. TypeOK
    BY TypeInit
  <1>2. /\ \A u \in UUIDs : ~Known(store, u)
        /\ \A g \in Goals : /\ goal_rid[g] = 0 /\ call[g] = "idle"
                            /\ result_replies[g] = 0 /\ reply_notes[g] = {}
                            /\ status_notes[g] = {}
    BY DEF Init, Known, Goals
  <1>3. requests_id = 0 /\ net = {}
    BY DEF Init
  <1> QED
    BY <1>1, <1>2, <1>3
    DEF IInv, IdsAreDrawn, CallInv, EntryInv, IdsAreDistinct, GoalExchange,
        ResultExchange, OneAtATime, ResultAtMostOnce, Goals

\* The search of the map finds the goal a reply is about.
LEMMA FindsLemma == IInv => ReplyFindsItsGoal
  <1> SUFFICES ASSUME IInv, NEW m \in net
               PROVE  /\ m.kind = "goal_reply" => UUIDsOf(store, m.id, "GOAL") \subseteq {m.uuid}
                      /\ m.kind = "result_reply" => UUIDsOf(store, m.id, "RESULT") = {m.uuid}
    BY DEF ReplyFindsItsGoal
  <1>1. CASE m.kind = "goal_reply"
    <2>1. m.uuid \in Goals /\ m.id = goal_rid[m.uuid] /\ m.id # 0
      BY <1>1 DEF IInv, GoalExchange, GoalKinds
    <2>2. ASSUME NEW u \in UUIDsOf(store, m.id, "GOAL") PROVE u = m.uuid
      <3>1. u \in Goals /\ goal_rid[u] = m.id
        BY <2>2 DEF UUIDsOf, GetRequest, IInv, EntryInv
      <3> QED
        BY <2>1, <3>1 DEF IInv, IdsAreDistinct
    <2> QED
      BY <1>1, <2>2
  <1>2. CASE m.kind = "result_reply"
    <2>1. Known(store, m.uuid) /\ m.id = store[m.uuid].result_request_id /\ m.id # 0
      BY <1>2 DEF IInv, ResultExchange, ResultKinds
    <2>2. m.uuid \in UUIDs
      BY DEF IInv, TypeOK, Message
    <2>3. m.uuid \in UUIDsOf(store, m.id, "RESULT")
      BY <2>1, <2>2 DEF UUIDsOf, GetRequest
    <2>4. ASSUME NEW u \in UUIDsOf(store, m.id, "RESULT") PROVE u = m.uuid
      <3>1. u \in UUIDs /\ Known(store, u) /\ store[u].result_request_id = m.id
        BY <2>4 DEF UUIDsOf, GetRequest
      <3> QED
        BY <2>1, <2>2, <3>1 DEF IInv, IdsAreDistinct
    <2> QED
      BY <1>2, <2>3, <2>4
  <1> QED
    BY <1>1, <1>2

\* A step that neither touches the map nor sends a message of a goal or
\* result exchange, and notifies nothing but codes other than the abortion
\* of goals that are in the map.
KeepsTheMap ==
    /\ UNCHANGED <<store, call, goal_rid, status_notes, result_replies>>
    /\ requests_id <= requests_id'

SendsNoExchange ==
    \A n \in net' : n.kind \in GoalKinds \cup ResultKinds => n \in net

NotifiesTheActive ==
    \A h \in UUIDs :
        /\ reply_notes[h] \subseteq reply_notes'[h]
        /\ "ABORTED" \in reply_notes'[h] => "ABORTED" \in reply_notes[h]
        /\ ~Known(store, h) => reply_notes'[h] = reply_notes[h]

\* A step that leaves the map and the exchanges of goals and results alone, and
\* notifies active goals only, keeps the invariant.
LEMMA QuietStep ==
    ASSUME IInv, TypeOK', KeepsTheMap, SendsNoExchange, NotifiesTheActive
    PROVE  IInv'
  <1> USE DEF IInv, KeepsTheMap, SendsNoExchange, NotifiesTheActive
  <1>1. IdsAreDrawn'
    <2>1. requests_id \in Nat /\ requests_id' \in Nat /\ goal_rid \in [Goals -> Nat]
      BY DEF TypeOK
    <2>2. \A u \in UUIDs : Known(store, u) => store[u].result_request_id \in Nat
      BY DEF TypeOK, Known, ActionRequestInfo
    <2> QED
      BY <2>1, <2>2 DEF IdsAreDrawn, Known
  <1>2. CallInv'
    BY DEF CallInv, Known, Goals
  <1>3. EntryInv'
    BY DEF EntryInv, Known
  <1>4. IdsAreDistinct'
    BY DEF IdsAreDistinct, Known
  <1>5. \A m \in net' : m.uuid \in UUIDs
    BY DEF TypeOK, Message
  <1>6. GoalExchange'
    BY <1>5 DEF GoalExchange, Known
  <1>7. ResultExchange'
    BY <1>5 DEF ResultExchange, Known
  <1>8. OneAtATime'
    BY DEF OneAtATime
  <1>9. ResultAtMostOnce'
    BY DEF ResultAtMostOnce, Goals
  <1> QED
    BY <1>1, <1>2, <1>3, <1>4, <1>6, <1>7, <1>8, <1>9

\* A new goal draws an identifier that nothing else has.
LEMMA InvSendGoalPublish ==
    ASSUME IInv, TypeOK', NEW g \in Goals, SendGoalPublish(g)
    PROVE  IInv'
  <1> DEFINE new == Request("goal_request", g, requests_id + 1)
  <1> USE DEF IInv
  <1>1. /\ g \in UUIDs /\ requests_id \in Nat /\ goal_rid \in [Goals -> Nat]
        /\ call \in [Goals -> {"idle", "published", "stored", "failed"}]
    BY DEF TypeOK, Goals
  <1>2. /\ requests_id' = requests_id + 1
        /\ goal_rid' = [goal_rid EXCEPT ![g] = requests_id + 1]
        /\ call'[g] \in {"published", "failed"}
        /\ \A h \in Goals : h # g => call'[h] = call[h]
        /\ net' \subseteq net \cup {new}
        /\ UNCHANGED <<store, reply_notes, status_notes, result_replies>>
    BY <1>1 DEF SendGoalPublish, notes
  <1>3. /\ goal_rid[g] = 0 /\ ~Known(store, g)
        /\ result_replies[g] = 0 /\ reply_notes[g] = {} /\ status_notes[g] = {}
    BY DEF SendGoalPublish, CallInv
  <1>4. new.kind = "goal_request" /\ new.uuid = g /\ new.id = requests_id + 1
    BY DEF Request
  <1>5. \A m \in net : m.kind \in GoalKinds => m.uuid # g
    BY <1>3 DEF GoalExchange
  <1>6. IdsAreDrawn'
    <2>1. \A u \in UUIDs : Known(store, u) => store[u].result_request_id \in Nat
      BY DEF TypeOK, Known, ActionRequestInfo
    <2> QED
      BY <1>1, <1>2, <2>1 DEF IdsAreDrawn, Known
  <1>7. CallInv'
    BY <1>1, <1>2, <1>3 DEF CallInv, Known
  <1>8. EntryInv'
    BY <1>1, <1>2, <1>3 DEF EntryInv, Known
  <1>9. IdsAreDistinct'
    BY <1>1, <1>2 DEF IdsAreDistinct, IdsAreDrawn, Known
  <1>10. GoalExchange'
    <2> SUFFICES ASSUME NEW m \in net', m.kind \in GoalKinds
                 PROVE  /\ m.uuid \in Goals
                        /\ m.id = goal_rid'[m.uuid]
                        /\ m.id # 0
                        /\ Known(store, m.uuid) => store[m.uuid].result_request_id = 0
                        /\ result_replies[m.uuid] = 0
                        /\ "ABORTED" \notin reply_notes[m.uuid]
      BY <1>2 DEF GoalExchange, Known
    <2>1. CASE m = new
      BY <1>1, <1>2, <1>3, <1>4, <2>1
    <2>2. CASE m \in net
      BY <1>1, <1>2, <1>5, <2>2 DEF GoalExchange
    <2> QED
      BY <1>2, <2>1, <2>2
  <1>11. ResultExchange'
    BY <1>2, <1>4 DEF ResultExchange, ResultKinds, Known
  <1>12. OneAtATime'
    BY <1>2, <1>4, <1>5 DEF OneAtATime, ResultKinds
  <1>13. ResultAtMostOnce'
    BY <1>2 DEF ResultAtMostOnce
  <1> QED
    BY <1>6, <1>7, <1>8, <1>9, <1>10, <1>11, <1>12, <1>13

\* Storing the goal opens its entry, unless its reply was quicker.
LEMMA InvSendGoalStore ==
    ASSUME IInv, TypeOK', NEW g \in Goals, SendGoalStore(g)
    PROVE  IInv'
  <1> USE DEF IInv
  <1>1. /\ g \in UUIDs /\ requests_id \in Nat /\ goal_rid \in [Goals -> Nat]
        /\ ActionOf[g] \in Actions /\ store \in MapType /\ goal_rid[g] \in Nat
        /\ call \in [Goals -> {"idle", "published", "stored", "failed"}]
    BY ClientAssumption DEF TypeOK, Goals, MapType
  <1>2. ~Known(store, g) /\ result_replies[g] = 0 /\ status_notes[g] = {} /\ goal_rid[g] # 0
    BY <1>1 DEF SendGoalStore, CallInv
  <1>3. store' = Stored(store, ActionOf[g], g, goal_rid[g], "GOAL")
    BY <1>2 DEF SendGoalStore, CanStore
  <1>4. /\ store'[g] = NewInfo(ActionOf[g], goal_rid[g])
        /\ Known(store', g)
        /\ \A v \in UUIDs : v # g => store'[v] = store[v]
    BY <1>1, <1>2, <1>3, StoreGoalLemma
  <1>5. /\ UNCHANGED <<requests_id, goal_rid, net, reply_notes, status_notes, result_replies>>
        /\ \A h \in Goals : h # g => call'[h] = call[h]
        /\ call'[g] = "stored"
    BY <1>1, <1>2 DEF SendGoalStore, CanStore, notes
  <1>6. /\ store'[g].goal_request_id = goal_rid[g]
        /\ store'[g].result_request_id = 0
        /\ ~store'[g].result_received
        /\ ~store'[g].final_status_received
    BY <1>4 DEF NewInfo
  <1>7. IdsAreDrawn'
    BY <1>1, <1>4, <1>5, <1>6 DEF IdsAreDrawn, Known
  <1>8. CallInv'
    BY <1>1, <1>4, <1>5, <1>2 DEF CallInv, Known, Goals
  <1>9. EntryInv'
    BY <1>1, <1>2, <1>4, <1>5, <1>6 DEF EntryInv, Known
  <1>10. IdsAreDistinct'
    BY <1>4, <1>5, <1>6 DEF IdsAreDistinct, Known
  <1>11. \A m \in net : m.uuid \in UUIDs
    BY DEF TypeOK, Message
  <1>12. GoalExchange'
    BY <1>4, <1>5, <1>6, <1>11 DEF GoalExchange, Known
  <1>13. ResultExchange'
    BY <1>2, <1>4, <1>5, <1>11 DEF ResultExchange, Known
  <1>14. OneAtATime'
    BY <1>5 DEF OneAtATime
  <1>15. ResultAtMostOnce'
    BY <1>5 DEF ResultAtMostOnce
  <1> QED
    BY <1>7, <1>8, <1>9, <1>10, <1>12, <1>13, <1>14, <1>15

\* The three steps of cancel_action_goal are quiet.
LEMMA InvCancel ==
    ASSUME IInv, TypeOK', NEW u \in UUIDs,
           CancelCheck(u) \/ CancelAddress(u) \/ CancelPublish(u)
    PROVE  IInv'
  <1>1. requests_id \in Nat
    BY DEF IInv, TypeOK
  <1>2. Request("cancel_request", u, requests_id + 1).kind = "cancel_request"
    BY DEF Request
  <1>3. SendsNoExchange
    BY <1>2 DEF CancelCheck, CancelAddress, CancelPublish, SendsNoExchange, GoalKinds, ResultKinds
  <1>4. KeepsTheMap
    BY <1>1 DEF CancelCheck, CancelAddress, CancelPublish, KeepsTheMap, notes
  <1>5. NotifiesTheActive
    BY DEF CancelCheck, CancelAddress, CancelPublish, NotifiesTheActive, notes
  <1> QED
    BY <1>3, <1>4, <1>5, QuietStep

\* A goal reply finds its goal: the facts all three answers start from.
LEMMA GoalReplyFacts ==
    ASSUME IInv, NEW m \in net, m.kind = "goal_reply",
           NEW g \in UUIDsOf(store, m.id, "GOAL")
    PROVE  /\ g = m.uuid /\ g \in Goals /\ g \in UUIDs
           /\ Known(store, g) /\ store[g] \in ActionRequestInfo
           /\ store[g].result_request_id = 0
           /\ ~store[g].result_received
           /\ result_replies[g] = 0
           /\ "ABORTED" \notin reply_notes[g]
           /\ \A n \in net : n.uuid = g => n.kind \notin ResultKinds
           /\ \A n \in net \ {m} : n.uuid = g => n.kind \notin GoalKinds
  <1> USE DEF IInv
  <1>1. g = m.uuid
    BY FindsLemma DEF ReplyFindsItsGoal
  <1>2. Known(store, g) /\ g \in UUIDs
    BY DEF UUIDsOf
  <1>3. /\ g \in Goals /\ store[g].result_request_id = 0 /\ result_replies[g] = 0
        /\ "ABORTED" \notin reply_notes[g]
    BY <1>1, <1>2 DEF GoalExchange, GoalKinds
  <1>4. store[g] \in ActionRequestInfo
    BY <1>2 DEF TypeOK, Known
  <1>5. ~store[g].result_received
    BY <1>2, <1>3 DEF EntryInv
  <1>6. \A n \in net : n.uuid = g => n.kind \notin ResultKinds
    BY <1>3 DEF ResultExchange
  <1>7. \A n \in net \ {m} : n.uuid = g => n.kind \notin GoalKinds
    BY <1>1 DEF OneAtATime, GoalKinds
  <1> QED
    BY <1>1, <1>2, <1>3, <1>4, <1>5, <1>6, <1>7

\* An acceptance only sets the identifier of the result request.
LEMMA AcceptedFacts ==
    ASSUME IInv, NEW m \in net, m.kind = "goal_reply",
           NEW g \in UUIDsOf(store, m.id, "GOAL"), GoalReplyAccepted(m, g)
    PROVE  /\ store'[g] = [store[g] EXCEPT !.result_request_id = requests_id + 1]
           /\ Known(store', g)
           /\ \A v \in UUIDs : v # g => store'[v] = store[v]
  <1>1. g = m.uuid /\ g \in UUIDs /\ Known(store, g)
    BY GoalReplyFacts
  <1>2. store \in MapType /\ ActionOf[g] \in Actions /\ requests_id + 1 \in Nat
    BY <1>1, ClientAssumption DEF IInv, TypeOK, MapType
  <1>3. store' = Stored(store, ActionOf[g], g, requests_id + 1, "RESULT")
    BY <1>1 DEF GoalReplyAccepted
  <1> QED
    BY <1>1, <1>2, <1>3, StoreResultLemma

\* The acceptance turns the goal exchange into the result exchange.
LEMMA InvGoalReplyAccepted ==
    ASSUME IInv, TypeOK', NEW m \in net, m.kind = "goal_reply",
           NEW g \in UUIDsOf(store, m.id, "GOAL"), GoalReplyAccepted(m, g)
    PROVE  IInv'
  <1> DEFINE new == Request("result_request", g, requests_id + 1)
  <1> USE DEF IInv
  <1>1. /\ g = m.uuid /\ g \in Goals /\ g \in UUIDs
        /\ Known(store, g) /\ store[g] \in ActionRequestInfo
        /\ store[g].result_request_id = 0
        /\ ~store[g].result_received
        /\ result_replies[g] = 0
        /\ "ABORTED" \notin reply_notes[g]
        /\ \A n \in net : n.uuid = g => n.kind \notin ResultKinds
        /\ \A n \in net \ {m} : n.uuid = g => n.kind \notin GoalKinds
    BY GoalReplyFacts
  <1>2. /\ requests_id \in Nat /\ requests_id + 1 \in Nat /\ goal_rid \in [Goals -> Nat]
        /\ reply_notes \in [UUIDs -> SUBSET StatusCodes]
    BY DEF TypeOK
  <1>3. /\ requests_id' = requests_id + 1
        /\ net' = (net \ {m}) \cup {new}
        /\ UNCHANGED <<call, goal_rid, status_notes, result_replies>>
    BY <1>1 DEF GoalReplyAccepted
  <1>4. /\ Known(store', g)
        /\ \A v \in UUIDs : v # g => store'[v] = store[v]
    BY AcceptedFacts
  <1>5. /\ store'[g].result_request_id = requests_id + 1
        /\ store'[g].goal_request_id = store[g].goal_request_id
        /\ ~store'[g].result_received
        /\ store'[g].final_status_received = store[g].final_status_received
    <2>1. store'[g] = [store[g] EXCEPT !.result_request_id = requests_id + 1]
      BY AcceptedFacts
    <2> QED
      BY <1>1, <2>1 DEF ActionRequestInfo
  <1>6. /\ "ACCEPTED" \in reply_notes'[g] /\ "ABORTED" \notin reply_notes'[g]
        /\ \A v \in UUIDs : v # g => reply_notes'[v] = reply_notes[v]
    BY <1>1, <1>2 DEF GoalReplyAccepted, Notify
  <1>7. new.kind = "result_request" /\ new.uuid = g /\ new.id = requests_id + 1
    BY DEF Request
  <1>8. \A n \in net : n.uuid \in UUIDs
    BY DEF TypeOK, Message
  <1>9. \A v \in UUIDs : Known(store, v) =>
            store[v].result_request_id \in Nat /\ store[v].result_request_id <= requests_id
    BY DEF TypeOK, Known, ActionRequestInfo, IdsAreDrawn
  <1>10. IdsAreDrawn'
    BY <1>2, <1>3, <1>4, <1>5, <1>9 DEF IdsAreDrawn, Known
  <1>11. CallInv'
    BY <1>1, <1>3, <1>4, <1>6 DEF CallInv, Known, Goals
  <1>12. EntryInv'
    BY <1>1, <1>3, <1>4, <1>5 DEF EntryInv, Known
  <1>13. IdsAreDistinct'
    BY <1>2, <1>3, <1>4, <1>5, <1>9 DEF IdsAreDistinct, Known
  <1>14. GoalExchange'
    <2>1. \A n \in net' : n.kind \in GoalKinds => n \in net \ {m} /\ n.uuid # g
      BY <1>1, <1>3, <1>7 DEF GoalKinds
    <2> QED
      BY <2>1, <1>3, <1>4, <1>6, <1>8 DEF GoalExchange, Known
  <1>15. ResultExchange'
    <2> SUFFICES ASSUME NEW n \in net', n.kind \in ResultKinds
                 PROVE  /\ Known(store', n.uuid)
                        /\ n.id = store'[n.uuid].result_request_id
                        /\ n.id # 0
                        /\ result_replies[n.uuid] = 0
                        /\ "ACCEPTED" \in reply_notes'[n.uuid]
                        /\ "ABORTED" \notin reply_notes'[n.uuid]
      BY <1>3 DEF ResultExchange
    <2>1. CASE n = new
      <3>1. n.uuid = g /\ n.id = requests_id + 1 /\ requests_id + 1 # 0
        BY <2>1, <1>2, <1>7
      <3> QED
        BY <3>1, <1>1, <1>4, <1>5, <1>6
    <2>2. CASE n \in net
      BY <2>2, <1>1, <1>4, <1>6, <1>8 DEF ResultExchange, Known
    <2> QED
      BY <1>3, <2>1, <2>2
  <1>16. OneAtATime'
    BY <1>1, <1>3, <1>7 DEF OneAtATime, GoalKinds, ResultKinds
  <1>17. ResultAtMostOnce'
    BY <1>1, <1>3, <1>6 DEF ResultAtMostOnce, Goals
  <1> QED
    BY <1>10, <1>11, <1>12, <1>13, <1>14, <1>15, <1>16, <1>17

\* A refused goal keeps its entry.
LEMMA InvGoalReplyRefused ==
    ASSUME IInv, TypeOK', NEW m \in net, m.kind = "goal_reply",
           NEW g \in UUIDsOf(store, m.id, "GOAL"), GoalReplyRefused(m, g)
    PROVE  IInv'
  <1>1. Known(store, g)
    BY GoalReplyFacts
  <1>2. requests_id \in Nat /\ reply_notes \in [UUIDs -> SUBSET StatusCodes]
    BY DEF IInv, TypeOK
  <1>3. KeepsTheMap
    BY <1>2 DEF GoalReplyRefused, KeepsTheMap, enabler
  <1>4. NotifiesTheActive
    BY <1>1, <1>2 DEF GoalReplyRefused, NotifiesTheActive, Notify
  <1>5. SendsNoExchange
    BY DEF GoalReplyRefused, SendsNoExchange
  <1> QED
    BY <1>3, <1>4, <1>5, QuietStep

\* A goal whose result could not be requested keeps its entry too.
LEMMA InvGoalReplyAborted ==
    ASSUME IInv, TypeOK', NEW m \in net, m.kind = "goal_reply",
           NEW g \in UUIDsOf(store, m.id, "GOAL"), GoalReplyAborted(m, g)
    PROVE  IInv'
  <1> USE DEF IInv
  <1>1. /\ g = m.uuid /\ g \in Goals /\ g \in UUIDs
        /\ Known(store, g)
        /\ result_replies[g] = 0
        /\ "ABORTED" \notin reply_notes[g]
        /\ \A n \in net : n.uuid = g => n.kind \notin ResultKinds
        /\ \A n \in net \ {m} : n.uuid = g => n.kind \notin GoalKinds
    BY GoalReplyFacts
  <1>2. requests_id \in Nat /\ reply_notes \in [UUIDs -> SUBSET StatusCodes]
    BY DEF TypeOK
  <1>3. /\ UNCHANGED <<store, call, goal_rid, status_notes, result_replies>>
        /\ requests_id' \in Nat /\ requests_id <= requests_id'
        /\ \A n \in net' : n.kind \in GoalKinds \cup ResultKinds => n \in net \ {m}
    <2>1. Request("cancel_request", g, requests_id + 2).kind = "cancel_request"
      BY DEF Request
    <2> QED
      BY <1>2, <2>1 DEF GoalReplyAborted, GoalKinds, ResultKinds
  <1>4. /\ "ACCEPTED" \in reply_notes'[g]
        /\ \A h \in UUIDs : h # g => reply_notes'[h] = reply_notes[h]
    BY <1>1, <1>2 DEF GoalReplyAborted
  <1>5. \A n \in net : n.uuid \in UUIDs
    BY DEF TypeOK, Message
  <1>6. \A n \in net' : n.kind \in GoalKinds \cup ResultKinds => n.uuid # g
    BY <1>1, <1>3
  <1>7. IdsAreDrawn'
    <2>1. \A u \in UUIDs : Known(store, u) => store[u].result_request_id \in Nat
      BY DEF TypeOK, Known, ActionRequestInfo
    <2>2. goal_rid \in [Goals -> Nat]
      BY DEF TypeOK
    <2> QED
      BY <1>2, <1>3, <2>1, <2>2 DEF IdsAreDrawn, Known
  <1>8. CallInv'
    BY <1>1, <1>3, <1>4 DEF CallInv, Known, Goals
  <1>9. EntryInv' /\ IdsAreDistinct'
    BY <1>3 DEF EntryInv, IdsAreDistinct, Known
  <1>10. GoalExchange'
    BY <1>3, <1>4, <1>5, <1>6 DEF GoalExchange, Known
  <1>11. ResultExchange'
    BY <1>3, <1>4, <1>5, <1>6 DEF ResultExchange, Known
  <1>12. OneAtATime'
    BY <1>3 DEF OneAtATime
  <1>13. ResultAtMostOnce'
    BY <1>1, <1>3, <1>4 DEF ResultAtMostOnce, Goals
  <1> QED
    BY <1>7, <1>8, <1>9, <1>10, <1>11, <1>12, <1>13

\* Every way to receive a goal reply keeps the invariant.
LEMMA InvReceiveGoalReply ==
    ASSUME IInv, TypeOK', NEW u \in UUIDs, ReceiveGoalReply(u)
    PROVE  IInv'
  <1>1. PICK m \in net :
            /\ m.kind = "goal_reply"
            /\ \/ GoalReplyOrphaned(m)
               \/ \E g \in UUIDsOf(store, m.id, "GOAL") :
                    \/ GoalReplyRefused(m, g)
                    \/ GoalReplyAccepted(m, g)
                    \/ GoalReplyAborted(m, g)
    BY DEF ReceiveGoalReply
  <1>2. CASE GoalReplyOrphaned(m)
    <2>1. requests_id \in Nat
      BY DEF IInv, TypeOK
    <2>2. KeepsTheMap
      BY <1>2, <2>1 DEF GoalReplyOrphaned, KeepsTheMap, enabler
    <2>3. NotifiesTheActive /\ SendsNoExchange
      BY <1>2 DEF GoalReplyOrphaned, NotifiesTheActive, SendsNoExchange
    <2> QED
      BY <2>2, <2>3, QuietStep
  <1> QED
    BY <1>1, <1>2, InvGoalReplyAccepted, InvGoalReplyRefused, InvGoalReplyAborted

\* The result ends the exchange of the goal.
LEMMA InvReceiveResultReply ==
    ASSUME IInv, TypeOK', NEW u \in UUIDs, ReceiveResultReply(u)
    PROVE  IInv'
  <1>1. PICK m \in net :
            LET found == UUIDsOf(store, m.id, "RESULT") IN
            /\ m.kind = "result_reply"
            /\ \E g \in IF found = {} THEN UUIDs ELSE found :
                  /\ result_replies' = IF found = {} THEN result_replies
                                     ELSE [result_replies EXCEPT ![g] = @ + 1]
                  /\ store' = Erased(store, g, "RESULT")
            /\ net' = net \ {m}
            /\ UNCHANGED <<requests_id, call, goal_rid, cancel, remote,
                           reply_notes, status_notes, orphaned>>
    BY DEF ReceiveResultReply
  <1> DEFINE g == m.uuid
  <1>2. UUIDsOf(store, m.id, "RESULT") = {g}
    BY <1>1, FindsLemma DEF ReplyFindsItsGoal
  <1>3. /\ result_replies' = [result_replies EXCEPT ![g] = @ + 1]
        /\ store' = Erased(store, g, "RESULT")
    BY <1>1, <1>2
  <1> USE DEF IInv
  <1>4. /\ g \in UUIDs /\ store \in MapType /\ result_replies \in [UUIDs -> Nat]
        /\ requests_id \in Nat /\ \A n \in net : n.uuid \in UUIDs
    BY DEF TypeOK, MapType, Message
  <1>5. /\ Known(store, g) /\ store[g].result_request_id = m.id /\ m.id # 0
        /\ result_replies[g] = 0
        /\ "ACCEPTED" \in reply_notes[g] /\ "ABORTED" \notin reply_notes[g]
    BY <1>1 DEF ResultExchange, ResultKinds
  <1>6. /\ \A n \in net : n.uuid = g => n.kind \notin GoalKinds
        /\ \A n \in net \ {m} : n.uuid = g => n.kind \notin ResultKinds
    BY <1>1, <1>5 DEF GoalExchange, OneAtATime, ResultKinds
  <1>7. store[g] \in ActionRequestInfo
    BY <1>4, <1>5 DEF MapType, Known
  <1>8. /\ store'[g] = EraseInfo(store[g], "RESULT")
        /\ \A v \in UUIDs : v # g => store'[v] = store[v]
    BY <1>3, <1>4, <1>5 DEF Erased, Known, MapType
  <1>9. Known(store', g) =>
            /\ store'[g].goal_request_id = store[g].goal_request_id
            /\ store'[g].result_request_id = store[g].result_request_id
            /\ store'[g].result_received
            /\ store'[g].final_status_received = store[g].final_status_received
            /\ ~store[g].final_status_received
    BY <1>7, <1>8, EraseResultLemma DEF Known
  <1>10. /\ result_replies'[g] = 1
         /\ \A v \in UUIDs : v # g => result_replies'[v] = result_replies[v]
    BY <1>3, <1>4, <1>5
  <1>11. /\ UNCHANGED <<requests_id, call, goal_rid, reply_notes, status_notes>>
         /\ net' = net \ {m}
    BY <1>1
  <1> HIDE DEF g
  <1>12. IdsAreDrawn'
    BY <1>4, <1>5, <1>8, <1>9, <1>11 DEF IdsAreDrawn, Known
  <1>13. CallInv'
    BY <1>5, <1>8, <1>10, <1>11 DEF CallInv, Known, Goals
  <1>14. EntryInv'
    BY <1>4, <1>5, <1>8, <1>9, <1>10, <1>11 DEF EntryInv, Known
  <1>15. IdsAreDistinct'
    BY <1>4, <1>5, <1>8, <1>9, <1>11 DEF IdsAreDistinct, Known
  <1>16. GoalExchange'
    BY <1>4, <1>6, <1>8, <1>10, <1>11 DEF GoalExchange, Known
  <1>17. ResultExchange'
    BY <1>4, <1>6, <1>8, <1>10, <1>11 DEF ResultExchange, Known
  <1>18. OneAtATime'
    BY <1>11 DEF OneAtATime
  <1>19. ResultAtMostOnce'
    BY <1>4, <1>5, <1>10, <1>11 DEF ResultAtMostOnce, Goals
  <1> QED
    BY <1>12, <1>13, <1>14, <1>15, <1>16, <1>17, <1>18, <1>19

\* A cancel reply is quiet.
LEMMA InvReceiveCancelReply ==
    ASSUME IInv, TypeOK', NEW u \in UUIDs, ReceiveCancelReply(u)
    PROVE  IInv'
  <1>1. PICK m \in net :
            /\ reply_notes' = IF m.listed /\ IsActive(store, ActionOf[u], u)
                              THEN Notify(reply_notes, u, CancelStatus(m.body))
                              ELSE reply_notes
            /\ net' = net \ {m}
            /\ UNCHANGED <<enabler, remote, status_notes, result_replies, orphaned>>
    BY DEF ReceiveCancelReply
  <1>2. requests_id \in Nat /\ reply_notes \in [UUIDs -> SUBSET StatusCodes]
    BY DEF IInv, TypeOK
  <1>3. KeepsTheMap
    BY <1>1, <1>2 DEF KeepsTheMap, enabler
  <1>4. NotifiesTheActive
    <2>1. CancelStatus(m.body) # "ABORTED"
      BY CancelStatusLemma
    <2> QED
      BY <1>1, <1>2, <2>1 DEF NotifiesTheActive, Notify, IsActive
  <1>5. SendsNoExchange
    BY <1>1 DEF SendsNoExchange
  <1> QED
    BY <1>3, <1>4, <1>5, QuietStep

\* Feedback touches no map, and nothing but itself is notified.
LEMMA InvReceiveFeedback ==
    ASSUME IInv, TypeOK', NEW u \in UUIDs, ReceiveFeedback(u)
    PROVE  IInv'
  <1>1. requests_id \in Nat
    BY DEF IInv, TypeOK
  <1>2. KeepsTheMap
    BY <1>1 DEF ReceiveFeedback, KeepsTheMap, enabler
  <1>3. NotifiesTheActive /\ SendsNoExchange
    BY DEF ReceiveFeedback, NotifiesTheActive, SendsNoExchange
  <1> QED
    BY <1>2, <1>3, QuietStep

\* A status sample sets flags and erases complete entries only.
LEMMA InvReceiveStatus ==
    ASSUME IInv, TypeOK', NEW a \in Actions, ReceiveStatus(a)
    PROVE  IInv'
  <1> USE DEF IInv
  <1>1. /\ requests_id \in Nat /\ \A n \in net : n.uuid \in UUIDs
        /\ \A u \in UUIDs : Known(store, u) => store[u] \in ActionRequestInfo
    BY DEF TypeOK, Message, Known
  <1>2. UNCHANGED <<requests_id, call, goal_rid, net, reply_notes, result_replies>>
    BY DEF ReceiveStatus
  <1> DEFINE Untouched(u) == /\ store'[u] = store[u]
                             /\ status_notes'[u] \cap FinalStatus = status_notes[u] \cap FinalStatus
                             /\ ~Known(store, u) => status_notes'[u] = status_notes[u]
             Finished(u) == /\ Known(store, u)
                            /\ store'[u] = EraseInfo(store[u], "FINAL_STATUS")
                            /\ status_notes'[u] \cap FinalStatus # {}
  <1>3. \A u \in UUIDs : Untouched(u) \/ Finished(u)
    <2> TAKE u \in UUIDs
    <2> DEFINE sample == status_topic[a]
               is_listed == sample[u] # "none" /\ IsActive(store, a, u)
    <2>1. /\ store'[u] = IF is_listed /\ sample[u] \in FinalStatus
                         THEN EraseInfo(store[u], "FINAL_STATUS") ELSE store[u]
          /\ status_notes'[u] = IF is_listed THEN status_notes[u] \cup {sample[u]}
                                             ELSE status_notes[u]
      BY DEF ReceiveStatus
    <2>2. is_listed => Known(store, u)
      BY DEF IsActive
    <2> HIDE DEF sample, is_listed
    <2>3. CASE is_listed /\ sample[u] \in FinalStatus
      BY <2>1, <2>2, <2>3
    <2>4. CASE ~(is_listed /\ sample[u] \in FinalStatus)
      BY <2>1, <2>2, <2>4
    <2> QED
      BY <2>3, <2>4
  <1>4. \A u \in UUIDs : Known(store', u) =>
            /\ Known(store, u)
            /\ store'[u].goal_request_id = store[u].goal_request_id
            /\ store'[u].result_request_id = store[u].result_request_id
            /\ store'[u].result_received = store[u].result_received
            /\ store'[u].final_status_received => status_notes'[u] \cap FinalStatus # {}
            /\ status_notes'[u] \cap FinalStatus # {} => store'[u].final_status_received
            /\ ~(store'[u].result_received /\ store'[u].final_status_received)
    <2> TAKE u \in UUIDs
    <2> HAVE Known(store', u)
    <2>1. CASE Untouched(u)
      BY <2>1 DEF Known, EntryInv
    <2>2. CASE Finished(u)
      <3>1. store[u] \in ActionRequestInfo /\ store'[u] # NoEntry
        BY <1>1, <2>2 DEF Known
      <3> QED
        BY <2>2, <3>1, EraseFinalLemma
    <2> QED
      BY <1>3, <2>1, <2>2
  <1>5. \A u \in UUIDs : Known(store, u) /\ result_replies[u] = 0 => Known(store', u)
    <2> TAKE u \in UUIDs
    <2> HAVE Known(store, u) /\ result_replies[u] = 0
    <2>1. ~store[u].result_received /\ store[u] \in ActionRequestInfo
      BY <1>1 DEF EntryInv
    <2>2. EraseInfo(store[u], "FINAL_STATUS") # NoEntry
      BY <2>1, EraseFinalLemma
    <2> QED
      BY <1>3, <2>2 DEF Known
  <1>6. IdsAreDrawn'
    BY <1>2, <1>4 DEF IdsAreDrawn
  <1>7. CallInv'
    BY <1>2, <1>3, <1>4 DEF CallInv, Goals
  <1>8. EntryInv'
    BY <1>2, <1>4 DEF EntryInv
  <1>9. IdsAreDistinct'
    BY <1>2, <1>4 DEF IdsAreDistinct
  <1>10. GoalExchange'
    BY <1>1, <1>2, <1>4 DEF GoalExchange
  <1>11. ResultExchange'
    BY <1>1, <1>2, <1>4, <1>5 DEF ResultExchange
  <1>12. OneAtATime' /\ ResultAtMostOnce'
    BY <1>2 DEF OneAtATime, ResultAtMostOnce
  <1> QED
    BY <1>6, <1>7, <1>8, <1>9, <1>10, <1>11, <1>12

\* A server that answers replaces a request by the reply of the same
\* exchange, with the same goal and identifier.
LEMMA InvServerAnswers ==
    ASSUME IInv, TypeOK', NEW m \in net, NEW r,
           r.uuid = m.uuid, r.id = m.id,
           m.kind \in GoalKinds <=> r.kind \in GoalKinds,
           m.kind \in ResultKinds <=> r.kind \in ResultKinds,
           net' = (net \ {m}) \cup {r},
           UNCHANGED <<enabler, notes>>
    PROVE  IInv'
  <1> USE DEF IInv
  <1>1. UNCHANGED <<store, requests_id, call, goal_rid, reply_notes, status_notes, result_replies>>
    BY DEF enabler, notes
  <1>2. IdsAreDrawn' /\ CallInv' /\ EntryInv' /\ IdsAreDistinct' /\ ResultAtMostOnce'
    BY <1>1 DEF IdsAreDrawn, CallInv, EntryInv, IdsAreDistinct, ResultAtMostOnce, Known
  <1>3. GoalExchange'
    BY <1>1 DEF GoalExchange, Known
  <1>4. ResultExchange'
    BY <1>1 DEF ResultExchange, Known
  <1>5. OneAtATime'
    BY DEF OneAtATime
  <1> QED
    BY <1>2, <1>3, <1>4, <1>5

\* The remote servers keep the invariant.
LEMMA InvRemote == IInv /\ TypeOK' /\ RemoteStep => IInv'
  <1> SUFFICES ASSUME IInv, TypeOK', RemoteStep PROVE IInv'
    OBVIOUS
  <1> USE DEF GoalKinds, ResultKinds
  <1>1. ASSUME NEW u \in UUIDs, ServerTakesGoal(u) PROVE IInv'
    <2>1. PICK m \in net, answer \in GoalAnswers :
              /\ m.kind = "goal_request"
              /\ net' = (net \ {m}) \cup {Reply("goal_reply", m, answer, FALSE)}
              /\ UNCHANGED <<enabler, notes>>
      BY <1>1 DEF ServerTakesGoal
    <2>2. LET r == Reply("goal_reply", m, answer, FALSE)
          IN  r.uuid = m.uuid /\ r.id = m.id /\ r.kind = "goal_reply"
      BY DEF Reply
    <2> QED
      BY <2>1, <2>2, InvServerAnswers
  <1>2. ASSUME NEW u \in UUIDs, ServerTakesCancel(u) PROVE IInv'
    <2>1. PICK m \in net, code \in CancelCodes, listed \in BOOLEAN :
              /\ m.kind = "cancel_request"
              /\ net' = (net \ {m}) \cup {Reply("cancel_reply", m, code, listed)}
              /\ UNCHANGED <<enabler, notes>>
      BY <1>2 DEF ServerTakesCancel
    <2>2. LET r == Reply("cancel_reply", m, code, listed)
          IN  r.uuid = m.uuid /\ r.id = m.id /\ r.kind = "cancel_reply"
      BY DEF Reply
    <2> QED
      BY <2>1, <2>2, InvServerAnswers
  <1>3. ASSUME NEW u \in UUIDs, ServerAnswersResult(u) PROVE IInv'
    <2>1. PICK m \in net, result \in ResultAnswers :
              /\ m.kind = "result_request"
              /\ net' = (net \ {m}) \cup {Reply("result_reply", m, result, FALSE)}
              /\ UNCHANGED <<enabler, notes>>
      BY <1>3 DEF ServerAnswersResult
    <2>2. LET r == Reply("result_reply", m, result, FALSE)
          IN  r.uuid = m.uuid /\ r.id = m.id /\ r.kind = "result_reply"
      BY DEF Reply
    <2> QED
      BY <2>1, <2>2, InvServerAnswers
  <1>4. ASSUME UNCHANGED <<enabler, net, notes>> PROVE IInv'
    <2>1. requests_id \in Nat
      BY DEF IInv, TypeOK
    <2>2. KeepsTheMap
      BY <1>4, <2>1 DEF KeepsTheMap, enabler, notes
    <2>3. NotifiesTheActive /\ SendsNoExchange
      BY <1>4 DEF NotifiesTheActive, SendsNoExchange, notes
    <2> QED
      BY <2>2, <2>3, QuietStep
  <1>5. ASSUME NEW u \in UUIDs, ServerPublishesFeedback(u) PROVE IInv'
    <2>1. net' = net \cup {Feedback(u)} /\ UNCHANGED <<enabler, notes>>
      BY <1>5 DEF ServerPublishesFeedback
    <2>2. requests_id \in Nat
      BY DEF IInv, TypeOK
    <2>3. KeepsTheMap /\ NotifiesTheActive
      BY <2>1, <2>2 DEF KeepsTheMap, NotifiesTheActive, enabler, notes
    <2>4. SendsNoExchange
      BY <2>1, FeedbackLemma DEF SendsNoExchange
    <2> QED
      BY <2>3, <2>4, QuietStep
  <1> QED
    BY <1>1, <1>2, <1>3, <1>4, <1>5 DEF RemoteStep, ServerFinishes, PublishStatus

\* Every step does.
LEMMA InvStep == IInv /\ [Next]_vars => IInv'
  <1> SUFFICES ASSUME IInv, [Next]_vars PROVE IInv'
    OBVIOUS
  <1>1. TypeOK'
    BY TypeStep DEF IInv
  <1>2. CASE ApplicationStep
    BY <1>1, <1>2, InvSendGoalPublish, InvSendGoalStore, InvCancel DEF ApplicationStep
  <1>3. CASE DeliveryStep
    BY <1>1, <1>3, InvReceiveGoalReply, InvReceiveResultReply,
       InvReceiveCancelReply, InvReceiveFeedback, InvReceiveStatus DEF DeliveryStep
  <1>4. CASE RemoteStep
    BY <1>1, <1>4, InvRemote
  <1>5. CASE UNCHANGED vars
    <2>1. requests_id \in Nat
      BY DEF IInv, TypeOK
    <2>2. KeepsTheMap
      BY <1>5, <2>1 DEF KeepsTheMap, vars
    <2>3. NotifiesTheActive /\ SendsNoExchange
      BY <1>5 DEF NotifiesTheActive, SendsNoExchange, vars
    <2> QED
      BY <1>1, <2>2, <2>3, QuietStep
  <1> QED
    BY <1>2, <1>3, <1>4, <1>5 DEF Next

\* The strengthened invariant holds in every reachable state: the exchanges
\* of a goal follow one another and its entry holds their identifiers.
THEOREM InvariantHolds == Spec => []IInv
  BY InvInit, InvStep, PTL DEF Spec

-----------------------------------------------------------------------------
(* What follows from the invariant.                                        *)

\* The search of the map by the identifier of a reply stops at the goal the
\* reply is about, and a result reply always finds it.
THEOREM RepliesFindTheirGoals == Spec => []ReplyFindsItsGoal
  BY InvariantHolds, FindsLemma, PTL

\* A goal has at most one result, and none after it was aborted.
THEOREM OneResult == Spec => []ResultAtMostOnce
  <1>1. IInv => ResultAtMostOnce
    BY DEF IInv
  <1> QED
    BY <1>1, InvariantHolds, PTL

\* What each step that can change the map does to the entry of one goal: the
\* facts that both theorems below need.
LEMMA ResultStep ==
    ASSUME IInv, NEW u \in UUIDs, ReceiveResultReply(u)
    PROVE  \E g \in Goals :
              /\ Known(store, g) /\ result_replies[g] = 0
              /\ result_replies' = [result_replies EXCEPT ![g] = 1]
              /\ Known(store', g) <=> status_notes[g] \cap FinalStatus = {}
              /\ \A h \in UUIDs : h # g => store'[h] = store[h]
              /\ UNCHANGED <<call, status_notes, reply_notes>>
  <1>1. PICK m \in net :
            LET found == UUIDsOf(store, m.id, "RESULT") IN
            /\ m.kind = "result_reply"
            /\ \E g \in IF found = {} THEN UUIDs ELSE found :
                  /\ result_replies' = IF found = {} THEN result_replies
                                     ELSE [result_replies EXCEPT ![g] = @ + 1]
                  /\ store' = Erased(store, g, "RESULT")
            /\ UNCHANGED <<call, status_notes, reply_notes>>
    BY DEF ReceiveResultReply
  <1> DEFINE g == m.uuid
  <1>2. UUIDsOf(store, m.id, "RESULT") = {g}
    BY <1>1, FindsLemma DEF ReplyFindsItsGoal
  <1>3. /\ result_replies' = [result_replies EXCEPT ![g] = @ + 1]
        /\ store' = Erased(store, g, "RESULT")
    BY <1>1, <1>2
  <1>4. g \in UUIDs /\ store \in MapType /\ result_replies \in [UUIDs -> Nat]
    BY DEF IInv, TypeOK, MapType, Message
  <1>5. Known(store, g) /\ result_replies[g] = 0
    BY <1>1 DEF ResultExchange, ResultKinds, IInv
  <1>6. g \in Goals /\ store[g] \in ActionRequestInfo
    BY <1>4, <1>5 DEF IInv, EntryInv, MapType, Known
  <1>7. /\ store'[g] = EraseInfo(store[g], "RESULT")
        /\ \A h \in UUIDs : h # g => store'[h] = store[h]
    BY <1>3, <1>4, <1>5 DEF Erased, Known, MapType
  <1>8. store[g].final_status_received <=> status_notes[g] \cap FinalStatus # {}
    BY <1>4, <1>5 DEF IInv, EntryInv
  <1>9. Known(store', g) <=> ~store[g].final_status_received
    BY <1>6, <1>7, EraseResultLemma DEF Known
  <1>10. result_replies' = [result_replies EXCEPT ![g] = 1]
    BY <1>3, <1>4, <1>5
  <1> HIDE DEF g
  <1> QED
    BY <1>1, <1>5, <1>6, <1>7, <1>8, <1>9, <1>10

\* A status sample, seen from one goal.
LEMMA StatusStep ==
    ASSUME IInv, NEW a \in Actions, ReceiveStatus(a)
    PROVE  /\ UNCHANGED <<call, result_replies, reply_notes>>
           /\ \A h \in UUIDs :
                 \/ /\ store'[h] = store[h]
                    /\ status_notes'[h] \cap FinalStatus = status_notes[h] \cap FinalStatus
                    /\ ~Known(store, h) => status_notes'[h] = status_notes[h]
                 \/ /\ Known(store, h)
                    /\ status_notes'[h] \cap FinalStatus # {}
                    /\ Known(store', h) <=> result_replies[h] = 0
  <1>1. UNCHANGED <<call, result_replies, reply_notes>>
    BY DEF ReceiveStatus
  <1> SUFFICES ASSUME NEW h \in UUIDs
               PROVE  \/ /\ store'[h] = store[h]
                         /\ status_notes'[h] \cap FinalStatus = status_notes[h] \cap FinalStatus
                         /\ ~Known(store, h) => status_notes'[h] = status_notes[h]
                      \/ /\ Known(store, h)
                         /\ status_notes'[h] \cap FinalStatus # {}
                         /\ Known(store', h) <=> result_replies[h] = 0
    BY <1>1
  <1> DEFINE sample == status_topic[a]
             is_listed == sample[h] # "none" /\ IsActive(store, a, h)
  <1>2. /\ store'[h] = IF is_listed /\ sample[h] \in FinalStatus
                       THEN EraseInfo(store[h], "FINAL_STATUS") ELSE store[h]
        /\ status_notes'[h] = IF is_listed THEN status_notes[h] \cup {sample[h]}
                                           ELSE status_notes[h]
    BY DEF ReceiveStatus
  <1>3. is_listed => Known(store, h)
    BY DEF IsActive
  <1> HIDE DEF sample, is_listed
  <1>4. CASE is_listed /\ sample[h] \in FinalStatus
    <2>1. store[h] \in ActionRequestInfo /\ (store[h].result_received <=> result_replies[h] # 0)
      BY <1>3, <1>4 DEF IInv, TypeOK, EntryInv, Known
    <2>2. Known(store', h) <=> ~store[h].result_received
      BY <1>2, <1>4, <2>1, EraseFinalLemma DEF Known
    <2>3. Known(store, h) /\ status_notes'[h] \cap FinalStatus # {}
      BY <1>2, <1>3, <1>4
    <2> QED
      BY <2>1, <2>2, <2>3
  <1>5. CASE ~(is_listed /\ sample[h] \in FinalStatus)
    BY <1>2, <1>3, <1>5
  <1> QED
    BY <1>4, <1>5

\* The other steps leave the results and the statuses alone, and of the map
\* only open the entry of a goal that has been published.
Opens(g) ==
    /\ call[g] = "published"
    /\ call' = [call EXCEPT ![g] = "stored"]
    /\ ~Known(store, g) /\ Known(store', g)
    /\ \A h \in UUIDs : h # g => store'[h] = store[h]

KeepsTheGoals ==
    /\ \A h \in UUIDs : Known(store', h) <=> Known(store, h)
    /\ \A h \in Goals : call'[h] = "stored" <=> call[h] = "stored"

Harmless ==
    /\ UNCHANGED <<status_notes, result_replies>>
    /\ KeepsTheGoals \/ \E g \in Goals : Opens(g)
    /\ \A h \in UUIDs : ~Known(store, h) => reply_notes'[h] = reply_notes[h]

\* No other step erases an entry or notifies a goal that is not in the map.
LEMMA OtherStep ==
    ASSUME IInv, [Next]_vars,
           \A u \in UUIDs : ~ReceiveResultReply(u),
           \A a \in Actions : ~ReceiveStatus(a)
    PROVE  Harmless
  <1> USE DEF Harmless
  <1>1. ASSUME NEW g \in Goals, SendGoalPublish(g) PROVE Harmless
    <2>1. call[g] = "idle" /\ call \in [Goals -> {"idle", "published", "stored", "failed"}]
      BY <1>1 DEF SendGoalPublish, IInv, TypeOK
    <2>2. \A h \in Goals : call'[h] = "stored" <=> call[h] = "stored"
      BY <1>1, <2>1 DEF SendGoalPublish
    <2> QED
      BY <1>1, <2>2 DEF SendGoalPublish, notes, KeepsTheGoals
  <1>2. ASSUME NEW g \in Goals, SendGoalStore(g) PROVE Harmless
    <2>1. g \in UUIDs /\ store \in MapType /\ goal_rid[g] \in Nat /\ ActionOf[g] \in Actions
      BY ClientAssumption DEF IInv, TypeOK, MapType, Goals
    <2>2. call[g] = "published" /\ ~Known(store, g)
      BY <1>2 DEF SendGoalStore, IInv, CallInv
    <2>3. /\ store' = Stored(store, ActionOf[g], g, goal_rid[g], "GOAL")
          /\ call' = [call EXCEPT ![g] = "stored"]
      BY <1>2, <2>2 DEF SendGoalStore, CanStore
    <2>4. Known(store', g) /\ \A h \in UUIDs : h # g => store'[h] = store[h]
      BY <2>1, <2>2, <2>3, StoreGoalLemma
    <2>5. Opens(g)
      BY <2>2, <2>3, <2>4 DEF Opens
    <2> QED
      BY <1>2, <2>5 DEF SendGoalStore, notes
  <1>3. ASSUME UNCHANGED <<store, call>>,
               UNCHANGED <<status_notes, result_replies>>,
               \A h \in UUIDs : ~Known(store, h) => reply_notes'[h] = reply_notes[h]
        PROVE  Harmless
    BY <1>3 DEF KeepsTheGoals
  <1>4. ASSUME NEW u \in UUIDs, CancelCheck(u) \/ CancelAddress(u) \/ CancelPublish(u)
        PROVE  Harmless
    BY <1>3, <1>4 DEF CancelCheck, CancelAddress, CancelPublish, notes
  <1>5. ASSUME NEW u \in UUIDs, ReceiveGoalReply(u) PROVE Harmless
    <2>1. PICK m \in net :
              /\ m.kind = "goal_reply"
              /\ \/ GoalReplyOrphaned(m)
                 \/ \E g \in UUIDsOf(store, m.id, "GOAL") :
                      \/ GoalReplyRefused(m, g)
                      \/ GoalReplyAccepted(m, g)
                      \/ GoalReplyAborted(m, g)
      BY <1>5 DEF ReceiveGoalReply
    <2>2. /\ reply_notes \in [UUIDs -> SUBSET StatusCodes] /\ store \in MapType
          /\ requests_id + 1 \in Nat /\ m.uuid \in UUIDs /\ ActionOf[m.uuid] \in Actions
      BY ClientAssumption DEF IInv, TypeOK, MapType, Message
    <2>3. CASE GoalReplyOrphaned(m)
      BY <1>3, <2>3 DEF GoalReplyOrphaned, enabler
    <2>4. ASSUME NEW g \in UUIDsOf(store, m.id, "GOAL"), GoalReplyRefused(m, g)
          PROVE  Harmless
      BY <1>3, <2>1, <2>2, <2>4, GoalReplyFacts DEF GoalReplyRefused, Notify, enabler
    <2>5. ASSUME NEW g \in UUIDsOf(store, m.id, "GOAL"), GoalReplyAborted(m, g)
          PROVE  Harmless
      BY <1>3, <2>1, <2>2, <2>5, GoalReplyFacts DEF GoalReplyAborted
    <2>6. ASSUME NEW g \in UUIDsOf(store, m.id, "GOAL"), GoalReplyAccepted(m, g)
          PROVE  Harmless
      <3>1. g \in UUIDs /\ Known(store, g) /\ g = m.uuid
        BY <2>1, GoalReplyFacts
      <3>2. Known(store', g) /\ \A v \in UUIDs : v # g => store'[v] = store[v]
        BY <2>1, <2>6, AcceptedFacts
      <3>3. KeepsTheGoals
        BY <2>6, <3>1, <3>2 DEF GoalReplyAccepted, KeepsTheGoals, Known
      <3> QED
        BY <2>2, <2>6, <3>1, <3>3 DEF GoalReplyAccepted, Notify
    <2> QED
      BY <2>1, <2>3, <2>4, <2>5, <2>6
  <1>6. ASSUME NEW u \in UUIDs, ReceiveCancelReply(u) PROVE Harmless
    <2>1. reply_notes \in [UUIDs -> SUBSET StatusCodes]
      BY DEF IInv, TypeOK
    <2>2. \A h \in UUIDs : ~Known(store, h) => reply_notes'[h] = reply_notes[h]
      BY <1>6, <2>1 DEF ReceiveCancelReply, Notify, IsActive
    <2>3. UNCHANGED <<store, call>> /\ UNCHANGED <<status_notes, result_replies>>
      BY <1>6 DEF ReceiveCancelReply, enabler
    <2> QED
      BY <1>3, <2>2, <2>3
  <1>7. CASE RemoteStep
    <2>1. UNCHANGED <<enabler, notes>>
      BY <1>7 DEF RemoteStep, ServerTakesGoal, ServerFinishes, ServerTakesCancel,
                  ServerAnswersResult, ServerPublishesFeedback, PublishStatus
    <2> QED
      BY <1>3, <2>1 DEF enabler, notes
  <1>8. CASE UNCHANGED vars
    BY <1>3, <1>8 DEF vars
  <1>9. ASSUME NEW u \in UUIDs, ReceiveFeedback(u) PROVE Harmless
    BY <1>3, <1>9 DEF ReceiveFeedback, enabler
  <1> HIDE DEF Harmless
  <1>10. CASE ApplicationStep
    BY <1>1, <1>2, <1>4, <1>10 DEF ApplicationStep
  <1>11. CASE DeliveryStep
    BY <1>5, <1>6, <1>9, <1>11 DEF DeliveryStep
  <1> QED
    BY <1>7, <1>8, <1>10, <1>11 DEF Next

\* The entry of a goal leaves the map only in the step that completes its
\* result and its final status.
THEOREM ErasuresNeedBoth == Spec => EraseNeedsBoth
  <1> DEFINE Kept == \A g \in Goals :
                        Known(store, g) /\ ~Known(store', g) =>
                            /\ result_replies'[g] # 0
                            /\ status_notes'[g] \cap FinalStatus # {}
  <1>1. IInv /\ [Next]_vars => Kept
    <2> SUFFICES ASSUME IInv, [Next]_vars, NEW g \in Goals,
                        Known(store, g), ~Known(store', g)
                 PROVE  result_replies'[g] # 0 /\ status_notes'[g] \cap FinalStatus # {}
      OBVIOUS
    <2>1. g \in UUIDs /\ result_replies \in [UUIDs -> Nat]
      BY DEF Goals, IInv, TypeOK
    <2>2. ASSUME NEW u \in UUIDs, ReceiveResultReply(u)
          PROVE  result_replies'[g] # 0 /\ status_notes'[g] \cap FinalStatus # {}
      BY <2>1, <2>2, ResultStep DEF Known
    <2>3. ASSUME NEW a \in Actions, ReceiveStatus(a)
          PROVE  result_replies'[g] # 0 /\ status_notes'[g] \cap FinalStatus # {}
      BY <2>1, <2>3, StatusStep DEF Known
    <2>4. CASE /\ \A u \in UUIDs : ~ReceiveResultReply(u)
               /\ \A a \in Actions : ~ReceiveStatus(a)
      BY <2>1, <2>4, OtherStep DEF Harmless, KeepsTheGoals, Opens, Known
    <2> QED
      BY <2>2, <2>3, <2>4
  <1> QED
    BY <1>1, InvariantHolds, PTL DEF EraseNeedsBoth, Spec

\* No status and no result is notified of a goal that is not in the map, and a
\* goal that has left it never comes back; feedback is notified without a look
\* at the map.
THEOREM ReleasedStaySilent == Spec => ReleasedGoalStaysSilent
  <1> DEFINE Silent(g) == /\ reply_notes'[g] = reply_notes[g]
                          /\ status_notes'[g] = status_notes[g]
                          /\ result_replies'[g] = result_replies[g]
                          /\ call[g] # "published" => ~Known(store', g)
  <1>1. IInv /\ [Next]_vars => \A g \in Goals : ~Known(store, g) => Silent(g)
    <2> SUFFICES ASSUME IInv, [Next]_vars, NEW g \in Goals, ~Known(store, g)
                 PROVE  Silent(g)
      OBVIOUS
    <2>1. g \in UUIDs /\ result_replies \in [UUIDs -> Nat]
      BY DEF Goals, IInv, TypeOK
    <2>2. ASSUME NEW u \in UUIDs, ReceiveResultReply(u) PROVE Silent(g)
      BY <2>1, <2>2, ResultStep DEF Known
    <2>3. ASSUME NEW a \in Actions, ReceiveStatus(a) PROVE Silent(g)
      BY <2>1, <2>3, StatusStep DEF Known
    <2>4. CASE /\ \A u \in UUIDs : ~ReceiveResultReply(u)
               /\ \A a \in Actions : ~ReceiveStatus(a)
      BY <2>1, <2>4, OtherStep DEF Harmless, KeepsTheGoals, Opens, Known
    <2> QED
      BY <2>2, <2>3, <2>4
  <1> QED
    BY <1>1, InvariantHolds, PTL DEF ReleasedGoalStaysSilent, Spec

-----------------------------------------------------------------------------
(* The map implements the abstract tracking of goals.                      *)

\* The refinement mapping, by name.
Active == {g \in Goals : Known(store, g)}
Closed == {g \in Goals : call[g] = "stored" /\ ~Known(store, g)}
HasResult == {g \in Goals : result_replies[g] # 0}
HasFinal == {g \in Goals : status_notes[g] \cap FinalStatus # {}}

\* A goal in the map is not complete, nor closed.
LEMMA ActiveIsIncomplete ==
    IInv => /\ Active \cap HasResult \cap HasFinal = {}
            /\ \A g \in Active : call[g] = "stored"
  BY DEF IInv, EntryInv, Active, HasResult, HasFinal, Goals

\* Under the mapping, a result reply is ReceiveResult.
LEMMA TrackingResult ==
    ASSUME IInv, NEW u \in UUIDs, ReceiveResultReply(u)
    PROVE  \E g \in Goals : Tracking!ReceiveResult(g)
  <1>1. PICK g \in Goals :
            /\ Known(store, g) /\ result_replies[g] = 0
            /\ result_replies' = [result_replies EXCEPT ![g] = 1]
            /\ Known(store', g) <=> status_notes[g] \cap FinalStatus = {}
            /\ \A h \in UUIDs : h # g => store'[h] = store[h]
            /\ UNCHANGED <<call, status_notes, reply_notes>>
    BY ResultStep
  <1>2. Goals \subseteq UUIDs /\ result_replies \in [UUIDs -> Nat]
    BY DEF Goals, IInv, TypeOK
  <1>3. g \in Active \ HasResult
    BY <1>1 DEF Active, HasResult
  <1>4. HasResult' = HasResult \cup {g}
    BY <1>1, <1>2 DEF HasResult
  <1>5. HasFinal' = HasFinal
    BY <1>1 DEF HasFinal
  <1>6. \A h \in Goals : Known(store', h) <=> Known(store, h) /\ ~(h = g /\ g \in HasFinal)
    BY <1>1, <1>2 DEF HasFinal, Known
  <1>7. Active' = Active \ (HasResult' \cap HasFinal)
    BY <1>3, <1>4, <1>6, ActiveIsIncomplete DEF Active
  <1>8. Closed' = Closed \cup (Active \cap HasResult' \cap HasFinal)
    BY <1>1, <1>3, <1>4, <1>6, ActiveIsIncomplete DEF Active, Closed
  <1> QED
    BY <1>3, <1>4, <1>5, <1>7, <1>8
    DEF Tracking!ReceiveResult, Tracking!CloseComplete, Active, Closed, HasResult, HasFinal

\* A status sample is ReceiveFinal, of the goals it gives a final status.
LEMMA TrackingFinal ==
    ASSUME IInv, NEW a \in Actions, ReceiveStatus(a)
    PROVE  \E S \in SUBSET Goals : Tracking!ReceiveFinal(S)
  <1> DEFINE S == {g \in Goals : Known(store, g) /\ status_notes'[g] \cap FinalStatus # {}}
  <1>1. /\ UNCHANGED <<call, result_replies>>
        /\ \A h \in Goals :
              \/ /\ store'[h] = store[h]
                 /\ status_notes'[h] \cap FinalStatus = status_notes[h] \cap FinalStatus
                 /\ ~Known(store, h) => status_notes'[h] = status_notes[h]
              \/ /\ Known(store, h)
                 /\ status_notes'[h] \cap FinalStatus # {}
                 /\ Known(store', h) <=> result_replies[h] = 0
    BY StatusStep DEF Goals
  <1>2. S \subseteq Active
    BY DEF Active
  <1>3. HasFinal' = HasFinal \cup S
    BY <1>1 DEF HasFinal
  <1>4. HasResult' = HasResult
    BY <1>1 DEF HasResult
  <1>5. \A h \in Goals : Known(store', h) <=> h \in Active \ (HasResult \cap HasFinal')
    BY <1>1, ActiveIsIncomplete DEF Known, Active, HasResult, HasFinal
  <1>6. Active' = Active \ (HasResult \cap HasFinal')
    BY <1>5 DEF Active
  <1>7. Closed' = Closed \cup (Active \cap HasResult \cap HasFinal')
    BY <1>1, <1>5, ActiveIsIncomplete DEF Active, Closed
  <1> QED
    BY <1>2, <1>3, <1>4, <1>6, <1>7
    DEF Tracking!ReceiveFinal, Tracking!CloseComplete, Active, Closed, HasResult, HasFinal

\* Any other step is Open or a stutter.
LEMMA TrackingOther ==
    ASSUME IInv, Harmless
    PROVE  Tracking!Next \/ UNCHANGED Tracking!tracking
  <1>1. HasResult' = HasResult /\ HasFinal' = HasFinal
    BY DEF Harmless, HasResult, HasFinal
  <1>2. CASE KeepsTheGoals
    <2>1. Active' = Active /\ Closed' = Closed
      BY <1>2 DEF KeepsTheGoals, Active, Closed, Goals
    <2> QED
      BY <1>1, <2>1 DEF Tracking!tracking, Active, Closed, HasResult, HasFinal
  <1>3. ASSUME NEW g \in Goals, Opens(g)
        PROVE  Tracking!Open(g)
    <2>1. g \notin Active \cup Closed
      BY <1>3 DEF Opens, Active, Closed
    <2>2. call \in [Goals -> {"idle", "published", "stored", "failed"}] /\ Goals \subseteq UUIDs
      BY DEF IInv, TypeOK, Goals
    <2>3. \A h \in Goals : Known(store', h) <=> Known(store, h) \/ h = g
      BY <1>3, <2>2 DEF Opens, Known
    <2>4. \A h \in Goals : call'[h] = IF h = g THEN "stored" ELSE call[h]
      BY <1>3, <2>2 DEF Opens
    <2>5. Active' = Active \cup {g}
      BY <2>3 DEF Active
    <2>6. Closed' = Closed
      BY <2>1, <2>3, <2>4 DEF Closed
    <2> QED
      BY <1>1, <2>1, <2>5, <2>6 DEF Tracking!Open, Active, Closed, HasResult, HasFinal
  <1> QED
    BY <1>2, <1>3 DEF Harmless, Tracking!Next

\* ActionClient implements GoalTracking: every goal the enabler sends is
\* active from its entry into the map until its result and a final status
\* have both been received, and then closed for good.
THEOREM ClientImplementsTracking == Spec => ImplementsTracking
  <1>1. Init => Tracking!Init
    BY DEF Init, Tracking!Init, Known, Goals
  <1>2. IInv /\ [Next]_vars => [Tracking!Next]_(Tracking!tracking)
    <2> SUFFICES ASSUME IInv, [Next]_vars
                 PROVE  Tracking!Next \/ UNCHANGED Tracking!tracking
      OBVIOUS
    <2>1. ASSUME NEW u \in UUIDs, ReceiveResultReply(u) PROVE Tracking!Next
      BY <2>1, TrackingResult DEF Tracking!Next
    <2>2. ASSUME NEW a \in Actions, ReceiveStatus(a) PROVE Tracking!Next
      BY <2>2, TrackingFinal DEF Tracking!Next
    <2>3. CASE /\ \A u \in UUIDs : ~ReceiveResultReply(u)
               /\ \A a \in Actions : ~ReceiveStatus(a)
      BY <2>3, OtherStep, TrackingOther
    <2> QED
      BY <2>1, <2>2, <2>3
  <1> QED
    BY <1>1, <1>2, InvariantHolds, PTL DEF Spec, ImplementsTracking, Tracking!Spec

-----------------------------------------------------------------------------
(* An accepted goal whose reply found its entry is followed up.            *)

\* The server has accepted the goal and its reply was delivered and found
\* the entry of the goal.
Matched(h) ==
    /\ srv[h] \notin {"none", "REJECTED"}
    /\ h \notin orphaned
    /\ ~InFlight("goal_reply", h)

\* What such a goal leaves behind.
FollowedUp(h) ==
    /\ call[h] \notin {"idle", "published"}
    /\ Known(store, h) => \/ store[h].result_request_id # 0
                          \/ reply_notes[h] \cap {"ABORTED", "UNKNOWN"} # {}

FollowInv == \A h \in Goals : Matched(h) => FollowedUp(h)

\* Only a goal that its server has rejected is told so.
RejectInv ==
    \A m \in net : m.kind = "goal_reply" /\ m.body = "rejected" => srv[m.uuid] = "REJECTED"

\* A step that does not match the goal and keeps what FollowedUp looks at.
Untouched(h) ==
    /\ Matched(h)' => Matched(h)
    /\ call'[h] \in {"idle", "published"} => call[h] \in {"idle", "published"}
    /\ Known(store', h) => /\ Known(store, h)
                           /\ store'[h].result_request_id = store[h].result_request_id
    /\ reply_notes[h] \subseteq reply_notes'[h]

\* Such a step keeps the invariant of the goal.
LEMMA UntouchedLemma ==
    ASSUME FollowInv, NEW h \in Goals, Untouched(h), Matched(h)'
    PROVE  FollowedUp(h)'
  <1>1. Matched(h) /\ FollowedUp(h)
    BY DEF FollowInv, Untouched
  <1>2. call'[h] \notin {"idle", "published"}
    BY <1>1 DEF Untouched, FollowedUp
  <1>3. ASSUME Known(store', h)
        PROVE  \/ store'[h].result_request_id # 0
               \/ reply_notes'[h] \cap {"ABORTED", "UNKNOWN"} # {}
    BY <1>1, <1>3 DEF Untouched, FollowedUp
  <1> QED
    BY <1>2, <1>3 DEF FollowedUp, Known

\* The calls of the application.
LEMMA FollowApplication ==
    ASSUME IInv, FollowInv, ApplicationStep, NEW h \in Goals, Matched(h)'
    PROVE  FollowedUp(h)'
  <1>1. UNCHANGED <<srv, orphaned, reply_notes>>
    BY DEF ApplicationStep, SendGoalPublish, SendGoalStore, CancelCheck, CancelAddress,
           CancelPublish, remote, notes
  <1>2. h \in UUIDs /\ call \in [Goals -> {"idle", "published", "stored", "failed"}]
    BY DEF IInv, TypeOK, Goals
  <1>3. \A m \in net : m \in net'
    BY DEF ApplicationStep, SendGoalPublish, SendGoalStore, CancelCheck, CancelAddress,
           CancelPublish
  <1>4. Matched(h)
    BY <1>1, <1>3 DEF Matched, InFlight
  <1>5. call[h] \notin {"idle", "published"}
    BY <1>4 DEF FollowInv, FollowedUp
  <1>6. ASSUME NEW g \in Goals, SendGoalPublish(g) PROVE Untouched(h)
    <2>1. g # h
      BY <1>5, <1>6 DEF SendGoalPublish
    <2>2. call'[h] = call[h] /\ store' = store
      BY <1>2, <1>6, <2>1 DEF SendGoalPublish
    <2> QED
      BY <1>1, <1>4, <2>2 DEF Untouched, Known
  <1>7. ASSUME NEW g \in Goals, SendGoalStore(g) PROVE Untouched(h)
    <2>1. g # h
      BY <1>5, <1>7 DEF SendGoalStore
    <2>2. call'[h] = call[h]
      BY <1>2, <1>7, <2>1 DEF SendGoalStore
    <2>3. store'[h] = store[h]
      BY <1>2, <1>7, <2>1 DEF SendGoalStore, Stored, Erased, IInv, TypeOK
    <2> QED
      BY <1>1, <1>4, <2>2, <2>3 DEF Untouched, Known
  <1>8. ASSUME NEW u \in UUIDs, CancelCheck(u) \/ CancelAddress(u) \/ CancelPublish(u)
        PROVE  Untouched(h)
    BY <1>1, <1>4, <1>8 DEF CancelCheck, CancelAddress, CancelPublish, Untouched, Known
  <1> QED
    BY <1>6, <1>7, <1>8, UntouchedLemma DEF ApplicationStep

\* The remote servers.
LEMMA FollowRemote ==
    ASSUME IInv, FollowInv, RemoteStep, NEW h \in Goals, Matched(h)'
    PROVE  FollowedUp(h)'
  <1>1. UNCHANGED <<store, call, reply_notes, orphaned>>
    BY DEF RemoteStep, ServerTakesGoal, ServerFinishes, ServerTakesCancel,
           ServerAnswersResult, ServerPublishesFeedback, PublishStatus, enabler, notes
  <1>2. h \in UUIDs /\ srv \in [UUIDs -> Phases]
    BY DEF IInv, TypeOK, Goals
  <1>3. ASSUME Matched(h) PROVE FollowedUp(h)'
    BY <1>1, <1>3, UntouchedLemma DEF Untouched, Known
  <1>4. ASSUME NEW u \in UUIDs, ServerTakesGoal(u) PROVE Matched(h)
    <2>1. PICK m \in net, answer \in GoalAnswers :
              /\ m.kind = "goal_request" /\ m.uuid = u
              /\ srv' = [srv EXCEPT ![u] =
                            IF answer = "rejected" THEN "REJECTED" ELSE "ACCEPTED"]
              /\ net' = (net \ {m}) \cup {Reply("goal_reply", m, answer, FALSE)}
      BY <1>4 DEF ServerTakesGoal
    <2>2. u # h
      <3>1. LET r == Reply("goal_reply", m, answer, FALSE)
            IN  r \in net' /\ r.kind = "goal_reply" /\ r.uuid = u
        BY <2>1 DEF Reply
      <3>2. InFlight("goal_reply", u)'
        BY <3>1 DEF InFlight
      <3> QED
        BY <3>2 DEF Matched
    <2>3. srv'[h] = srv[h]
      BY <1>2, <2>1, <2>2
    <2>4. InFlight("goal_reply", h) => InFlight("goal_reply", h)'
      BY <2>1 DEF InFlight
    <2> QED
      BY <1>1, <2>3, <2>4 DEF Matched
  <1>5. ASSUME NEW u \in UUIDs, ServerFinishes(u) PROVE Matched(h)
    BY <1>1, <1>2, <1>5 DEF ServerFinishes, Matched, InFlight
  <1>6. ASSUME NEW u \in UUIDs, ServerTakesCancel(u) PROVE Matched(h)
    <2>1. PICK m \in net, code \in CancelCodes, listed \in BOOLEAN :
              /\ m.kind = "cancel_request"
              /\ code = "NONE" => srv[u] = "ACCEPTED"
              /\ srv' = IF code = "NONE" THEN [srv EXCEPT ![u] = "CANCELING"] ELSE srv
              /\ net' = (net \ {m}) \cup {Reply("cancel_reply", m, code, listed)}
      BY <1>6 DEF ServerTakesCancel
    <2>2. InFlight("goal_reply", h) => InFlight("goal_reply", h)'
      BY <2>1 DEF InFlight
    <2>3. srv'[h] \notin {"none", "REJECTED"} => srv[h] \notin {"none", "REJECTED"}
      BY <1>2, <2>1
    <2> QED
      BY <1>1, <2>2, <2>3 DEF Matched
  <1>7. ASSUME NEW u \in UUIDs, ServerAnswersResult(u) PROVE Matched(h)
    <2>1. PICK m \in net, result \in ResultAnswers :
              /\ m.kind = "result_request"
              /\ net' = (net \ {m}) \cup {Reply("result_reply", m, result, FALSE)}
              /\ UNCHANGED remote
      BY <1>7 DEF ServerAnswersResult
    <2>2. InFlight("goal_reply", h) => InFlight("goal_reply", h)'
      BY <2>1 DEF InFlight
    <2> QED
      BY <1>1, <2>1, <2>2 DEF Matched, remote
  <1>8. ASSUME NEW a \in Actions, PublishStatus(a) PROVE Matched(h)
    BY <1>1, <1>8 DEF PublishStatus, Matched, InFlight
  <1>9. ASSUME NEW u \in UUIDs, ServerPublishesFeedback(u) PROVE Matched(h)
    BY <1>1, <1>9 DEF ServerPublishesFeedback, Matched, InFlight, remote
  <1> QED
    BY <1>3, <1>4, <1>5, <1>6, <1>7, <1>8, <1>9 DEF RemoteStep

\* The delivery of a goal reply.
LEMMA FollowGoalReply ==
    ASSUME IInv, FollowInv, RejectInv, NEW u \in UUIDs, ReceiveGoalReply(u),
           NEW h \in Goals, Matched(h)'
    PROVE  FollowedUp(h)'
  <1>1. PICK m \in net :
            /\ m.kind = "goal_reply"
            /\ \/ GoalReplyOrphaned(m)
               \/ \E g \in UUIDsOf(store, m.id, "GOAL") :
                    \/ GoalReplyRefused(m, g)
                    \/ GoalReplyAccepted(m, g)
                    \/ GoalReplyAborted(m, g)
    BY DEF ReceiveGoalReply
  <1>2. /\ h \in UUIDs /\ m.uuid \in UUIDs
        /\ reply_notes \in [UUIDs -> SUBSET StatusCodes]
        /\ requests_id \in Nat
        /\ m.body \in GoalAnswers \cup ResultAnswers \cup CancelCodes \cup {"-"}
    BY DEF IInv, TypeOK, Goals, Message
  <1>3. call' = call /\ srv' = srv
    BY <1>1 DEF GoalReplyOrphaned, GoalReplyRefused, GoalReplyAccepted, GoalReplyAborted,
                enabler, remote
  <1>4. orphaned \subseteq orphaned' /\ \A n \in net : n = m \/ n \in net'
    BY <1>1 DEF GoalReplyOrphaned, GoalReplyRefused, GoalReplyAccepted, GoalReplyAborted
  <1>5. h # m.uuid => Matched(h)
    BY <1>3, <1>4 DEF Matched, InFlight
  <1>6. srv[h] \notin {"none", "REJECTED"}
    BY <1>3 DEF Matched
  <1>7. CASE GoalReplyOrphaned(m)
    <2>1. h # m.uuid
      BY <1>7 DEF GoalReplyOrphaned, Matched
    <2>2. Untouched(h)
      BY <1>3, <1>5, <1>7, <2>1 DEF GoalReplyOrphaned, enabler, Untouched, Known
    <2> QED
      BY <2>2, UntouchedLemma
  <1>8. ASSUME NEW g \in UUIDsOf(store, m.id, "GOAL"), GoalReplyRefused(m, g)
        PROVE  FollowedUp(h)'
    <2>1. g = m.uuid /\ g \in UUIDs /\ Known(store, g)
      BY <1>1, GoalReplyFacts
    <2>2. CASE h = g
      <3>1. m.body # "rejected"
        BY <1>1, <1>6, <2>1, <2>2 DEF RejectInv
      <3>2. reply_notes'[h] = reply_notes[h] \cup {"UNKNOWN"}
        BY <1>2, <1>8, <2>2, <3>1 DEF GoalReplyRefused, Notify
      <3>3. call[h] = "stored"
        BY <2>1, <2>2 DEF IInv, EntryInv
      <3> QED
        BY <1>3, <3>2, <3>3 DEF FollowedUp
    <2>3. CASE h # g
      <3>1. reply_notes'[h] = reply_notes[h] /\ store' = store
        BY <1>2, <1>8, <2>3 DEF GoalReplyRefused, Notify, enabler
      <3>2. Untouched(h)
        BY <1>3, <1>5, <2>1, <2>3, <3>1 DEF Untouched, Known
      <3> QED
        BY <3>2, UntouchedLemma
    <2> QED
      BY <2>2, <2>3
  <1>9. ASSUME NEW g \in UUIDsOf(store, m.id, "GOAL"), GoalReplyAborted(m, g)
        PROVE  FollowedUp(h)'
    <2>1. g = m.uuid /\ g \in UUIDs /\ Known(store, g)
      BY <1>1, GoalReplyFacts
    <2>2. CASE h = g
      <3>1. "ABORTED" \in reply_notes'[h]
        BY <1>2, <1>9, <2>2 DEF GoalReplyAborted
      <3>2. call[h] = "stored"
        BY <2>1, <2>2 DEF IInv, EntryInv
      <3> QED
        BY <1>3, <3>1, <3>2 DEF FollowedUp
    <2>3. CASE h # g
      <3>1. reply_notes'[h] = reply_notes[h] /\ store' = store
        BY <1>2, <1>9, <2>3 DEF GoalReplyAborted
      <3>2. Untouched(h)
        BY <1>3, <1>5, <2>1, <2>3, <3>1 DEF Untouched, Known
      <3> QED
        BY <3>2, UntouchedLemma
    <2> QED
      BY <2>2, <2>3
  <1>10. ASSUME NEW g \in UUIDsOf(store, m.id, "GOAL"), GoalReplyAccepted(m, g)
         PROVE  FollowedUp(h)'
    <2>1. g = m.uuid /\ g \in UUIDs /\ Known(store, g)
      BY <1>1, GoalReplyFacts
    <2>2. /\ store \in MapType /\ ActionOf[m.uuid] \in Actions /\ requests_id + 1 \in Nat
      BY <1>2, ClientAssumption DEF IInv, TypeOK, MapType
    <2>3. store' = Stored(store, ActionOf[m.uuid], g, requests_id + 1, "RESULT")
      BY <1>10 DEF GoalReplyAccepted
    <2>4. /\ store'[g].result_request_id = requests_id + 1
          /\ \A v \in UUIDs : v # g => store'[v] = store[v]
      BY <2>1, <2>2, <2>3, StoreResultFields
    <2>5. CASE h = g
      <3>1. call[h] = "stored"
        BY <2>1, <2>5 DEF IInv, EntryInv
      <3>2. store'[h].result_request_id # 0
        BY <1>2, <2>4, <2>5
      <3> QED
        BY <1>3, <3>1, <3>2 DEF FollowedUp
    <2>6. CASE h # g
      <3>1. reply_notes'[h] = reply_notes[h] /\ store'[h] = store[h]
        BY <1>2, <1>10, <2>4, <2>6 DEF GoalReplyAccepted, Notify
      <3>2. Untouched(h)
        BY <1>3, <1>5, <2>1, <2>6, <3>1 DEF Untouched, Known
      <3> QED
        BY <3>2, UntouchedLemma
    <2> QED
      BY <2>5, <2>6
  <1> QED
    BY <1>1, <1>7, <1>8, <1>9, <1>10

\* The other deliveries only add codes and take entries away.
LEMMA FollowDelivery ==
    ASSUME IInv, FollowInv, RejectInv, DeliveryStep, NEW h \in Goals, Matched(h)'
    PROVE  FollowedUp(h)'
  <1>0. h \in UUIDs
    BY DEF Goals
  <1>1. ASSUME NEW u \in UUIDs, ReceiveResultReply(u) PROVE Untouched(h)
    <2>1. PICK m \in net, g \in UUIDs :
              /\ m.kind = "result_reply"
              /\ store' = Erased(store, g, "RESULT")
              /\ net' = net \ {m}
              /\ UNCHANGED <<requests_id, call, goal_rid, cancel, remote,
                             reply_notes, status_notes, orphaned>>
      BY <1>1 DEF ReceiveResultReply, UUIDsOf
    <2>2. Matched(h)
      BY <2>1 DEF Matched, InFlight, remote
    <2>3. \/ store'[h] = store[h]
          \/ Known(store, h) /\ store'[h] = EraseInfo(store[h], "RESULT")
      BY <1>0, <2>1 DEF Erased, IInv, TypeOK, Known
    <2>4. Known(store, h) => store[h] \in ActionRequestInfo
      BY <1>0 DEF IInv, TypeOK, Known
    <2>5. Known(store', h) => /\ Known(store, h)
                              /\ store'[h].result_request_id = store[h].result_request_id
      BY <2>3, <2>4, EraseResultLemma DEF Known
    <2> QED
      BY <2>1, <2>2, <2>5 DEF Untouched
  <1>2. ASSUME NEW u \in UUIDs, ReceiveCancelReply(u) PROVE Untouched(h)
    <2>1. PICK m \in net :
              /\ m.kind = "cancel_reply"
              /\ reply_notes' = IF m.listed /\ IsActive(store, ActionOf[u], u)
                                THEN Notify(reply_notes, u, CancelStatus(m.body))
                                ELSE reply_notes
              /\ net' = net \ {m}
              /\ UNCHANGED <<enabler, remote, status_notes, result_replies, orphaned>>
      BY <1>2 DEF ReceiveCancelReply
    <2>2. Matched(h)
      BY <2>1 DEF Matched, InFlight, remote
    <2>3. reply_notes[h] \subseteq reply_notes'[h]
      BY <1>0, <2>1 DEF Notify, IInv, TypeOK
    <2> QED
      BY <2>1, <2>2, <2>3 DEF Untouched, Known, enabler
  <1>3. ASSUME NEW a \in Actions, ReceiveStatus(a) PROVE Untouched(h)
    <2>1. /\ UNCHANGED <<call, net, srv, reply_notes, orphaned>>
          /\ \/ store'[h] = store[h]
             \/ Known(store, h) /\ store'[h] = EraseInfo(store[h], "FINAL_STATUS")
      BY <1>0, <1>3 DEF ReceiveStatus, IsActive
    <2>2. Matched(h)
      BY <2>1 DEF Matched, InFlight
    <2>3. Known(store, h) => store[h] \in ActionRequestInfo
      BY <1>0 DEF IInv, TypeOK, Known
    <2>4. Known(store', h) => /\ Known(store, h)
                              /\ store'[h].result_request_id = store[h].result_request_id
      BY <2>1, <2>3, EraseFinalLemma DEF Known
    <2> QED
      BY <2>1, <2>2, <2>4 DEF Untouched
  <1>4. ASSUME NEW u \in UUIDs, ReceiveFeedback(u) PROVE Untouched(h)
    <2>1. Matched(h)
      BY <1>4 DEF ReceiveFeedback, Matched, InFlight, Feedback, remote
    <2> QED
      BY <1>4, <2>1 DEF ReceiveFeedback, Untouched, Known, enabler
  <1> QED
    BY <1>1, <1>2, <1>3, <1>4, FollowGoalReply, UntouchedLemma DEF DeliveryStep

\* Only the server of a goal sends a rejection, and it never changes its mind.
LEMMA RejectStep == IInv /\ RejectInv /\ [Next]_vars => RejectInv'
  <1> SUFFICES ASSUME IInv, RejectInv, [Next]_vars, NEW m \in net',
                      m.kind = "goal_reply", m.body = "rejected"
               PROVE  srv'[m.uuid] = "REJECTED"
    BY DEF RejectInv
  <1>1. srv \in [UUIDs -> Phases] /\ net \subseteq Message
    BY DEF IInv, TypeOK
  <1>2. m \in net => m.uuid \in UUIDs /\ srv[m.uuid] = "REJECTED"
    BY <1>1 DEF RejectInv, Message
  <1>3. ASSUME NEW u \in UUIDs, ServerTakesGoal(u) PROVE srv'[m.uuid] = "REJECTED"
    <2>1. PICK n \in net, answer \in GoalAnswers :
              /\ n.kind = "goal_request" /\ n.uuid = u
              /\ srv' = [srv EXCEPT ![u] =
                            IF answer = "rejected" THEN "REJECTED" ELSE "ACCEPTED"]
              /\ net' = (net \ {n}) \cup {Reply("goal_reply", n, answer, FALSE)}
      BY <1>3 DEF ServerTakesGoal
    <2>2. CASE m = Reply("goal_reply", n, answer, FALSE)
      <3>1. m.uuid = u /\ answer = "rejected"
        BY <2>1, <2>2 DEF Reply
      <3> QED
        BY <1>1, <2>1, <3>1
    <2>3. CASE m \in net
      <3>1. m.uuid # u
        BY <2>1, <2>3 DEF IInv, OneAtATime, GoalKinds
      <3> QED
        BY <1>1, <1>2, <2>1, <2>3, <3>1
    <2> QED
      BY <2>1, <2>2, <2>3
  <1>4. ASSUME NEW u \in UUIDs, ServerFinishes(u) PROVE srv'[m.uuid] = "REJECTED"
    BY <1>1, <1>2, <1>4 DEF ServerFinishes
  <1>5. ASSUME NEW u \in UUIDs, ServerTakesCancel(u) PROVE srv'[m.uuid] = "REJECTED"
    <2>1. PICK n \in net, code \in CancelCodes, listed \in BOOLEAN :
              /\ code = "NONE" => srv[u] = "ACCEPTED"
              /\ srv' = IF code = "NONE" THEN [srv EXCEPT ![u] = "CANCELING"] ELSE srv
              /\ net' = (net \ {n}) \cup {Reply("cancel_reply", n, code, listed)}
      BY <1>5 DEF ServerTakesCancel
    <2>2. m \in net
      BY <2>1 DEF Reply
    <2> QED
      BY <1>1, <1>2, <2>1, <2>2
  <1>6. ASSUME NEW u \in UUIDs, ServerAnswersResult(u) PROVE srv'[m.uuid] = "REJECTED"
    <2>1. m \in net /\ srv' = srv
      BY <1>6 DEF ServerAnswersResult, Reply, remote
    <2> QED
      BY <1>2, <2>1
  <1>7. CASE \E a \in Actions : PublishStatus(a)
    BY <1>2, <1>7 DEF PublishStatus
  <1>8. ASSUME NEW u \in UUIDs, ServerPublishesFeedback(u) PROVE srv'[m.uuid] = "REJECTED"
    BY <1>2, <1>8 DEF ServerPublishesFeedback, Feedback, remote
  <1>9. CASE ApplicationStep
    <2>1. m \in net /\ srv' = srv
      BY <1>9 DEF ApplicationStep, SendGoalPublish, SendGoalStore, CancelCheck,
                  CancelAddress, CancelPublish, Request, remote
    <2> QED
      BY <1>2, <2>1
  <1>10. CASE DeliveryStep
    <2>1. ASSUME NEW u \in UUIDs, ReceiveGoalReply(u) PROVE m \in net /\ srv' = srv
      BY <2>1 DEF ReceiveGoalReply, GoalReplyOrphaned, GoalReplyRefused,
                  GoalReplyAccepted, GoalReplyAborted, Request, remote
    <2>2. ASSUME NEW u \in UUIDs, ReceiveResultReply(u) PROVE m \in net /\ srv' = srv
      BY <2>2 DEF ReceiveResultReply, remote
    <2>3. ASSUME NEW u \in UUIDs, ReceiveCancelReply(u) PROVE m \in net /\ srv' = srv
      BY <2>3 DEF ReceiveCancelReply, remote
    <2>4. ASSUME NEW a \in Actions, ReceiveStatus(a) PROVE m \in net /\ srv' = srv
      BY <2>4 DEF ReceiveStatus
    <2>5. ASSUME NEW u \in UUIDs, ReceiveFeedback(u) PROVE m \in net /\ srv' = srv
      BY <2>5 DEF ReceiveFeedback, remote
    <2> QED
      BY <1>2, <1>10, <2>1, <2>2, <2>3, <2>4, <2>5 DEF DeliveryStep
  <1>11. CASE UNCHANGED vars
    BY <1>2, <1>11 DEF vars
  <1> QED
    BY <1>3, <1>4, <1>5, <1>6, <1>7, <1>8, <1>9, <1>10, <1>11 DEF Next, RemoteStep

\* Every step keeps both.
LEMMA FollowStep == IInv /\ FollowInv /\ RejectInv /\ [Next]_vars => FollowInv'
  <1> SUFFICES ASSUME IInv, FollowInv, RejectInv, [Next]_vars, NEW h \in Goals, Matched(h)'
               PROVE  FollowedUp(h)'
    BY DEF FollowInv
  <1>1. CASE UNCHANGED vars
    BY <1>1, UntouchedLemma DEF vars, Untouched, Matched, InFlight, Known
  <1> QED
    BY <1>1, FollowApplication, FollowRemote, FollowDelivery DEF Next

\* An accepted goal whose reply found its entry has had its result requested,
\* or the application has been told that it will not be.
THEOREM MatchedGoalsFollowedUp == Spec => []MatchedGoalIsFollowedUp
  <1>1. Init => FollowInv /\ RejectInv
    BY DEF Init, FollowInv, RejectInv, Matched, Goals
  <1>2. FollowInv => MatchedGoalIsFollowedUp
    BY DEF FollowInv, Matched, FollowedUp, MatchedGoalIsFollowedUp, IsFollowedUp
  <1> QED
    BY <1>1, <1>2, RejectStep, FollowStep, InvariantHolds, PTL DEF Spec

-----------------------------------------------------------------------------
(* A result that is awaited is on its way.                                 *)

\* The entry of the goal says that its result is still to come.
Awaits(h) == /\ Known(store, h)
             /\ store[h].result_request_id # 0
             /\ ~store[h].result_received

\* The messages of its result exchange.
ExchangeOf(h) == {n \in net : n.kind \in ResultKinds /\ n.uuid = h}

AwaitedResultIsPending ==
    \A h \in Goals : IF Awaits(h) THEN \E n \in net : ExchangeOf(h) = {n}
                                  ELSE ExchangeOf(h) = {}

PendingInv == \A h \in Goals : Awaits(h) => ExchangeOf(h) # {}

\* A goal that does not begin to wait and loses no message of its exchange.
LEMMA PendingFrame ==
    ASSUME PendingInv, NEW h \in Goals, Awaits(h)' => Awaits(h),
           \A n \in net : n.kind \in ResultKinds /\ n.uuid = h => n \in net'
    PROVE  Awaits(h)' => ExchangeOf(h)' # {}
  BY DEF PendingInv, ExchangeOf

\* The calls of the application only add to what is in flight, and a new
\* entry awaits nothing.
LEMMA PendingApplication ==
    ASSUME IInv, PendingInv, ApplicationStep
    PROVE  PendingInv'
  <1>1. ASSUME store' = store, net \subseteq net' PROVE PendingInv'
    BY <1>1, PendingFrame DEF PendingInv, Awaits, Known
  <1>2. ASSUME NEW g \in Goals, SendGoalStore(g) PROVE PendingInv'
    <2>1. g \in UUIDs /\ store \in MapType /\ goal_rid[g] \in Nat /\ ActionOf[g] \in Actions
      BY ClientAssumption DEF IInv, TypeOK, MapType, Goals
    <2>2. ~Known(store, g) /\ net' = net
      BY <1>2 DEF SendGoalStore, IInv, CallInv
    <2>3. store' = Stored(store, ActionOf[g], g, goal_rid[g], "GOAL")
      BY <1>2, <2>2 DEF SendGoalStore, CanStore
    <2>4. store'[g] = NewInfo(ActionOf[g], goal_rid[g])
          /\ \A h \in UUIDs : h # g => store'[h] = store[h]
      BY <2>1, <2>2, <2>3, StoreGoalLemma
    <2>5. \A h \in Goals : Awaits(h)' => Awaits(h)
      BY <2>4 DEF Awaits, Known, Goals, NewInfo
    <2> QED
      BY <2>2, <2>5, PendingFrame DEF PendingInv
  <1>3. ASSUME NEW g \in Goals, SendGoalPublish(g) PROVE PendingInv'
    BY <1>1, <1>3 DEF SendGoalPublish
  <1>4. ASSUME NEW u \in UUIDs, CancelCheck(u) \/ CancelAddress(u) \/ CancelPublish(u)
        PROVE  PendingInv'
    BY <1>1, <1>4 DEF CancelCheck, CancelAddress, CancelPublish
  <1> QED
    BY <1>2, <1>3, <1>4 DEF ApplicationStep

\* A server that answers replaces the request by its reply.
LEMMA PendingRemote ==
    ASSUME IInv, PendingInv, RemoteStep
    PROVE  PendingInv'
  <1> USE DEF ResultKinds
  <1>1. store' = store /\ \A h \in Goals : Awaits(h)' <=> Awaits(h)
    BY DEF RemoteStep, ServerTakesGoal, ServerFinishes, ServerTakesCancel,
           ServerAnswersResult, ServerPublishesFeedback, PublishStatus, enabler,
           Awaits, Known
  <1>2. ASSUME NEW m \in net, m.kind \notin ResultKinds, net \ {m} \subseteq net'
        PROVE  PendingInv'
    BY <1>1, <1>2, PendingFrame DEF PendingInv
  <1>3. ASSUME NEW u \in UUIDs, ServerTakesGoal(u) PROVE PendingInv'
    BY <1>2, <1>3 DEF ServerTakesGoal
  <1>4. ASSUME NEW u \in UUIDs, ServerTakesCancel(u) PROVE PendingInv'
    BY <1>2, <1>4 DEF ServerTakesCancel
  <1>5. ASSUME NEW u \in UUIDs, ServerAnswersResult(u) PROVE PendingInv'
    <2>1. PICK m \in net, result \in ResultAnswers :
              /\ m.kind = "result_request"
              /\ net' = (net \ {m}) \cup {Reply("result_reply", m, result, FALSE)}
      BY <1>5 DEF ServerAnswersResult
    <2> DEFINE r == Reply("result_reply", m, result, FALSE)
    <2>2. r.uuid = m.uuid /\ r.kind = "result_reply" /\ r \in net'
      BY <2>1 DEF Reply
    <2> HIDE DEF r
    <2> SUFFICES ASSUME NEW h \in Goals, Awaits(h)' PROVE ExchangeOf(h)' # {}
      BY DEF PendingInv
    <2>3. CASE h = m.uuid
      BY <2>2, <2>3 DEF ExchangeOf
    <2>4. CASE h # m.uuid
      BY <1>1, <2>1, <2>4, PendingFrame
    <2> QED
      BY <2>3, <2>4
  <1>6. ASSUME net \subseteq net' PROVE PendingInv'
    BY <1>1, <1>6, PendingFrame DEF PendingInv
  <1> QED
    BY <1>3, <1>4, <1>5, <1>6
    DEF RemoteStep, ServerFinishes, ServerPublishesFeedback, PublishStatus

\* A reply of the goal exchange: the goal that begins to wait sends its
\* request in the same step.
LEMMA PendingGoalReply ==
    ASSUME IInv, PendingInv, NEW u \in UUIDs, ReceiveGoalReply(u)
    PROVE  PendingInv'
  <1> USE DEF ResultKinds
  <1>1. PICK m \in net :
            /\ m.kind = "goal_reply"
            /\ \/ GoalReplyOrphaned(m)
               \/ \E g \in UUIDsOf(store, m.id, "GOAL") :
                    \/ GoalReplyRefused(m, g)
                    \/ GoalReplyAccepted(m, g)
                    \/ GoalReplyAborted(m, g)
    BY DEF ReceiveGoalReply
  <1>2. ASSUME store' = store, net \ {m} \subseteq net' PROVE PendingInv'
    <2>1. \A h \in Goals : Awaits(h)' => Awaits(h)
      BY <1>2 DEF Awaits, Known
    <2> QED
      BY <1>1, <1>2, <2>1, PendingFrame DEF PendingInv
  <1>3. CASE GoalReplyOrphaned(m)
    BY <1>2, <1>3 DEF GoalReplyOrphaned, enabler
  <1>4. ASSUME NEW g \in UUIDsOf(store, m.id, "GOAL"),
               GoalReplyRefused(m, g) \/ GoalReplyAborted(m, g)
        PROVE  PendingInv'
    BY <1>2, <1>4 DEF GoalReplyRefused, GoalReplyAborted, enabler
  <1>5. ASSUME NEW g \in UUIDsOf(store, m.id, "GOAL"), GoalReplyAccepted(m, g)
        PROVE  PendingInv'
    <2> DEFINE r == Request("result_request", g, requests_id + 1)
    <2>1. net' = (net \ {m}) \cup {r} /\ \A h \in UUIDs : h # g => store'[h] = store[h]
      BY <1>1, <1>5, AcceptedFacts DEF GoalReplyAccepted
    <2>2. r.uuid = g /\ r.kind = "result_request"
      BY DEF Request
    <2> HIDE DEF r
    <2> SUFFICES ASSUME NEW h \in Goals, Awaits(h)' PROVE ExchangeOf(h)' # {}
      BY DEF PendingInv
    <2>3. CASE h = g
      BY <2>1, <2>2, <2>3 DEF ExchangeOf
    <2>4. CASE h # g
      <3>1. Awaits(h)' => Awaits(h)
        BY <2>1, <2>4 DEF Awaits, Known, Goals
      <3> QED
        BY <1>1, <2>1, <3>1, PendingFrame
    <2> QED
      BY <2>3, <2>4
  <1> QED
    BY <1>1, <1>3, <1>4, <1>5

\* The other deliveries: a result reply ends the wait of its own goal, and a
\* final status begins none.
LEMMA PendingDelivery ==
    ASSUME IInv, PendingInv, DeliveryStep
    PROVE  PendingInv'
  <1>1. ASSUME NEW u \in UUIDs, ReceiveResultReply(u) PROVE PendingInv'
    <2>1. PICK m \in net :
              LET found == UUIDsOf(store, m.id, "RESULT") IN
              /\ m.kind = "result_reply"
              /\ \E g \in IF found = {} THEN UUIDs ELSE found :
                    store' = Erased(store, g, "RESULT")
              /\ net' = net \ {m}
      BY <1>1 DEF ReceiveResultReply
    <2> DEFINE g == m.uuid
    <2>2. UUIDsOf(store, m.id, "RESULT") = {g}
      BY <2>1, FindsLemma DEF ReplyFindsItsGoal
    <2>3. store' = Erased(store, g, "RESULT")
      BY <2>1, <2>2
    <2>4. g \in UUIDs /\ store \in MapType /\ Known(store, g)
      BY <2>1 DEF IInv, TypeOK, MapType, Message, ResultExchange, ResultKinds
    <2>5. /\ store'[g] = EraseInfo(store[g], "RESULT") /\ store[g] \in ActionRequestInfo
          /\ \A h \in UUIDs : h # g => store'[h] = store[h]
      BY <2>3, <2>4 DEF Erased, Known, MapType
    <2> HIDE DEF g
    <2>6. ~Awaits(g)'
      BY <2>5, EraseResultLemma DEF Awaits, Known
    <2>7. ASSUME NEW h \in Goals, h # g PROVE Awaits(h)' => ExchangeOf(h)' # {}
      <3>1. Awaits(h)' => Awaits(h)
        BY <2>5, <2>7 DEF Awaits, Known, Goals
      <3> QED
        BY <2>1, <2>7, <3>1, PendingFrame DEF g
    <2> QED
      BY <2>6, <2>7 DEF PendingInv
  <1>2. ASSUME NEW u \in UUIDs, ReceiveCancelReply(u) PROVE PendingInv'
    <2>1. PICK m \in net : m.kind = "cancel_reply" /\ net' = net \ {m} /\ store' = store
      BY <1>2 DEF ReceiveCancelReply, enabler
    <2>2. \A h \in Goals : Awaits(h)' => Awaits(h)
      BY <2>1 DEF Awaits, Known
    <2> QED
      BY <2>1, <2>2, PendingFrame DEF PendingInv, ResultKinds
  <1>3. ASSUME NEW a \in Actions, ReceiveStatus(a) PROVE PendingInv'
    <2>1. net' = net
      BY <1>3 DEF ReceiveStatus
    <2>2. ASSUME NEW h \in Goals PROVE Awaits(h)' => Awaits(h)
      <3>1. h \in UUIDs
        BY DEF Goals
      <3>2. \/ store'[h] = store[h]
            \/ Known(store, h) /\ store'[h] = EraseInfo(store[h], "FINAL_STATUS")
        <4> DEFINE is_listed == status_topic[a][h] # "none" /\ IsActive(store, a, h)
        <4>1. store'[h] = IF is_listed /\ status_topic[a][h] \in FinalStatus
                          THEN EraseInfo(store[h], "FINAL_STATUS") ELSE store[h]
          BY <1>3, <3>1 DEF ReceiveStatus
        <4>2. is_listed => Known(store, h)
          BY DEF IsActive
        <4> HIDE DEF is_listed
        <4> QED
          BY <4>1, <4>2
      <3>3. Known(store, h) => store[h] \in ActionRequestInfo
        BY <3>1 DEF IInv, TypeOK, Known
      <3>4. CASE store'[h] = store[h]
        BY <3>4 DEF Awaits, Known
      <3>5. CASE Known(store, h) /\ store'[h] = EraseInfo(store[h], "FINAL_STATUS")
        <4> DEFINE kept == EraseInfo(store[h], "FINAL_STATUS")
        <4>1. kept # NoEntry => /\ kept.result_request_id = store[h].result_request_id
                                /\ kept.result_received = store[h].result_received
          BY <3>3, <3>5, EraseFinalLemma
        <4>2. store'[h] = kept
          BY <3>5
        <4> HIDE DEF kept
        <4> QED
          BY <3>5, <4>1, <4>2 DEF Awaits, Known
      <3> QED
        BY <3>2, <3>4, <3>5
    <2> QED
      BY <2>1, <2>2, PendingFrame DEF PendingInv
  <1>4. ASSUME NEW u \in UUIDs, ReceiveFeedback(u) PROVE PendingInv'
    <2>1. /\ net' = net \ {Feedback(u)} /\ store' = store
          /\ Feedback(u).kind \notin ResultKinds
      BY <1>4, FeedbackLemma DEF ReceiveFeedback, enabler
    <2>2. \A h \in Goals : Awaits(h)' => Awaits(h)
      BY <2>1 DEF Awaits, Known
    <2> QED
      BY <2>1, <2>2, PendingFrame DEF PendingInv
  <1> QED
    BY <1>1, <1>2, <1>3, <1>4, PendingGoalReply DEF DeliveryStep

\* A goal of the map whose result has been requested and has not come has its
\* request or its reply in flight, one of the two, and no other goal has
\* either: no goal waits for a result that nobody was asked for, and no result
\* comes that no goal waits for.
THEOREM AwaitedResultsPending == Spec => []AwaitedResultIsPending
  <1>1. Init => PendingInv
    BY DEF Init, PendingInv, Awaits, Known, Goals
  <1>2. IInv /\ PendingInv /\ [Next]_vars => PendingInv'
    <2> SUFFICES ASSUME IInv, PendingInv, [Next]_vars PROVE PendingInv'
      OBVIOUS
    <2>1. CASE UNCHANGED vars
      BY <2>1 DEF vars, PendingInv, Awaits, Known, ExchangeOf
    <2> QED
      BY <2>1, PendingApplication, PendingDelivery, PendingRemote DEF Next
  <1>3. IInv /\ PendingInv => AwaitedResultIsPending
    <2> SUFFICES ASSUME IInv, PendingInv, NEW h \in Goals
                 PROVE  IF Awaits(h) THEN \E n \in net : ExchangeOf(h) = {n}
                                     ELSE ExchangeOf(h) = {}
      BY DEF AwaitedResultIsPending
    <2>1. \A m, n \in ExchangeOf(h) : m = n
      BY DEF IInv, OneAtATime, ExchangeOf
    <2>2. ASSUME NEW n \in ExchangeOf(h) PROVE Awaits(h)
      <3>1. Known(store, h) /\ store[h].result_request_id # 0 /\ result_replies[h] = 0
        BY <2>2 DEF IInv, ResultExchange, ExchangeOf
      <3>2. ~store[h].result_received
        BY <3>1 DEF IInv, EntryInv, Goals
      <3> QED
        BY <3>1, <3>2 DEF Awaits
    <2>3. CASE Awaits(h)
      <3>1. PICK n : n \in ExchangeOf(h)
        BY <2>3 DEF PendingInv
      <3>2. n \in net /\ ExchangeOf(h) = {n}
        BY <2>1, <3>1 DEF ExchangeOf
      <3> QED
        BY <2>3, <3>2
    <2> QED
      BY <2>2, <2>3
  <1> QED
    BY <1>1, <1>2, <1>3, InvariantHolds, PTL DEF Spec

=============================================================================

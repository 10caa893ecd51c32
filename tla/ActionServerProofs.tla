------------------------- MODULE ActionServerProofs -------------------------
(***************************************************************************)
(* Theorems about ActionServer, for any number of goals, clients, requests *)
(* and results.                                                            *)
(*                                                                         *)
(* The invariant says that a goal request is delivered once, so that an    *)
(* entry that has left the map never comes back, that a goal has a reply   *)
(* only once its entry has left, and that until then the results the       *)
(* application was told are taken are the result of the entry.             *)
(***************************************************************************)
EXTENDS ActionServer, ActionRequestsProofs

GoalRequest(u) == [kind |-> "GOAL", uuid |-> u]

Delivered(u) == GoalRequest(u) \in sent \ requests

\* The identifiers of the result requests, all drawn from the counter.
AskedInv ==
    /\ \A u \in UUIDs : \A id \in asked[u] : id <= requests_id
    /\ \A u, v \in UUIDs : \A id \in asked[u] \cap asked[v] : u = v

EntryInv ==
    \A u \in UUIDs : Known(store, u) =>
        /\ Delivered(u)
        /\ store[u].result_request_id # 0 => store[u].result_request_id \in asked[u]
        /\ \A p \in replies : p.uuid # u

\* Before its request is delivered nothing is known of a goal, and nothing
\* is given for one that was not accepted.
QuietInv ==
    /\ \A u \in UUIDs : ~Delivered(u) => answer[u] = "none"
    /\ \A u \in UUIDs, r \in Results :
          <<u, r>> \in GivenResults /\ answer[u] # "accepted" => result_call[<<u, r>>] = "idle"

ReplyInv ==
    /\ \A p \in replies : p.id \in asked[p.uuid] /\ Delivered(p.uuid)
    /\ \A p, q \in replies : p.uuid = q.uuid => p = q

\* The results taken for a goal in the map are the one the entry holds.
KeptInv ==
    \A u \in UUIDs, r \in Results :
        <<u, r>> \in GivenResults /\ Known(store, u) /\ u \notin failed =>
            (result_call[<<u, r>>] \in {"kept", "sent"} <=> r = store[u].result)

IInv == /\ TypeOK
        /\ requests \subseteq sent
        /\ AskedInv
        /\ EntryInv
        /\ QuietInv
        /\ ReplyInv
        /\ KeptInv
        /\ ResultMeetsRequest
        /\ TakenResultIsReplied

-----------------------------------------------------------------------------
(* Helpers.                                                                *)

\* The two outcomes of sending a result reply.
LEMMA SendLemma ==
    ASSUME NEW f \in MapType, NEW u \in UUIDs, NEW id, NEW r,
           SendResultReply(f, u, id, r)
    PROVE  \/ /\ replies' = replies \cup {[uuid |-> u, id |-> id, result |-> r]}
              /\ store' = [f EXCEPT ![u] = NoEntry]
              /\ failed' = failed
           \/ /\ failed' = failed \cup {u}
              /\ store' = f
              /\ replies' = replies
  BY EraseForcedLemma DEF SendResultReply

-----------------------------------------------------------------------------
(* Type correctness.                                                       *)

\* The initial state has the right types.
LEMMA TypeInit == Init => TypeOK
  BY SentinelAssumption, ServerAssumption DEF Init, TypeOK, Reply, Request

\* The reply of a known goal has the right types, sent or not.
LEMMA TypeSend ==
    ASSUME TypeOK, NEW f \in MapType, NEW u \in UUIDs, NEW id \in Nat,
           NEW r \in Results, SendResultReply(f, u, id, r)
    PROVE  store' \in MapType /\ replies' \subseteq Reply /\ failed' \subseteq UUIDs
  <1>1. [uuid |-> u, id |-> id, result |-> r] \in Reply
    BY DEF Reply
  <1>2. [f EXCEPT ![u] = NoEntry] \in MapType
    BY DEF MapType
  <1> QED
    BY <1>1, <1>2, SendLemma DEF TypeOK

\* The remote clients keep the types.
LEMMA TypeRemote == TypeOK /\ RemoteStep => TypeOK'
  <1> SUFFICES ASSUME TypeOK, NEW m \in ClientRequests, ClientSends(m)
               PROVE  TypeOK'
    BY DEF RemoteStep
  <1> QED
    BY ServerAssumption DEF TypeOK, ClientSends

\* So do the deliveries.
LEMMA TypeDelivery == TypeOK /\ DeliveryStep => TypeOK'
  <1> USE DEF MapType
  <1> SUFFICES ASSUME TypeOK, NEW u \in UUIDs,
                      \/ ReceiveGoalRequest(u)
                      \/ ReceiveCancelRequest(u)
                      \/ ReceiveResultRequest(u)
               PROVE  TypeOK'
    BY DEF DeliveryStep
  <1>0. ActionOf[u] \in Actions /\ store \in MapType /\ requests_id + 1 \in Nat
    BY ServerAssumption DEF TypeOK
  <1>1. CASE ReceiveGoalRequest(u)
    <2>1. Stored(store, ActionOf[u], u, requests_id + 1, "GOAL") \in MapType
      BY <1>0, StoredLemma
    <2> QED
      BY <1>1, <1>0, <2>1 DEF TypeOK, ReceiveGoalRequest
  <1>2. CASE ReceiveCancelRequest(u)
    <2>1. Stored(store, ActionOf[u], u, requests_id + 1, "CANCEL") \in MapType
      BY <1>0, StoredLemma
    <2> QED
      BY <1>2, <1>0, <2>1 DEF TypeOK, ReceiveCancelRequest
  <1>3. CASE ReceiveResultRequest(u)
    <2> DEFINE id == requests_id + 1
               stored == Stored(store, ActionOf[u], u, id, "RESULT")
    <2>1. stored \in MapType
      BY <1>0, StoredLemma
    <2>2. /\ requests' \subseteq requests
          /\ requests_id' = id
          /\ asked' = [asked EXCEPT ![u] = @ \cup {id}]
          /\ UNCHANGED <<sent, answer, goal_reply, result_call, cancels>>
      BY <1>3 DEF ReceiveResultRequest
    <2>3. store' \in MapType /\ replies' \subseteq Reply /\ failed' \subseteq UUIDs
      <3>1. CASE /\ CanStore(store, ActionOf[u], u, "RESULT")
                 /\ stored[u].result # NoResult
        <4>1. SendResultReply(stored, u, id, stored[u].result)
          BY <1>3, <3>1 DEF ReceiveResultRequest
        <4>2. stored[u].result \in Results
          <5>1. Known(store, u)
            BY <3>1 DEF CanStore
          <5>2. Known(stored, u)
            BY <5>1, <1>0, StoreResultLemma
          <5>3. stored[u] \in ActionRequestInfo
            BY <5>2, <2>1 DEF Known
          <5> QED
            BY <5>3, <3>1 DEF ActionRequestInfo
        <4> QED
          BY <4>1, <4>2, <2>1, <1>0, TypeSend
      <3>2. CASE ~( /\ CanStore(store, ActionOf[u], u, "RESULT")
                    /\ stored[u].result # NoResult )
        <4>1. store' \in {store, stored} /\ UNCHANGED <<replies, failed>>
          BY <1>3, <3>2 DEF ReceiveResultRequest
        <4> QED
          BY <4>1, <2>1, <1>0 DEF TypeOK
      <3> QED
        BY <3>1, <3>2
    <2> QED
      BY <1>0, <2>2, <2>3 DEF TypeOK
  <1> QED
    BY <1>1, <1>2, <1>3

\* So do the calls of the application.
LEMMA TypeApplication == TypeOK /\ ApplicationStep => TypeOK'
  <1> USE DEF MapType
  <1> SUFFICES ASSUME TypeOK, NEW u \in UUIDs, NEW r \in Results,
                      SendResultCheck(u, r) \/ HandleResult(u, r)
               PROVE  TypeOK'
    BY DEF ApplicationStep
  <1>1. CASE SendResultCheck(u, r)
    BY <1>1 DEF TypeOK, SendResultCheck
  <1>2. CASE HandleResult(u, r)
    <2>1. store \in MapType
      BY DEF TypeOK
    <2>2. result_call' \in [GivenResults -> {"idle", "checked", "kept", "sent", "refused"}]
      BY <1>2 DEF TypeOK, HandleResult, Return
    <2>3. store' \in MapType /\ replies' \subseteq Reply /\ failed' \subseteq UUIDs
      <3>1. CASE store' = store /\ UNCHANGED <<replies, failed>>
        BY <3>1, <2>1 DEF TypeOK
      <3>2. CASE /\ IsActive(store, ActionOf[u], u)
                 /\ SendResultReply(store, u, store[u].result_request_id, r)
        <4>1. store[u].result_request_id \in Nat
          BY <3>2, <2>1 DEF IsActive, Known, ActionRequestInfo
        <4> QED
          BY <4>1, <3>2, <2>1, TypeSend
      <3>3. CASE /\ IsActive(store, ActionOf[u], u)
                 /\ store' = ResultSet(store, u, r)
                 /\ UNCHANGED <<replies, failed>>
        <4>1. store[u] \in ActionRequestInfo
          BY <3>3, <2>1 DEF IsActive, Known
        <4>2. [store[u] EXCEPT !.result = r] \in ActionRequestInfo
          BY <4>1 DEF ActionRequestInfo
        <4> QED
          BY <4>2, <3>3, <2>1 DEF ResultSet, TypeOK
      <3> QED
        BY <1>2, <3>1, <3>2, <3>3 DEF HandleResult
    <2> QED
      BY <1>2, <2>2, <2>3 DEF TypeOK, HandleResult
  <1> QED
    BY <1>1, <1>2

\* So does every step.
LEMMA TypeStep == TypeOK /\ [Next]_vars => TypeOK'
  <1>1. TypeOK /\ UNCHANGED vars => TypeOK'
    BY DEF TypeOK, vars
  <1> QED
    BY <1>1, TypeRemote, TypeDelivery, TypeApplication DEF Next

\* Every variable keeps its type.
THEOREM TypeCorrect == Spec => []TypeOK
  BY TypeInit, TypeStep, PTL DEF Spec

-----------------------------------------------------------------------------
(* The invariant.                                                          *)

\* The invariant holds initially.
LEMMA InvInit == Init => IInv
  <1> SUFFICES ASSUME Init PROVE IInv
    OBVIOUS
  <1>1. TypeOK
    BY TypeInit
  <1>2. \A u \in UUIDs : ~Known(store, u)
    BY DEF Init, Known
  <1> QED
    BY <1>1, <1>2 DEF Init, IInv, AskedInv, EntryInv, QuietInv, ReplyInv, KeptInv,
                      ResultMeetsRequest, TakenResultIsReplied, Delivered

\* A goal request that has been delivered is never in flight again.
LEMMA DeliveredStays ==
    ASSUME NEW u \in UUIDs, Delivered(u), sent \subseteq sent',
           requests' \cap sent \subseteq requests
    PROVE  Delivered(u)'
  BY DEF Delivered, GoalRequest

\* A request that is sent changes nothing of the enabler.
LEMMA InvClientSends ==
    ASSUME IInv, TypeOK', NEW m \in ClientRequests, ClientSends(m)
    PROVE  IInv'
  <1>1. /\ sent \subseteq sent' /\ requests' \cap sent \subseteq requests
        /\ requests' \subseteq sent'
    BY DEF IInv, ClientSends
  <1>2. \A u \in UUIDs : Delivered(u) => Delivered(u)'
    BY <1>1, DeliveredStays
  <1>3. UNCHANGED <<store, requests_id, answer, goal_reply, result_call, asked,
                    replies, failed, cancels>>
    BY DEF ClientSends
  <1>4. \A p \in replies : p.uuid \in UUIDs
    BY DEF IInv, TypeOK, Reply
  <1>5. AskedInv' /\ KeptInv' /\ ResultMeetsRequest' /\ TakenResultIsReplied'
    BY <1>3 DEF IInv, AskedInv, KeptInv, ResultMeetsRequest, TakenResultIsReplied, Known
  <1>6. EntryInv' /\ QuietInv' /\ ReplyInv'
    BY <1>2, <1>3, <1>4 DEF IInv, EntryInv, QuietInv, ReplyInv, Known
  <1> QED
    BY <1>1, <1>5, <1>6 DEF IInv

\* A goal request opens the entry of a goal that nothing is known of.
LEMMA InvReceiveGoalRequest ==
    ASSUME IInv, TypeOK', NEW u \in UUIDs, ReceiveGoalRequest(u)
    PROVE  IInv'
  <1> DEFINE id == requests_id + 1
  <1>1. GoalRequest(u) \in requests /\ requests' = requests \ {GoalRequest(u)}
    BY DEF ReceiveGoalRequest, GoalRequest
  <1>2. ~Delivered(u) /\ ~Known(store, u)
    BY <1>1 DEF IInv, EntryInv, Delivered
  <1>3. /\ store' = Stored(store, ActionOf[u], u, id, "GOAL")
        /\ \A v \in UUIDs : v # u => answer'[v] = answer[v]
        /\ requests_id' = id
        /\ UNCHANGED <<sent, result_call, asked, replies, failed, cancels>>
    BY <1>2 DEF ReceiveGoalRequest, CanStore, IInv, TypeOK
  <1>4. ActionOf[u] \in Actions /\ store \in MapType /\ requests_id \in Nat /\ id \in Nat
    BY ServerAssumption DEF IInv, TypeOK, MapType
  <1>5. /\ store'[u] = NewInfo(ActionOf[u], id)
        /\ \A v \in UUIDs : v # u => store'[v] = store[v]
    BY <1>2, <1>3, <1>4, StoreGoalLemma
  <1>6. store'[u].result = NoResult /\ store'[u].result_request_id = 0
    BY <1>5 DEF NewInfo
  <1>7. Delivered(u)' /\ \A v \in UUIDs : Delivered(v) => Delivered(v)'
    BY <1>1, <1>3 DEF Delivered, IInv, GoalRequest
  <1>8. /\ \A p \in replies : p.uuid # u
        /\ answer[u] = "none"
        /\ \A r \in Results : <<u, r>> \in GivenResults => result_call[<<u, r>>] = "idle"
    BY <1>2 DEF IInv, ReplyInv, QuietInv
  <1>9. AskedInv'
    <2>1. \A v \in UUIDs : asked[v] \subseteq Nat
      BY DEF IInv, TypeOK
    <2> QED
      BY <1>3, <1>4, <2>1 DEF IInv, AskedInv
  <1>10. EntryInv'
    BY <1>3, <1>5, <1>6, <1>7, <1>8 DEF IInv, EntryInv, Known
  <1>11. QuietInv'
    BY <1>3, <1>7, <1>8 DEF IInv, QuietInv
  <1>12. ReplyInv'
    <2>1. \A p \in replies : p.uuid \in UUIDs
      BY DEF IInv, TypeOK, Reply
    <2> QED
      BY <1>3, <1>7, <2>1 DEF IInv, ReplyInv
  <1>13. KeptInv'
    BY <1>3, <1>5, <1>6, <1>8, SentinelAssumption DEF IInv, KeptInv, Known
  <1>14. ResultMeetsRequest' /\ TakenResultIsReplied'
    BY <1>3, <1>5, <1>6 DEF IInv, ResultMeetsRequest, TakenResultIsReplied, Known
  <1>15. requests' \subseteq sent'
    BY <1>1, <1>3 DEF IInv
  <1> QED
    BY <1>9, <1>10, <1>11, <1>12, <1>13, <1>14, <1>15 DEF IInv

\* A cancel request changes no entry.
LEMMA InvReceiveCancelRequest ==
    ASSUME IInv, TypeOK', NEW u \in UUIDs, ReceiveCancelRequest(u)
    PROVE  IInv'
  <1>1. /\ requests' \subseteq requests
        /\ requests_id' = requests_id + 1
        /\ UNCHANGED <<sent, answer, goal_reply, result_call, asked, replies, failed>>
    BY DEF ReceiveCancelRequest
  <1>2. store' = store
    BY DEF ReceiveCancelRequest, HasGoalId
  <1>3. \A v \in UUIDs : Delivered(v) => Delivered(v)'
    BY <1>1, DeliveredStays
  <1>4. /\ \A p \in replies : p.uuid \in UUIDs
        /\ \A v \in UUIDs : asked[v] \subseteq Nat
        /\ requests_id \in Nat
    BY DEF IInv, TypeOK, Reply
  <1>5. AskedInv'
    BY <1>1, <1>4 DEF IInv, AskedInv
  <1>6. EntryInv' /\ QuietInv' /\ ReplyInv'
    BY <1>1, <1>2, <1>3, <1>4 DEF IInv, EntryInv, QuietInv, ReplyInv, Known
  <1>7. KeptInv' /\ ResultMeetsRequest' /\ TakenResultIsReplied'
    BY <1>1, <1>2 DEF IInv, KeptInv, ResultMeetsRequest, TakenResultIsReplied, Known
  <1>8. requests' \subseteq sent'
    BY <1>1 DEF IInv
  <1> QED
    BY <1>5, <1>6, <1>7, <1>8 DEF IInv

\* What a result request does to the bookkeeping, whatever becomes of it.
LEMMA AskedFacts ==
    ASSUME IInv, NEW u \in UUIDs, ReceiveResultRequest(u)
    PROVE  /\ requests' \subseteq sent'
           /\ UNCHANGED <<sent, answer, goal_reply, result_call, cancels>>
           /\ AskedInv'
           /\ requests_id + 1 \in asked'[u]
           /\ \A v \in UUIDs : asked[v] \subseteq asked'[v]
           /\ \A v \in UUIDs : Delivered(v) => Delivered(v)'
           /\ QuietInv'
  <1>1. /\ requests' \subseteq requests
        /\ requests_id' = requests_id + 1
        /\ asked' = [asked EXCEPT ![u] = @ \cup {requests_id + 1}]
        /\ UNCHANGED <<sent, answer, goal_reply, result_call, cancels>>
    BY DEF ReceiveResultRequest
  <1>2. /\ requests_id \in Nat
        /\ \A v \in UUIDs : asked[v] \subseteq Nat
        /\ asked'[u] = asked[u] \cup {requests_id + 1}
        /\ \A v \in UUIDs : v # u => asked'[v] = asked[v]
    BY <1>1 DEF IInv, TypeOK
  <1>3. \A v \in UUIDs : Delivered(v) => Delivered(v)'
    BY <1>1, DeliveredStays
  <1>4. AskedInv'
    BY <1>1, <1>2 DEF IInv, AskedInv
  <1>5. QuietInv'
    BY <1>1, <1>3 DEF IInv, QuietInv
  <1> QED
    BY <1>1, <1>2, <1>3, <1>4, <1>5 DEF IInv

\* A result request is stored, or answered with the result that was kept.
LEMMA InvReceiveResultRequest ==
    ASSUME IInv, TypeOK', NEW u \in UUIDs, ReceiveResultRequest(u)
    PROVE  IInv'
  <1> DEFINE id == requests_id + 1
             stored == Stored(store, ActionOf[u], u, id, "RESULT")
  <1>1. /\ requests' \subseteq sent'
        /\ UNCHANGED <<sent, answer, goal_reply, result_call, cancels>>
        /\ AskedInv' /\ QuietInv'
        /\ id \in asked'[u]
        /\ \A v \in UUIDs : asked[v] \subseteq asked'[v]
        /\ \A v \in UUIDs : Delivered(v) => Delivered(v)'
    BY AskedFacts
  <1>5. store \in MapType /\ ActionOf[u] \in Actions /\ id \in Nat
    BY ServerAssumption DEF IInv, TypeOK, MapType
  <1>2. \A p \in replies : p.uuid \in UUIDs
    BY DEF IInv, TypeOK, Reply
  <1>3. CASE ~CanStore(store, ActionOf[u], u, "RESULT")
    <2>1. UNCHANGED <<store, replies, failed>>
      BY <1>3 DEF ReceiveResultRequest
    <2>2. EntryInv' /\ ReplyInv'
      BY <1>1, <1>2, <2>1 DEF IInv, EntryInv, ReplyInv, Known
    <2>3. KeptInv' /\ ResultMeetsRequest' /\ TakenResultIsReplied'
      BY <1>1, <2>1 DEF IInv, KeptInv, ResultMeetsRequest, TakenResultIsReplied, Known
    <2> QED
      BY <1>1, <2>2, <2>3 DEF IInv
  <1>4. CASE CanStore(store, ActionOf[u], u, "RESULT")
    <2>1. Known(store, u)
      BY <1>4 DEF CanStore
    <2>2. /\ stored \in MapType /\ Known(stored, u)
          /\ \A v \in UUIDs : v # u => stored[v] = store[v]
      <3>1. stored \in MapType
        BY <1>5, StoredLemma
      <3>2. Known(stored, u)
        BY <1>5, <2>1, StoreResultLemma
      <3>3. \A v \in UUIDs : v # u => stored[v] = store[v]
        BY <1>5, <2>1, StoreResultFields
      <3> QED
        BY <3>1, <3>2, <3>3
    <2>3. store[u] \in ActionRequestInfo
      BY <1>5, <2>1 DEF MapType, Known
    <2>4. stored[u].result_request_id = id /\ stored[u].result = store[u].result
      BY <1>5, <2>1, StoreResultFields
    <2>5. Delivered(u) /\ \A p \in replies : p.uuid # u
      BY <2>1 DEF IInv, EntryInv
    <2> HIDE DEF stored
    <2>6. CASE /\ store' = stored
               /\ UNCHANGED replies
               /\ failed \subseteq failed'
               /\ stored[u].result # NoResult => u \in failed'
      <3>1. EntryInv' /\ ReplyInv'
        BY <1>1, <1>2, <2>1, <2>2, <2>4, <2>5, <2>6 DEF IInv, EntryInv, ReplyInv, Known
      <3>2. KeptInv'
        BY <1>1, <2>1, <2>2, <2>4, <2>6 DEF IInv, KeptInv, Known
      <3>3. ResultMeetsRequest' /\ TakenResultIsReplied'
        BY <1>1, <2>2, <2>4, <2>6 DEF IInv, ResultMeetsRequest, TakenResultIsReplied, Known
      <3> QED
        BY <1>1, <3>1, <3>2, <3>3 DEF IInv
    <2>7. CASE /\ replies' = replies \cup {[uuid |-> u, id |-> id, result |-> stored[u].result]}
               /\ store' = [stored EXCEPT ![u] = NoEntry]
               /\ failed' = failed
      <3>1. store'[u] = NoEntry /\ \A v \in UUIDs : v # u => store'[v] = store[v]
        BY <2>2, <2>7 DEF MapType
      <3>2. EntryInv'
        BY <1>1, <2>7, <3>1 DEF IInv, EntryInv, Known
      <3>3. ReplyInv'
        BY <1>1, <1>2, <2>5, <2>7 DEF IInv, ReplyInv
      <3>4. KeptInv' /\ ResultMeetsRequest'
        BY <1>1, <2>7, <3>1 DEF IInv, KeptInv, ResultMeetsRequest, Known
      <3>5. TakenResultIsReplied'
        BY <1>1, <2>1, <2>4, <2>7 DEF IInv, KeptInv, TakenResultIsReplied
      <3> QED
        BY <1>1, <3>2, <3>3, <3>4, <3>5 DEF IInv
    <2>8. CASE stored[u].result = NoResult
      <3>1. store' = stored /\ UNCHANGED <<replies, failed>>
        BY <1>4, <2>8 DEF ReceiveResultRequest, stored
      <3> QED
        BY <3>1, <2>8, <2>6
    <2>9. CASE stored[u].result # NoResult
      <3>1. SendResultReply(stored, u, id, stored[u].result)
        BY <1>4, <2>9 DEF ReceiveResultRequest, stored
      <3>2. \/ /\ replies' = replies \cup {[uuid |-> u, id |-> id, result |-> stored[u].result]}
               /\ store' = [stored EXCEPT ![u] = NoEntry]
               /\ failed' = failed
            \/ /\ failed' = failed \cup {u}
               /\ store' = stored
               /\ replies' = replies
        BY <2>2, <3>1, SendLemma
      <3> QED
        BY <3>2, <2>6, <2>7
    <2> QED
      BY <2>8, <2>9
  <1> QED
    BY <1>3, <1>4

\* Only a goal that the application has accepted gets a result.
LEMMA InvSendResultCheck ==
    ASSUME IInv, TypeOK', NEW u \in UUIDs, NEW r \in Results, SendResultCheck(u, r)
    PROVE  IInv'
  <1>1. /\ UNCHANGED <<store, requests_id, requests, sent, answer, goal_reply,
                       asked, replies, failed, cancels>>
        /\ <<u, r>> \in GivenResults /\ answer[u] = "accepted"
        /\ result_call[<<u, r>>] = "idle"
    BY DEF SendResultCheck
  <1>2. /\ result_call'[<<u, r>>] \in {"checked", "refused"}
        /\ \A c \in GivenResults : c # <<u, r>> => result_call'[c] = result_call[c]
    BY <1>1 DEF SendResultCheck, IInv, TypeOK
  <1>3. \A v \in UUIDs, q \in Results : <<v, q>> \in GivenResults =>
            (result_call'[<<v, q>>] \in {"kept", "sent"}
                <=> result_call[<<v, q>>] \in {"kept", "sent"})
    BY <1>1, <1>2
  <1>4. \A p \in replies : p.uuid \in UUIDs
    BY DEF IInv, TypeOK, Reply
  <1>5. requests' \subseteq sent' /\ AskedInv' /\ EntryInv' /\ ReplyInv'
    BY <1>1, <1>4 DEF IInv, AskedInv, EntryInv, ReplyInv, Known, Delivered
  <1>6. QuietInv'
    <2>1. \A v \in UUIDs : ~Delivered(v)' => answer'[v] = "none"
      BY <1>1 DEF IInv, QuietInv, Delivered
    <2>2. ASSUME NEW v \in UUIDs, NEW q \in Results, <<v, q>> \in GivenResults,
                 answer'[v] # "accepted"
          PROVE  result_call'[<<v, q>>] = "idle"
      <3>1. v # u
        BY <1>1, <2>2
      <3>2. result_call'[<<v, q>>] = result_call[<<v, q>>]
        BY <1>2, <2>2, <3>1
      <3> QED
        BY <1>1, <2>2, <3>2 DEF IInv, QuietInv
    <2> QED
      BY <2>1, <2>2 DEF QuietInv
  <1>7. KeptInv'
    BY <1>1, <1>3 DEF IInv, KeptInv, Known
  <1>8. ResultMeetsRequest' /\ TakenResultIsReplied'
    BY <1>1, <1>3, <1>4 DEF IInv, ResultMeetsRequest, TakenResultIsReplied, Known
  <1> QED
    BY <1>5, <1>6, <1>7, <1>8 DEF IInv

\* The three outcomes of handle_action_result: the result is refused (or the
\* reply of the goal fails), kept, or sent.
LEMMA HandleResultCases ==
    ASSUME IInv, NEW u \in UUIDs, NEW r \in Results, HandleResult(u, r)
    PROVE  \/ /\ result_call'[<<u, r>>] = "refused"
              /\ UNCHANGED <<store, replies>>
              /\ failed' \in {failed, failed \cup {u}}
           \/ /\ result_call'[<<u, r>>] = "kept"
              /\ Known(store, u)
              /\ store[u].result_request_id = 0 /\ store[u].result = NoResult
              /\ store' = ResultSet(store, u, r)
              /\ UNCHANGED <<replies, failed>>
           \/ /\ result_call'[<<u, r>>] = "sent"
              /\ Known(store, u)
              /\ store[u].result_request_id # 0
              /\ replies' = replies \cup
                    {[uuid |-> u, id |-> store[u].result_request_id, result |-> r]}
              /\ store' = [store EXCEPT ![u] = NoEntry]
              /\ failed' = failed
  <1>1. <<u, r>> \in DOMAIN result_call
    BY DEF HandleResult, IInv, TypeOK
  <1>2. \A value : Return(u, r, value) => result_call'[<<u, r>>] = value
    BY <1>1 DEF Return, IInv, TypeOK
  <1>3. CASE ~IsActive(store, ActionOf[u], u)
    BY <1>2, <1>3 DEF HandleResult
  <1>4. CASE IsActive(store, ActionOf[u], u) /\ store[u].result_request_id # 0
    <2> DEFINE id == store[u].result_request_id
               p == [uuid |-> u, id |-> id, result |-> r]
    <2>1. /\ SendResultReply(store, u, id, r)
          /\ Return(u, r, IF replies' # replies THEN "sent" ELSE "refused")
      BY <1>4 DEF HandleResult
    <2>2. store \in MapType /\ Known(store, u)
      BY <1>4 DEF IInv, TypeOK, MapType, IsActive
    <2>3. p \notin replies
      <3>1. p.uuid = u
        OBVIOUS
      <3> QED
        BY <2>2, <3>1 DEF IInv, EntryInv
    <2>4. \/ /\ replies' = replies \cup {p}
             /\ store' = [store EXCEPT ![u] = NoEntry]
             /\ failed' = failed
          \/ /\ failed' = failed \cup {u}
             /\ store' = store
             /\ replies' = replies
      BY <2>1, <2>2, SendLemma
    <2>5. CASE replies' = replies
      <3>1. result_call'[<<u, r>>] = "refused"
        BY <1>2, <2>1, <2>5
      <3> QED
        BY <2>3, <2>4, <2>5, <3>1
    <2>6. CASE replies' # replies
      <3>1. result_call'[<<u, r>>] = "sent"
        BY <1>2, <2>1, <2>6
      <3> QED
        BY <1>4, <2>2, <2>4, <2>6, <3>1
    <2> QED
      BY <2>5, <2>6
  <1>5. CASE IsActive(store, ActionOf[u], u) /\ store[u].result_request_id = 0
    BY <1>2, <1>5 DEF HandleResult, IsActive, CanSetResult
  <1> QED
    BY <1>3, <1>4, <1>5

\* A result is sent, kept or refused.
LEMMA InvHandleResult ==
    ASSUME IInv, TypeOK', NEW u \in UUIDs, NEW r \in Results, HandleResult(u, r)
    PROVE  IInv'
  <1>1. /\ UNCHANGED <<requests_id, requests, sent, answer, goal_reply, asked, cancels>>
        /\ <<u, r>> \in GivenResults
        /\ result_call[<<u, r>>] = "checked"
        /\ \A c \in GivenResults : c # <<u, r>> => result_call'[c] = result_call[c]
    BY DEF HandleResult, Return, IInv, TypeOK
  <1>2. /\ \A p \in replies : p.uuid \in UUIDs
        /\ store \in MapType
    BY DEF IInv, TypeOK, Reply, MapType
  <1>3. \A v \in UUIDs : Delivered(v) <=> Delivered(v)'
    BY <1>1 DEF Delivered
  <1>4. requests' \subseteq sent' /\ AskedInv'
    BY <1>1 DEF IInv, AskedInv
  <1>5. QuietInv'
    <2>1. answer[u] = "accepted"
      BY <1>1 DEF IInv, QuietInv
    <2>2. ASSUME NEW v \in UUIDs, NEW q \in Results, <<v, q>> \in GivenResults,
                 answer'[v] # "accepted"
          PROVE  result_call'[<<v, q>>] = "idle"
      <3>1. v # u
        BY <1>1, <2>1, <2>2
      <3>2. result_call'[<<v, q>>] = result_call[<<v, q>>]
        BY <1>1, <2>2, <3>1
      <3> QED
        BY <1>1, <2>2, <3>2 DEF IInv, QuietInv
    <2>3. \A v \in UUIDs : ~Delivered(v)' => answer'[v] = "none"
      BY <1>1, <1>3 DEF IInv, QuietInv
    <2> QED
      BY <2>2, <2>3 DEF QuietInv
  <1>6. CASE /\ result_call'[<<u, r>>] = "refused"
             /\ UNCHANGED <<store, replies>>
             /\ failed' \in {failed, failed \cup {u}}
    <2>1. \A v \in UUIDs, q \in Results : <<v, q>> \in GivenResults =>
            (result_call'[<<v, q>>] \in {"kept", "sent"}
                <=> result_call[<<v, q>>] \in {"kept", "sent"})
      BY <1>1, <1>6
    <2>2. EntryInv' /\ ReplyInv'
      BY <1>1, <1>2, <1>3, <1>6 DEF IInv, EntryInv, ReplyInv, Known
    <2>3. KeptInv' /\ ResultMeetsRequest'
      BY <1>6, <2>1 DEF IInv, KeptInv, ResultMeetsRequest, Known
    <2>4. TakenResultIsReplied'
      BY <1>2, <1>6, <2>1 DEF IInv, TakenResultIsReplied
    <2> QED
      BY <1>4, <1>5, <2>2, <2>3, <2>4 DEF IInv
  <1>7. CASE /\ result_call'[<<u, r>>] = "kept"
             /\ Known(store, u)
             /\ store[u].result_request_id = 0 /\ store[u].result = NoResult
             /\ store' = ResultSet(store, u, r)
             /\ UNCHANGED <<replies, failed>>
    <2>1. store[u] \in ActionRequestInfo
      BY <1>2, <1>7 DEF MapType, Known
    <2>2. /\ store'[u].result_request_id = 0 /\ store'[u].result = r
          /\ \A v \in UUIDs : v # u => store'[v] = store[v]
      <3>1. store'[u] = [store[u] EXCEPT !.result = r]
        BY <1>2, <1>7, <2>1 DEF ResultSet, MapType, ActionRequestInfo
      <3>2. \A v \in UUIDs : v # u => store'[v] = store[v]
        BY <1>2, <1>7 DEF ResultSet, MapType
      <3> QED
        BY <1>7, <2>1, <3>1, <3>2 DEF ActionRequestInfo
    <2>3. \A p \in replies : p.uuid # u
      BY <1>7 DEF IInv, EntryInv
    <2>4. EntryInv' /\ ReplyInv'
      BY <1>1, <1>2, <1>3, <1>7, <2>2, <2>3 DEF IInv, EntryInv, ReplyInv, Known
    <2>5. KeptInv'
      <3>1. ASSUME NEW v \in UUIDs, NEW q \in Results, <<v, q>> \in GivenResults,
                   Known(store', v), v \notin failed'
            PROVE  result_call'[<<v, q>>] \in {"kept", "sent"} <=> q = store'[v].result
        <4>1. CASE v # u
          <5>1. <<v, q>> # <<u, r>>
            BY <4>1
          <5> QED
            BY <1>1, <1>7, <2>2, <3>1, <4>1, <5>1 DEF IInv, KeptInv, Known
        <4>2. CASE v = u /\ q # r
          <5>1. result_call'[<<v, q>>] = result_call[<<v, q>>]
            BY <1>1, <3>1, <4>2
          <5>2. q # NoResult
            BY SentinelAssumption
          <5> QED
            BY <1>7, <2>2, <3>1, <4>2, <5>1, <5>2 DEF IInv, KeptInv
        <4>3. CASE v = u /\ q = r
          BY <1>7, <2>2, <4>3
        <4> QED
          BY <4>1, <4>2, <4>3
      <3> QED
        BY <3>1 DEF KeptInv
    <2>6. ResultMeetsRequest'
      BY <1>7, <2>2 DEF IInv, ResultMeetsRequest, Known
    <2>7. TakenResultIsReplied'
      <3>1. \A p \in replies, q \in Results : <<p.uuid, q>> \in GivenResults =>
              result_call'[<<p.uuid, q>>] = result_call[<<p.uuid, q>>]
        BY <1>1, <2>3
      <3> QED
        BY <1>7, <3>1 DEF IInv, TakenResultIsReplied
    <2> QED
      BY <1>4, <1>5, <2>4, <2>5, <2>6, <2>7 DEF IInv
  <1>8. CASE /\ result_call'[<<u, r>>] = "sent"
             /\ Known(store, u)
             /\ store[u].result_request_id # 0
             /\ replies' = replies \cup
                   {[uuid |-> u, id |-> store[u].result_request_id, result |-> r]}
             /\ store' = [store EXCEPT ![u] = NoEntry]
             /\ failed' = failed
    <2> DEFINE reply == [uuid |-> u, id |-> store[u].result_request_id, result |-> r]
    <2>1. ~Known(store', u) /\ \A v \in UUIDs : v # u => store'[v] = store[v]
      BY <1>2, <1>8 DEF Known, MapType
    <2>2. /\ \A p \in replies : p.uuid # u
          /\ Delivered(u) /\ store[u].result_request_id \in asked[u]
      BY <1>8 DEF IInv, EntryInv
    <2>3. EntryInv'
      BY <1>1, <1>3, <1>8, <2>1 DEF IInv, EntryInv, Known
    <2>4. ReplyInv'
      BY <1>1, <1>2, <1>3, <1>8, <2>2 DEF IInv, ReplyInv
    <2>5. KeptInv'
      <3>1. ASSUME NEW v \in UUIDs, NEW q \in Results, <<v, q>> \in GivenResults,
                   Known(store', v), v \notin failed'
            PROVE  result_call'[<<v, q>>] \in {"kept", "sent"} <=> q = store'[v].result
        <4>1. v # u
          BY <2>1, <3>1
        <4>2. result_call'[<<v, q>>] = result_call[<<v, q>>]
          BY <1>1, <3>1, <4>1
        <4> QED
          BY <1>8, <2>1, <3>1, <4>1, <4>2 DEF IInv, KeptInv, Known
      <3> QED
        BY <3>1 DEF KeptInv
    <2>6. ResultMeetsRequest'
      BY <1>8, <2>1 DEF IInv, ResultMeetsRequest, Known
    <2>7. TakenResultIsReplied'
      <3>1. ASSUME NEW p \in replies, p.uuid \notin failed', NEW q \in Results,
                   <<p.uuid, q>> \in GivenResults
            PROVE  result_call'[<<p.uuid, q>>] \in {"kept", "sent"} <=> q = p.result
        <4>1. result_call'[<<p.uuid, q>>] = result_call[<<p.uuid, q>>]
          BY <1>1, <2>2, <3>1
        <4> QED
          BY <1>8, <3>1, <4>1 DEF IInv, TakenResultIsReplied
      <3>2. ASSUME u \notin failed', NEW q \in Results, <<u, q>> \in GivenResults
            PROVE  result_call'[<<u, q>>] \in {"kept", "sent"} <=> q = r
        <4>1. CASE q = r
          BY <1>8, <4>1
        <4>2. CASE q # r
          <5>1. result_call'[<<u, q>>] = result_call[<<u, q>>]
            BY <1>1, <3>2, <4>2
          <5>2. store[u].result = NoResult
            BY <1>8, <3>2 DEF IInv, ResultMeetsRequest
          <5>3. q # NoResult
            BY SentinelAssumption
          <5> QED
            BY <1>8, <3>2, <4>2, <5>1, <5>2, <5>3 DEF IInv, KeptInv
        <4> QED
          BY <4>1, <4>2
      <3>3. reply.uuid = u /\ reply.result = r
        OBVIOUS
      <3>4. \A p \in replies' : p \in replies \/ p = reply
        BY <1>8
      <3> QED
        BY <3>1, <3>2, <3>3, <3>4 DEF TakenResultIsReplied
    <2> QED
      BY <1>4, <1>5, <2>3, <2>4, <2>5, <2>6, <2>7 DEF IInv
  <1> QED
    BY <1>6, <1>7, <1>8, HandleResultCases

\* Every step keeps the invariant.
LEMMA InvStep == IInv /\ [Next]_vars => IInv'
  <1> SUFFICES ASSUME IInv, [Next]_vars PROVE IInv'
    OBVIOUS
  <1>1. TypeOK'
    BY TypeStep DEF IInv
  <1>2. CASE UNCHANGED vars
    BY <1>2 DEF vars, IInv, TypeOK, AskedInv, EntryInv, QuietInv, ReplyInv, KeptInv,
                ResultMeetsRequest, TakenResultIsReplied, Known, Delivered
  <1>3. CASE RemoteStep
    BY <1>1, <1>3, InvClientSends DEF RemoteStep
  <1>4. CASE DeliveryStep
    BY <1>1, <1>4, InvReceiveGoalRequest, InvReceiveCancelRequest,
       InvReceiveResultRequest DEF DeliveryStep
  <1>5. CASE ApplicationStep
    BY <1>1, <1>5, InvSendResultCheck, InvHandleResult DEF ApplicationStep
  <1> QED
    BY <1>2, <1>3, <1>4, <1>5 DEF Next

\* The invariant holds in every reachable state.
THEOREM InvariantHolds == Spec => []IInv
  BY InvInit, InvStep, PTL DEF Spec

\* A result and a request for it never wait for each other.
THEOREM ResultsMeetRequests == Spec => []ResultMeetsRequest
  <1>1. IInv => ResultMeetsRequest
    BY DEF IInv
  <1> QED
    BY <1>1, InvariantHolds, PTL

\* A result request has one answer at most, about the goal it asks for.
THEOREM RequestsAnsweredOnce == Spec => []ResultRequestAnsweredOnce
  <1>1. IInv => ResultRequestAnsweredOnce
    <2> SUFFICES ASSUME IInv PROVE ResultRequestAnsweredOnce
      OBVIOUS
    <2>1. \A p \in replies : p.uuid \in UUIDs /\ p.id \in asked[p.uuid]
      BY DEF IInv, TypeOK, Reply, ReplyInv
    <2>2. ASSUME NEW p \in replies, NEW q \in replies, p.id = q.id PROVE p = q
      <3>1. p.uuid = q.uuid
        BY <2>1, <2>2 DEF IInv, AskedInv
      <3> QED
        BY <3>1 DEF IInv, ReplyInv
    <2> QED
      BY <2>1, <2>2 DEF ResultRequestAnsweredOnce
  <1> QED
    BY <1>1, InvariantHolds, PTL

\* What is replied for a goal is the one result that was taken.
THEOREM TakenResultsAreReplied == Spec => []TakenResultIsReplied
  <1>1. IInv => TakenResultIsReplied
    BY DEF IInv
  <1> QED
    BY <1>1, InvariantHolds, PTL

\* Seen from one goal, a step keeps its entry in the map or publishes a reply
\* of that goal.
KeepsOrReplies(u) == Known(store', u) \/ \E p \in replies' : p.uuid = u

\* Sending a reply for one goal does no more than that.
LEMMA SendKeepsOrReplies ==
    ASSUME NEW f \in MapType, NEW u \in UUIDs, NEW id, NEW r,
           SendResultReply(f, u, id, r),
           NEW v \in UUIDs, Known(f, v)
    PROVE  KeepsOrReplies(v)
  <1>1. CASE /\ replies' = replies \cup {[uuid |-> u, id |-> id, result |-> r]}
             /\ store' = [f EXCEPT ![u] = NoEntry]
    <2> DEFINE p == [uuid |-> u, id |-> id, result |-> r]
    <2>1. CASE v = u
      <3>1. p \in replies' /\ p.uuid = v
        BY <1>1, <2>1
      <3> QED
        BY <3>1 DEF KeepsOrReplies
    <2>2. CASE v # u
      BY <1>1, <2>2 DEF KeepsOrReplies, Known, MapType
    <2> QED
      BY <2>1, <2>2
  <1>2. CASE store' = f
    BY <1>2 DEF KeepsOrReplies
  <1> QED
    BY <1>1, <1>2, SendLemma

\* Nor does any other delivery.
LEMMA DeliveryKeepsOrReplies ==
    ASSUME IInv, NEW v \in UUIDs, Known(store, v), DeliveryStep
    PROVE  KeepsOrReplies(v)
  <1>1. /\ store \in MapType /\ requests_id + 1 \in Nat
        /\ \A u \in UUIDs : ActionOf[u] \in Actions
    BY ServerAssumption DEF IInv, TypeOK, MapType
  <1>2. ASSUME NEW u \in UUIDs, ReceiveGoalRequest(u) PROVE KeepsOrReplies(v)
    <2>1. CASE CanStore(store, ActionOf[u], u, "GOAL")
      <3>1. ~Known(store, u)
        BY <2>1 DEF CanStore
      <3>2. store'[v] = store[v]
        BY <1>1, <1>2, <2>1, <3>1 DEF ReceiveGoalRequest, Stored, MapType, Known
      <3> QED
        BY <3>2 DEF KeepsOrReplies, Known
    <2>2. CASE ~CanStore(store, ActionOf[u], u, "GOAL")
      BY <1>2, <2>2 DEF ReceiveGoalRequest, KeepsOrReplies, Known
    <2> QED
      BY <2>1, <2>2
  <1>3. ASSUME NEW u \in UUIDs, ReceiveCancelRequest(u) PROVE KeepsOrReplies(v)
    BY <1>3 DEF ReceiveCancelRequest, HasGoalId, KeepsOrReplies, Known
  <1>4. ASSUME NEW u \in UUIDs, ReceiveResultRequest(u) PROVE KeepsOrReplies(v)
    <2> DEFINE id == requests_id + 1
               stored == Stored(store, ActionOf[u], u, id, "RESULT")
    <2>1. CASE CanStore(store, ActionOf[u], u, "RESULT")
      <3>1. Known(store, u)
        BY <2>1 DEF CanStore
      <3>2. stored \in MapType
        BY <1>1, StoredLemma
      <3>3. Known(stored, v)
        <4>1. Known(stored, u)
          BY <1>1, <3>1, StoreResultLemma
        <4>2. v # u => stored[v] = store[v]
          BY <1>1, <3>1, StoreResultFields
        <4> QED
          BY <4>1, <4>2 DEF Known
      <3>4. store' = stored \/ SendResultReply(stored, u, id, stored[u].result)
        BY <1>4, <2>1 DEF ReceiveResultRequest
      <3>5. CASE store' = stored
        BY <3>3, <3>5 DEF KeepsOrReplies
      <3>6. CASE SendResultReply(stored, u, id, stored[u].result)
        BY <3>2, <3>3, <3>6, SendKeepsOrReplies
      <3> QED
        BY <3>4, <3>5, <3>6
    <2>2. CASE ~CanStore(store, ActionOf[u], u, "RESULT")
      BY <1>4, <2>2 DEF ReceiveResultRequest, KeepsOrReplies, Known
    <2> QED
      BY <2>1, <2>2
  <1> QED
    BY <1>2, <1>3, <1>4 DEF DeliveryStep

\* Nor do the calls of the application.
LEMMA ApplicationKeepsOrReplies ==
    ASSUME IInv, NEW v \in UUIDs, Known(store, v), ApplicationStep
    PROVE  KeepsOrReplies(v)
  <1>1. store \in MapType
    BY DEF IInv, TypeOK, MapType
  <1>2. ASSUME NEW u \in UUIDs, NEW r \in Results, SendResultCheck(u, r)
        PROVE  KeepsOrReplies(v)
    BY <1>2 DEF SendResultCheck, KeepsOrReplies, Known
  <1>3. ASSUME NEW u \in UUIDs, NEW r \in Results, HandleResult(u, r)
        PROVE  KeepsOrReplies(v)
    <2>1. \/ UNCHANGED store
          \/ SendResultReply(store, u, store[u].result_request_id, r)
          \/ store[u].result_request_id = 0 /\ Known(store, u) /\ store' = ResultSet(store, u, r)
      BY <1>3 DEF HandleResult, IsActive
    <2>2. CASE UNCHANGED store
      BY <2>2 DEF KeepsOrReplies, Known
    <2>3. CASE SendResultReply(store, u, store[u].result_request_id, r)
      BY <1>1, <2>3, SendKeepsOrReplies
    <2>4. CASE Known(store, u) /\ store' = ResultSet(store, u, r)
      <3>1. store[u] \in ActionRequestInfo
        BY <1>1, <2>4 DEF MapType, Known
      <3>2. store'[u] \in ActionRequestInfo \/ store'[u] = [store[u] EXCEPT !.result = r]
        BY <1>1, <2>4 DEF ResultSet, MapType
      <3>3. [store[u] EXCEPT !.result = r] \in ActionRequestInfo
        BY <3>1 DEF ActionRequestInfo
      <3>4. Known(store', u)
        BY <3>2, <3>3, SentinelAssumption DEF Known
      <3>5. v # u => store'[v] = store[v]
        BY <1>1, <2>4 DEF ResultSet, MapType
      <3> QED
        BY <3>4, <3>5 DEF KeepsOrReplies, Known
    <2> QED
      BY <2>1, <2>2, <2>3, <2>4
  <1> QED
    BY <1>2, <1>3 DEF ApplicationStep

\* The entry of a goal leaves the map only in the step that publishes its
\* result: the invariant makes that reply a new one.
THEOREM RepliesPrecedeErasures == Spec => ReplyBeforeErase
  <1>1. IInv /\ [Next]_vars =>
          [\A u \in UUIDs : Known(store, u) /\ ~Known(store', u) =>
              \E p \in replies' \ replies : p.uuid = u]_vars
    <2> SUFFICES ASSUME IInv, Next, NEW u \in UUIDs, Known(store, u), ~Known(store', u)
                 PROVE  \E p \in replies' \ replies : p.uuid = u
      BY DEF vars
    <2>1. KeepsOrReplies(u)
      <3>1. CASE RemoteStep
        BY <3>1 DEF RemoteStep, ClientSends, KeepsOrReplies, Known
      <3>2. CASE DeliveryStep
        BY <3>2, DeliveryKeepsOrReplies
      <3>3. CASE ApplicationStep
        BY <3>3, ApplicationKeepsOrReplies
      <3> QED
        BY <3>1, <3>2, <3>3 DEF Next
    <2>2. \A p \in replies : p.uuid # u
      BY DEF IInv, EntryInv
    <2> QED
      BY <2>1, <2>2 DEF KeepsOrReplies
  <1> QED
    BY <1>1, InvariantHolds, PTL DEF Spec, ReplyBeforeErase

-----------------------------------------------------------------------------
(* A result that was taken is not lost.                                    *)

\* What send_action_result has said it took is in the entry of the goal or
\* in a reply.
TakenResultIsNotLost ==
    \A u \in UUIDs, r \in Results :
        ( /\ <<u, r>> \in GivenResults
          /\ result_call[<<u, r>>] \in {"kept", "sent"}
          /\ u \notin failed ) =>
            \/ Known(store, u) /\ store[u].result = r
            \/ \E p \in replies : p.uuid = u /\ p.result = r

\* A goal of which the application was asked is in the map until its reply.
AnsweredInv ==
    \A u \in UUIDs : answer[u] # "none" =>
        Known(store, u) \/ \E p \in replies : p.uuid = u

\* Replies are never taken back.
LEMMA RepliesGrow == [Next]_vars => replies \subseteq replies'
  BY DEF Next, RemoteStep, DeliveryStep, ApplicationStep, ClientSends,
         ReceiveGoalRequest, ReceiveCancelRequest, ReceiveResultRequest,
         SendResultCheck, HandleResult, SendResultReply, vars

\* The application is asked of a goal when its entry is made.
LEMMA AnsweredStep == IInv /\ AnsweredInv /\ [Next]_vars => AnsweredInv'
  <1> SUFFICES ASSUME IInv, AnsweredInv, [Next]_vars, NEW v \in UUIDs, answer'[v] # "none"
               PROVE  KeepsOrReplies(v)
    BY DEF AnsweredInv, KeepsOrReplies, Known
  <1>1. CASE Known(store, v)
    <2>1. CASE UNCHANGED vars
      BY <1>1, <2>1 DEF vars, KeepsOrReplies, Known
    <2>2. CASE RemoteStep
      BY <1>1, <2>2 DEF RemoteStep, ClientSends, KeepsOrReplies, Known
    <2> QED
      BY <1>1, <2>1, <2>2, DeliveryKeepsOrReplies, ApplicationKeepsOrReplies DEF Next
  <1>2. CASE answer'[v] = answer[v] /\ ~Known(store, v)
    BY <1>2, RepliesGrow DEF AnsweredInv, KeepsOrReplies
  <1>3. ASSUME NEW u \in UUIDs, ReceiveGoalRequest(u), answer'[v] # answer[v]
        PROVE  KeepsOrReplies(v)
    <2>1. CanStore(store, ActionOf[u], u, "GOAL")
          /\ store' = Stored(store, ActionOf[u], u, requests_id + 1, "GOAL")
      BY <1>3 DEF ReceiveGoalRequest
    <2>2. v = u
      BY <1>3 DEF ReceiveGoalRequest, IInv, TypeOK
    <2>3. /\ store \in MapType /\ ActionOf[u] \in Actions /\ requests_id + 1 \in Nat
          /\ ~Known(store, u)
      BY <2>1, ServerAssumption DEF IInv, TypeOK, MapType, CanStore
    <2> QED
      BY <2>1, <2>2, <2>3, StoreGoalLemma DEF KeepsOrReplies
  <1>4. CASE \A u \in UUIDs : ~ReceiveGoalRequest(u)
    <2>1. answer' = answer
      BY <1>4 DEF Next, RemoteStep, DeliveryStep, ApplicationStep, ClientSends,
                  ReceiveCancelRequest, ReceiveResultRequest, SendResultCheck,
                  HandleResult, vars
    <2> QED
      BY <1>1, <1>2, <2>1
  <1> QED
    BY <1>1, <1>2, <1>3, <1>4

\* As long as no reply of a goal has failed, the result that the application
\* was told is taken is kept in the entry of the goal or has been replied: it
\* is never dropped, whatever requests, cancels and other results come.
THEOREM TakenResultsNotLost == Spec => []TakenResultIsNotLost
  <1>1. Init => AnsweredInv
    BY DEF Init, AnsweredInv
  <1>2. IInv /\ AnsweredInv => TakenResultIsNotLost
    <2> SUFFICES ASSUME IInv, AnsweredInv, NEW u \in UUIDs, NEW r \in Results,
                        <<u, r>> \in GivenResults,
                        result_call[<<u, r>>] \in {"kept", "sent"}, u \notin failed
                 PROVE  \/ Known(store, u) /\ store[u].result = r
                        \/ \E p \in replies : p.uuid = u /\ p.result = r
      BY DEF TakenResultIsNotLost
    <2>1. answer[u] = "accepted"
      BY DEF IInv, QuietInv
    <2>2. CASE Known(store, u)
      BY <2>2 DEF IInv, KeptInv
    <2>3. ASSUME NEW p \in replies, p.uuid = u PROVE p.result = r
      BY <2>3 DEF IInv, TakenResultIsReplied
    <2> QED
      BY <2>1, <2>2, <2>3 DEF AnsweredInv
  <1> QED
    BY <1>1, <1>2, AnsweredStep, InvariantHolds, PTL DEF Spec

-----------------------------------------------------------------------------
(* Who gets the reply when several have asked.                             *)

\* A result reply answers the request for that result that came last.
LastAskerIsAnswered ==
    [][\A p \in replies' \ replies :
          p.id \in asked'[p.uuid] /\ \A id \in asked'[p.uuid] : id <= p.id]_vars

\* A result is asked for once the goal request has been delivered, and the
\* entry, which has the name of its action, keeps the last such request.
LastInv ==
    /\ \A u \in UUIDs : goal_reply[u] # "none" => Delivered(u)
    /\ \A m \in requests : m.kind = "RESULT" => Delivered(m.uuid)
    /\ \A u \in UUIDs : asked[u] # {} => Delivered(u)
    /\ \A u \in UUIDs : Known(store, u) =>
          /\ store[u].action_name = ActionOf[u]
          /\ \A id \in asked[u] : id <= store[u].result_request_id

\* An entry that a step leaves alone, or drops, stays as the invariant says.
LEMMA LastKept ==
    ASSUME NEW u \in UUIDs, LastInv, asked'[u] = asked[u],
           store'[u] = store[u] \/ ~Known(store', u)
    PROVE  Known(store', u) =>
             /\ store'[u].action_name = ActionOf[u]
             /\ \A id \in asked'[u] : id <= store'[u].result_request_id
  BY DEF LastInv, Known

\* The remote clients ask for the results of goals that were delivered.
LEMMA LastClientSends ==
    ASSUME IInv, LastInv, NEW m \in ClientRequests, ClientSends(m)
    PROVE  LastInv'
  <1>1. /\ sent \subseteq sent' /\ requests' \cap sent \subseteq requests
        /\ requests' = requests \cup {m}
        /\ UNCHANGED <<store, goal_reply, asked>>
    BY DEF IInv, ClientSends
  <1>2. \A u \in UUIDs : Delivered(u) => Delivered(u)'
    BY <1>1, DeliveredStays
  <1>3. m.uuid \in UUIDs /\ \A n \in requests : n.uuid \in UUIDs
    BY ServerAssumption DEF IInv, TypeOK, Request
  <1>4. m.kind = "RESULT" => Delivered(m.uuid)
    BY <1>3 DEF ClientSends, LastInv
  <1> QED
    BY <1>1, <1>2, <1>3, <1>4 DEF LastInv, Known

\* A goal whose request is delivered now was never asked about.
LEMMA LastReceiveGoalRequest ==
    ASSUME IInv, LastInv, NEW u \in UUIDs, ReceiveGoalRequest(u)
    PROVE  LastInv'
  <1>1. GoalRequest(u) \in requests /\ requests' = requests \ {GoalRequest(u)}
    BY DEF ReceiveGoalRequest, GoalRequest
  <1>2. ~Delivered(u) /\ ~Known(store, u)
    BY <1>1 DEF IInv, EntryInv, Delivered
  <1>3. /\ store' = Stored(store, ActionOf[u], u, requests_id + 1, "GOAL")
        /\ \A v \in UUIDs : v # u => goal_reply'[v] = goal_reply[v]
        /\ UNCHANGED <<sent, asked>>
    BY <1>2 DEF ReceiveGoalRequest, CanStore, IInv, TypeOK
  <1>4. /\ store'[u] = NewInfo(ActionOf[u], requests_id + 1)
        /\ \A v \in UUIDs : v # u => store'[v] = store[v]
    BY <1>2, <1>3, ServerAssumption, StoreGoalLemma DEF IInv, TypeOK, MapType
  <1>5. Delivered(u)' /\ \A v \in UUIDs : Delivered(v) => Delivered(v)'
    BY <1>1, <1>3 DEF Delivered, IInv, GoalRequest
  <1>6. asked[u] = {}
    BY <1>2 DEF LastInv
  <1>7. \A n \in requests : n.uuid \in UUIDs
    BY DEF IInv, TypeOK, Request
  <1>8. store'[u].action_name = ActionOf[u]
    BY <1>4 DEF NewInfo
  <1>9. \A v \in UUIDs : v # u => (Known(store', v) =>
             /\ store'[v].action_name = ActionOf[v]
             /\ \A id \in asked'[v] : id <= store'[v].result_request_id)
    BY <1>3, <1>4, LastKept
  <1> QED
    BY <1>1, <1>3, <1>5, <1>6, <1>7, <1>8, <1>9 DEF LastInv, Known

\* A cancel request leaves the entries alone.
LEMMA LastReceiveCancelRequest ==
    ASSUME IInv, LastInv, NEW u \in UUIDs, ReceiveCancelRequest(u)
    PROVE  LastInv'
  <1>1. requests' \subseteq requests /\ UNCHANGED <<store, sent, goal_reply, asked>>
    BY DEF ReceiveCancelRequest, HasGoalId
  <1>2. \A v \in UUIDs : Delivered(v) => Delivered(v)'
    BY <1>1, DeliveredStays
  <1>3. \A n \in requests : n.uuid \in UUIDs
    BY DEF IInv, TypeOK, Request
  <1> QED
    BY <1>1, <1>2, <1>3 DEF LastInv, Known

\* A request for a result is the last one, and its identifier the largest.
LEMMA LastReceiveResultRequest ==
    ASSUME IInv, LastInv, NEW u \in UUIDs, ReceiveResultRequest(u)
    PROVE  /\ LastInv'
           /\ \A p \in replies' \ replies :
                 \A id \in asked'[p.uuid] : id <= p.id
  <1> DEFINE id == requests_id + 1
             stored == Stored(store, ActionOf[u], u, id, "RESULT")
  <1>1. PICK m \in requests :
          /\ m.kind = "RESULT" /\ m.uuid = u
          /\ requests' = requests \ {m}
          /\ asked' = [asked EXCEPT ![u] = @ \cup {id}]
          /\ IF CanStore(store, ActionOf[u], u, "RESULT")
             THEN IF stored[u].result = NoResult
                  THEN store' = stored /\ UNCHANGED <<replies, failed>>
                  ELSE SendResultReply(stored, u, id, stored[u].result)
             ELSE UNCHANGED <<store, replies, failed>>
          /\ UNCHANGED <<sent, answer, goal_reply, result_call, cancels>>
    BY DEF ReceiveResultRequest
  <1>2. \A v \in UUIDs : Delivered(v) => Delivered(v)'
    BY <1>1, DeliveredStays
  <1>3. /\ \A n \in requests : n.uuid \in UUIDs
        /\ store \in MapType /\ requests_id \in Nat /\ ActionOf[u] \in Actions
        /\ asked \in [UUIDs -> SUBSET Nat]
    BY ServerAssumption DEF IInv, TypeOK, Request, MapType
  <1>4. /\ asked'[u] = asked[u] \cup {id}
        /\ \A v \in UUIDs : v # u => asked'[v] = asked[v]
    BY <1>1, <1>3
  <1>5. \A i \in asked'[u] : i <= id
    BY <1>3, <1>4 DEF IInv, AskedInv
  <1>6. Delivered(u)
    BY <1>1 DEF LastInv
  <1>7. CASE ~Known(store, u)
    <2>1. UNCHANGED <<store, replies>>
      BY <1>1, <1>7 DEF CanStore
    <2> QED
      BY <1>1, <1>2, <1>3, <1>4, <1>6, <1>7, <2>1 DEF LastInv, Known
  <1>8. CASE Known(store, u)
    <2>1. CanStore(store, ActionOf[u], u, "RESULT")
      BY <1>8 DEF CanStore, LastInv
    <2>2. /\ stored \in MapType
          /\ stored[u] = [store[u] EXCEPT !.result_request_id = id]
          /\ \A v \in UUIDs : v # u => stored[v] = store[v]
      BY <1>3, <1>8, StoreResultLemma
    <2>3. store[u] \in ActionRequestInfo
      BY <1>3, <1>8 DEF MapType, Known
    <2>4. /\ stored[u].result_request_id = id
          /\ stored[u].action_name = ActionOf[u]
      BY <1>8, <2>2, <2>3 DEF LastInv, ActionRequestInfo
    <2>5. \/ store' = stored /\ replies' = replies
          \/ /\ store' = [stored EXCEPT ![u] = NoEntry]
             /\ replies' = replies \cup {[uuid |-> u, id |-> id, result |-> stored[u].result]}
      BY <1>1, <2>1, <2>2, SendLemma
    <2>6. /\ store'[u] = stored[u] \/ ~Known(store', u)
          /\ \A v \in UUIDs : v # u => store'[v] = store[v]
      BY <2>2, <2>5 DEF MapType, Known
    <2>7. \A v \in UUIDs : v # u => (Known(store', v) =>
             /\ store'[v].action_name = ActionOf[v]
             /\ \A i \in asked'[v] : i <= store'[v].result_request_id)
      BY <1>4, <2>6, LastKept
    <2>8. Known(store', u) =>
             /\ store'[u].action_name = ActionOf[u]
             /\ \A i \in asked'[u] : i <= store'[u].result_request_id
      BY <1>5, <2>4, <2>6
    <2>9. \A p \in replies' \ replies : p.uuid = u /\ p.id = id
      BY <2>5
    <2>10. LastInv'
      BY <1>1, <1>2, <1>3, <1>4, <1>6, <2>7, <2>8 DEF LastInv
    <2> QED
      BY <1>5, <2>9, <2>10
  <1> QED
    BY <1>7, <1>8

\* A result goes to the request that the entry keeps.
LEMMA LastHandleResult ==
    ASSUME IInv, LastInv, NEW u \in UUIDs, NEW r \in Results, HandleResult(u, r)
    PROVE  /\ LastInv'
           /\ \A p \in replies' \ replies :
                 \A id \in asked'[p.uuid] : id <= p.id
  <1>1. UNCHANGED <<requests, sent, goal_reply, asked>>
    BY DEF HandleResult
  <1>2. \A v \in UUIDs : Delivered(v)' = Delivered(v)
    BY <1>1 DEF Delivered
  <1>3. /\ \A n \in requests : n.uuid \in UUIDs
        /\ store \in MapType
    BY DEF IInv, TypeOK, Request, MapType
  <1>4. SUFFICES /\ \A v \in UUIDs : Known(store', v) =>
                       /\ store'[v].action_name = ActionOf[v]
                       /\ \A id \in asked[v] : id <= store'[v].result_request_id
                 /\ \A p \in replies' \ replies :
                       \A id \in asked[p.uuid] : id <= p.id
    BY <1>1, <1>2, <1>3 DEF LastInv
  <1>5. CASE UNCHANGED <<store, replies>>
    BY <1>5 DEF LastInv, Known
  <1>6. CASE Known(store, u) /\ store' = ResultSet(store, u, r) /\ replies' = replies
    <2>1. store[u] \in ActionRequestInfo
      BY <1>3, <1>6 DEF MapType, Known
    <2>2. store'[u] = [store[u] EXCEPT !.result = r]
      BY <1>3, <1>6 DEF ResultSet, MapType
    <2>3. /\ store'[u].action_name = store[u].action_name
          /\ store'[u].result_request_id = store[u].result_request_id
      BY <2>1, <2>2 DEF ActionRequestInfo
    <2>4. \A v \in UUIDs : v # u => store'[v] = store[v]
      BY <1>3, <1>6 DEF ResultSet, MapType
    <2> QED
      BY <1>6, <2>3, <2>4 DEF LastInv, Known
  <1>7. CASE /\ Known(store, u)
             /\ replies' = replies \cup
                   {[uuid |-> u, id |-> store[u].result_request_id, result |-> r]}
             /\ store' = [store EXCEPT ![u] = NoEntry]
    <2>1. ~Known(store', u) /\ \A v \in UUIDs : v # u => store'[v] = store[v]
      BY <1>3, <1>7 DEF MapType, Known
    <2>2. \A p \in replies' \ replies : p.uuid = u /\ p.id = store[u].result_request_id
      BY <1>7
    <2> QED
      BY <1>7, <2>1, <2>2 DEF LastInv, Known
  <1> QED
    BY <1>5, <1>6, <1>7, HandleResultCases

\* Every step keeps the invariant, and its reply goes to the last who asked.
LEMMA LastStep ==
    ASSUME IInv, LastInv, [Next]_vars
    PROVE  /\ LastInv'
           /\ \A p \in replies' \ replies :
                 \A id \in asked'[p.uuid] : id <= p.id
  <1>1. CASE UNCHANGED vars
    BY <1>1 DEF vars, LastInv, Delivered, Known
  <1>2. ASSUME NEW m \in ClientRequests, ClientSends(m)
        PROVE  LastInv' /\ replies' = replies
    BY <1>2, LastClientSends DEF ClientSends
  <1>3. ASSUME NEW u \in UUIDs, ReceiveGoalRequest(u)
        PROVE  LastInv' /\ replies' = replies
    BY <1>3, LastReceiveGoalRequest DEF ReceiveGoalRequest
  <1>4. ASSUME NEW u \in UUIDs, ReceiveCancelRequest(u)
        PROVE  LastInv' /\ replies' = replies
    BY <1>4, LastReceiveCancelRequest DEF ReceiveCancelRequest
  <1>5. ASSUME NEW u \in UUIDs, NEW r \in Results, SendResultCheck(u, r)
        PROVE  LastInv' /\ replies' = replies
    BY <1>5 DEF SendResultCheck, LastInv, Delivered, Known
  <1> QED
    BY <1>1, <1>2, <1>3, <1>4, <1>5, LastReceiveResultRequest, LastHandleResult
    DEF Next, RemoteStep, DeliveryStep, ApplicationStep

\* Of several requests for the result of a goal it is the last that the reply
\* answers, whether the result or the request comes second and whatever calls
\* and deliveries have met in between: what set_result_request keeps is never
\* an older one.
THEOREM LastAskersAnswered == Spec => LastAskerIsAnswered
  <1>1. Init => LastInv
    BY DEF Init, LastInv, Known
  <1>2. IInv /\ IInv' /\ LastInv /\ [Next]_vars =>
          [\A p \in replies' \ replies :
             p.id \in asked'[p.uuid] /\ \A id \in asked'[p.uuid] : id <= p.id]_vars
    <2> SUFFICES ASSUME IInv, IInv', LastInv, [Next]_vars, NEW p \in replies' \ replies
                 PROVE  p.id \in asked'[p.uuid] /\ \A id \in asked'[p.uuid] : id <= p.id
      OBVIOUS
    <2> QED
      BY LastStep DEF IInv, ReplyInv
  <1>3. IInv /\ LastInv /\ [Next]_vars => LastInv'
    BY LastStep
  <1> QED
    BY <1>1, <1>2, <1>3, InvariantHolds, PTL DEF Spec, LastAskerIsAnswered

=============================================================================

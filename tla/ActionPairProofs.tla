--------------------------- MODULE ActionPairProofs ---------------------------
(***************************************************************************)
(* Theorems about ActionPair, for any goals, results and ways to end.      *)
(*                                                                         *)
(* Every step of the pair is a step of the client or leaves it as it is,   *)
(* so that its invariant holds here.  ServerInv is about the server's end, *)
(* where a goal has a reply once its entry has left; VerdictInv and        *)
(* FollowUpInv follow what the client has heard back to what the server's  *)
(* application has said and given.                                         *)
(***************************************************************************)
EXTENDS ActionPair, ActionClientProofs

-----------------------------------------------------------------------------
(* The invariants.                                                         *)

\* The requests that the server's enabler has taken from the network.
Delivered(u) == [kind |-> "GOAL", uuid |-> u] \in sent \ requests

Replied(u) == \E p \in replies : p.uuid = u

\* The identifiers of the result requests, all drawn from the counter.
AskedInv ==
    /\ \A u \in UUIDs : \A id \in asked[u] : id <= s_requests_id
    /\ \A u, v \in UUIDs : \A id \in asked[u] \cap asked[v] : u = v

\* An entry of the server's map is of a goal that was asked for, has no
\* reply yet and holds a result only if it was taken.
ServerEntryInv ==
    \A u \in UUIDs : Known(s_store, u) =>
        /\ Delivered(u)
        /\ ~Replied(u)
        /\ s_store[u].action_name = ActionOf[u]
        /\ s_store[u].result_request_id # 0 => s_store[u].result_request_id \in asked[u]
        /\ s_store[u].result # NoResult =>
              /\ <<u, s_store[u].result>> \in GivenResults
              /\ result_call[<<u, s_store[u].result>>] = "kept"

\* What the server's application has said of a goal, and given, comes after
\* the goal's request, and its enabler serves what it has accepted until it
\* has replied.
AnswerInv ==
    \A u \in UUIDs :
        /\ ~Delivered(u) => answer[u] = "none"
        /\ answer[u] = "accepted" => Known(s_store, u) \/ Replied(u)
        /\ \A r \in Results :
              <<u, r>> \in GivenResults /\ answer[u] # "accepted"
                  => result_call[<<u, r>>] = "idle"

\* A goal has one reply, with a result that was taken.
ReplyInv ==
    /\ \A p \in replies :
          /\ Delivered(p.uuid)
          /\ p.id \in asked[p.uuid]
          /\ <<p.uuid, p.result>> \in GivenResults
          /\ result_call[<<p.uuid, p.result>>] \in {"kept", "sent"}
    /\ \A p, q \in replies : p.uuid = q.uuid => p = q

ServerTypeOK ==
    /\ s_store \in MapType
    /\ s_requests_id \in Nat
    /\ answer \in [UUIDs -> {"none", "accepted", "rejected"}]
    /\ result_call \in [GivenResults -> {"idle", "checked", "kept", "sent", "refused"}]
    /\ asked \in [UUIDs -> SUBSET Nat]
    /\ replies \subseteq [uuid : UUIDs, id : Nat, result : Results]

ServerInv == /\ ServerTypeOK
             /\ requests \subseteq sent
             /\ AskedInv
             /\ ServerEntryInv
             /\ AnswerInv
             /\ ReplyInv

\* The reply of a goal carries what the server's application said of it, and
\* nothing was notified of the goal before.
VerdictInv ==
    \A m \in net : m.kind \in GoalKinds =>
        /\ reply_notes[m.uuid] = {}
        /\ m.kind = "goal_reply" => m.body = answer[m.uuid] /\ m.body \in {"accepted", "rejected"}

\* The client has asked for the result only of what was accepted, and it has
\* or is about to hear of a result only of what was replied.
FollowUpInv ==
    /\ \A g \in UUIDs : Known(store, g) /\ store[g].result_request_id # 0
                           => answer[g] = "accepted"
    /\ \A g \in UUIDs : result_replies[g] # 0 => Replied(g)
    /\ \A m \in net : m.kind = "result_reply" => Replied(m.uuid)

PairInv == IInv /\ ServerInv /\ VerdictInv /\ FollowUpInv

-----------------------------------------------------------------------------
(* The map of the server's enabler is of the same kind as the client's.    *)

\* Stated of S, the operators on the map are those that were proved about.
LEMMA SameMap ==
    /\ \A f, u : S!Known(f, u) <=> Known(f, u)
    /\ \A f, n, u : S!IsActive(f, n, u) <=> IsActive(f, n, u)
    /\ \A f, n, u, type : S!CanStore(f, n, u, type) <=> CanStore(f, n, u, type)
    /\ \A f, n, u, id, type : S!Stored(f, n, u, id, type) = Stored(f, n, u, id, type)
    /\ \A f, u, reason : S!Erased(f, u, reason) = Erased(f, u, reason)
  <1>1. /\ \A f, u : S!Known(f, u) <=> Known(f, u)
        /\ \A f, n, u : S!IsActive(f, n, u) <=> IsActive(f, n, u)
        /\ \A f, n, u, type : S!CanStore(f, n, u, type) <=> CanStore(f, n, u, type)
    BY DEF S!Known, Known, S!IsActive, IsActive, S!CanStore, CanStore
  <1>2. \A f, n, u, id, type : S!Stored(f, n, u, id, type) = Stored(f, n, u, id, type)
    BY DEF S!Stored, Stored, S!NewInfo, NewInfo, S!SetRequest, SetRequest
  <1>3. \A f, u, reason : S!Erased(f, u, reason) = Erased(f, u, reason)
    BY DEF S!Erased, Erased, S!EraseInfo, EraseInfo, S!Mark, Mark
  <1> QED
    BY <1>1, <1>2, <1>3

\* The two outcomes of sending a result reply.
LEMMA SendLemma ==
    ASSUME NEW f \in MapType, NEW u \in UUIDs, NEW id, NEW r,
           S!SendResultReply(f, u, id, r)
    PROVE  \/ /\ replies' = replies \cup {[uuid |-> u, id |-> id, result |-> r]}
              /\ s_store' = [f EXCEPT ![u] = NoEntry]
           \/ /\ s_store' = f
              /\ replies' = replies
  BY SameMap, EraseForcedLemma DEF S!SendResultReply

-----------------------------------------------------------------------------
(* The server's end.                                                       *)

\* A goal request that has been delivered is never in flight again.
LEMMA DeliveredStays ==
    ASSUME NEW u, Delivered(u), sent \subseteq sent', requests' \cap sent \subseteq requests
    PROVE  Delivered(u)'
  BY DEF Delivered

\* The server's invariant holds initially.
LEMMA ServerInit == S!Init => ServerInv
  <1> SUFFICES ASSUME S!Init PROVE ServerInv
    OBVIOUS
  <1>1. ServerTypeOK /\ \A u \in UUIDs : ~Known(s_store, u)
    BY DEF S!Init, ServerTypeOK, MapType, Known
  <1> QED
    BY <1>1 DEF S!Init, ServerInv, AskedInv, ServerEntryInv, AnswerInv, ReplyInv

\* What the steps of the client leave.
LEMMA ServerRests == ServerInv /\ UNCHANGED server => ServerInv'
  BY DEF server, ServerInv, ServerTypeOK, AskedInv, ServerEntryInv, AnswerInv, ReplyInv,
         Delivered, Replied, Known

\* A reply is the first of its goal.
RepliesOnce == /\ replies \subseteq replies'
               /\ \A p \in replies' \ replies : ~Replied(p.uuid)

\* A request that is sent changes nothing of the enabler.
LEMMA ServerSends ==
    ASSUME ServerInv, NEW m, S!ClientSends(m)
    PROVE  ServerInv' /\ RepliesOnce /\ answer' = answer
  <1>1. /\ sent \subseteq sent' /\ requests' \cap sent \subseteq requests
        /\ requests' \subseteq sent'
        /\ UNCHANGED <<s_store, s_requests_id, answer, result_call, asked, replies>>
    BY DEF ServerInv, S!ClientSends
  <1>2. \A u : Delivered(u) => Delivered(u)'
    BY <1>1, DeliveredStays
  <1>3. ServerTypeOK' /\ AskedInv' /\ RepliesOnce
    BY <1>1 DEF ServerInv, ServerTypeOK, AskedInv, RepliesOnce
  <1>4. ServerEntryInv' /\ AnswerInv' /\ ReplyInv'
    BY <1>1, <1>2 DEF ServerInv, ServerEntryInv, AnswerInv, ReplyInv, Replied, Known
  <1> QED
    BY <1>1, <1>3, <1>4 DEF ServerInv


\* A goal request opens the entry of a goal that nothing is known of.
LEMMA ServerTakesGoalRequest ==
    ASSUME ServerInv, NEW u \in UUIDs, S!ReceiveGoalRequest(u)
    PROVE  /\ ServerInv'
           /\ replies' = replies
           /\ answer[u] = "none"
           /\ answer'[u] \in {"accepted", "rejected"}
           /\ \A v \in UUIDs : v # u => answer'[v] = answer[v]
  <1> DEFINE id == s_requests_id + 1
             m == [kind |-> "GOAL", uuid |-> u]
  <1>1. m \in requests /\ requests' = requests \ {m}
    BY DEF S!ReceiveGoalRequest
  <1>2. ~Delivered(u) /\ ~Known(s_store, u)
    BY <1>1 DEF ServerInv, ServerEntryInv, Delivered
  <1>3. /\ s_store' = Stored(s_store, ActionOf[u], u, id, "GOAL")
        /\ \E a \in {"accepted", "rejected"} : answer' = [answer EXCEPT ![u] = a]
        /\ s_requests_id' = id
        /\ UNCHANGED <<sent, result_call, asked, replies>>
    BY <1>2, SameMap DEF S!ReceiveGoalRequest, CanStore
  <1>4. /\ answer' \in [UUIDs -> {"none", "accepted", "rejected"}]
        /\ answer'[u] \in {"accepted", "rejected"}
        /\ \A v \in UUIDs : v # u => answer'[v] = answer[v]
    BY <1>3 DEF ServerInv, ServerTypeOK
  <1>5. ActionOf[u] \in Actions /\ s_store \in MapType /\ s_requests_id \in Nat /\ id \in Nat
    BY ClientAssumption DEF ServerInv, ServerTypeOK
  <1>6. /\ s_store'[u] = NewInfo(ActionOf[u], id)
        /\ \A v \in UUIDs : v # u => s_store'[v] = s_store[v]
    BY <1>2, <1>3, <1>5, StoreGoalLemma
  <1>7. s_store'[u].result = NoResult /\ s_store'[u].result_request_id = 0
        /\ s_store'[u].action_name = ActionOf[u]
    BY <1>6 DEF NewInfo
  <1>8. s_store' \in MapType
    BY <1>3, <1>5, StoredLemma
  <1>9. Known(s_store', u)
    BY <1>2, <1>3, <1>5, StoreGoalLemma
  <1>10. Delivered(u)' /\ \A v \in UUIDs : Delivered(v) => Delivered(v)'
    <2>1. m \notin requests' /\ m \in sent' /\ requests' \subseteq requests
      BY <1>1, <1>3 DEF ServerInv
    <2> QED
      BY <2>1, <1>3 DEF Delivered
  <1>11. /\ ~Replied(u)
         /\ answer[u] = "none"
         /\ \A r \in Results : <<u, r>> \in GivenResults => result_call[<<u, r>>] = "idle"
    <2>1. ~Replied(u)
      BY <1>2 DEF ServerInv, ReplyInv, Replied
    <2>2. answer[u] = "none"
      BY <1>2 DEF ServerInv, AnswerInv
    <2> QED
      BY <2>1, <2>2 DEF ServerInv, AnswerInv
  <1>12. ServerTypeOK'
    BY <1>3, <1>4, <1>5, <1>8 DEF ServerInv, ServerTypeOK
  <1>13. AskedInv'
    <2>1. \A v \in UUIDs : asked[v] \subseteq Nat
      BY DEF ServerInv, ServerTypeOK
    <2> QED
      BY <1>3, <1>5, <2>1 DEF ServerInv, AskedInv
  <1>14. ServerEntryInv'
    <2> SUFFICES ASSUME NEW v \in UUIDs, Known(s_store', v)
                 PROVE  /\ Delivered(v)'
                        /\ ~Replied(v)'
                        /\ s_store'[v].action_name = ActionOf[v]
                        /\ s_store'[v].result_request_id # 0
                              => s_store'[v].result_request_id \in asked'[v]
                        /\ s_store'[v].result # NoResult =>
                              /\ <<v, s_store'[v].result>> \in GivenResults
                              /\ result_call'[<<v, s_store'[v].result>>] = "kept"
      BY DEF ServerEntryInv, Known
    <2>1. CASE v = u
      BY <2>1, <1>3, <1>7, <1>10, <1>11 DEF Replied
    <2>2. CASE v # u
      <3>1. s_store'[v] = s_store[v] /\ Known(s_store, v)
        BY <2>2, <1>6 DEF Known
      <3> QED
        BY <3>1, <1>3, <1>10 DEF ServerInv, ServerEntryInv, Replied
    <2> QED
      BY <2>1, <2>2
  <1>15. AnswerInv'
    <2> SUFFICES ASSUME NEW v \in UUIDs
                 PROVE  /\ ~Delivered(v)' => answer'[v] = "none"
                        /\ answer'[v] = "accepted" => Known(s_store', v) \/ Replied(v)'
                        /\ \A r \in Results :
                              <<v, r>> \in GivenResults /\ answer'[v] # "accepted"
                                  => result_call'[<<v, r>>] = "idle"
      BY DEF AnswerInv, Known
    <2>1. CASE v = u
      BY <2>1, <1>3, <1>9, <1>10, <1>11
    <2>2. CASE v # u
      <3>1. answer'[v] = answer[v] /\ s_store'[v] = s_store[v]
        BY <2>2, <1>4, <1>6
      <3> QED
        BY <3>1, <1>3, <1>10 DEF ServerInv, AnswerInv, Replied, Known
    <2> QED
      BY <2>1, <2>2
  <1>16. ReplyInv'
    <2>1. \A p \in replies : p.uuid \in UUIDs
      BY DEF ServerInv, ServerTypeOK
    <2> QED
      BY <1>3, <1>10, <2>1 DEF ServerInv, ReplyInv
  <1>17. requests' \subseteq sent'
    BY <1>1, <1>3 DEF ServerInv
  <1> QED
    BY <1>3, <1>4, <1>11, <1>12, <1>13, <1>14, <1>15, <1>16, <1>17 DEF ServerInv

\* A cancel request changes no entry: its goal is not found in the payload.
LEMMA ServerTakesCancelRequest ==
    ASSUME ServerInv, NEW u \in UUIDs, S!ReceiveCancelRequest(u)
    PROVE  ServerInv' /\ RepliesOnce /\ answer' = answer
  <1>1. /\ requests' \subseteq requests
        /\ s_requests_id' = s_requests_id + 1
        /\ UNCHANGED <<sent, answer, result_call, asked, replies>>
    BY DEF S!ReceiveCancelRequest
  <1>2. s_store' = s_store
    BY DEF S!ReceiveCancelRequest, S!HasGoalId
  <1>3. \A v \in UUIDs : Delivered(v) => Delivered(v)'
    BY <1>1, DeliveredStays
  <1>4. /\ \A p \in replies : p.uuid \in UUIDs
        /\ \A v \in UUIDs : asked[v] \subseteq Nat
        /\ s_requests_id \in Nat
    BY DEF ServerInv, ServerTypeOK
  <1>5. AskedInv' /\ ServerTypeOK' /\ RepliesOnce
    BY <1>1, <1>2, <1>4 DEF ServerInv, AskedInv, ServerTypeOK, RepliesOnce
  <1>6. ServerEntryInv' /\ AnswerInv' /\ ReplyInv'
    BY <1>1, <1>2, <1>3, <1>4
    DEF ServerInv, ServerEntryInv, AnswerInv, ReplyInv, Known, Replied
  <1>7. requests' \subseteq sent'
    BY <1>1 DEF ServerInv
  <1> QED
    BY <1>1, <1>5, <1>6, <1>7 DEF ServerInv

\* What a result request does to the bookkeeping, whatever becomes of it.
LEMMA AskedFacts ==
    ASSUME ServerInv, NEW u \in UUIDs, S!ReceiveResultRequest(u)
    PROVE  /\ requests' \subseteq sent'
           /\ s_requests_id' = s_requests_id + 1
           /\ UNCHANGED <<sent, answer, result_call>>
           /\ AskedInv'
           /\ asked' \in [UUIDs -> SUBSET Nat]
           /\ s_requests_id + 1 \in asked'[u]
           /\ \A v \in UUIDs : asked[v] \subseteq asked'[v]
           /\ \A v \in UUIDs : Delivered(v) => Delivered(v)'
  <1>1. /\ requests' \subseteq requests
        /\ s_requests_id' = s_requests_id + 1
        /\ asked' = [asked EXCEPT ![u] = @ \cup {s_requests_id + 1}]
        /\ UNCHANGED <<sent, answer, result_call>>
    BY DEF S!ReceiveResultRequest
  <1>2. /\ s_requests_id \in Nat
        /\ \A v \in UUIDs : asked[v] \subseteq Nat
        /\ asked'[u] = asked[u] \cup {s_requests_id + 1}
        /\ \A v \in UUIDs : v # u => asked'[v] = asked[v]
    BY <1>1 DEF ServerInv, ServerTypeOK
  <1>3. \A v \in UUIDs : Delivered(v) => Delivered(v)'
    BY <1>1, DeliveredStays
  <1>4. AskedInv'
    BY <1>1, <1>2 DEF ServerInv, AskedInv
  <1>5. asked' \in [UUIDs -> SUBSET Nat]
    BY <1>1, <1>2 DEF ServerInv, ServerTypeOK
  <1> QED
    BY <1>1, <1>2, <1>3, <1>4, <1>5 DEF ServerInv

\* An entry leaves with the reply of its goal, the first one, and what the
\* reply carries was taken.  The step may keep the call that gave it.
LEMMA ServerReplies ==
    ASSUME ServerInv, ServerTypeOK', AskedInv', requests' \subseteq sent',
           NEW u \in UUIDs, NEW r \in Results, NEW id \in asked'[u], id \in Nat,
           Known(s_store, u), <<u, r>> \in GivenResults,
           result_call'[<<u, r>>] \in {"kept", "sent"},
           \A c \in GivenResults : c # <<u, r>> => result_call'[c] = result_call[c],
           answer[u] = "accepted", answer' = answer,
           \A v \in UUIDs : asked[v] \subseteq asked'[v],
           \A v \in UUIDs : Delivered(v) => Delivered(v)',
           replies' = replies \cup {[uuid |-> u, id |-> id, result |-> r]},
           s_store'[u] = NoEntry, \A v \in UUIDs : v # u => s_store'[v] = s_store[v]
    PROVE  ServerInv' /\ RepliesOnce
  <1> DEFINE p == [uuid |-> u, id |-> id, result |-> r]
  <1>1. p.uuid = u /\ p.id = id /\ p.result = r /\ p \in replies'
    OBVIOUS
  <1>2. \A q \in replies : q.uuid \in UUIDs /\ q.result \in Results
    BY DEF ServerInv, ServerTypeOK
  <1>3. Delivered(u) /\ ~Replied(u)
    BY DEF ServerInv, ServerEntryInv
  <1>4. /\ Replied(u)'
        /\ \A v \in UUIDs : v # u => (Replied(v)' <=> Replied(v))
        /\ RepliesOnce
    BY <1>1, <1>3 DEF Replied, RepliesOnce
  <1>5. \A v \in UUIDs, q \in Results : v # u /\ <<v, q>> \in GivenResults
            => result_call'[<<v, q>>] = result_call[<<v, q>>]
    OBVIOUS
  <1>6. ServerEntryInv'
    <2> SUFFICES ASSUME NEW v \in UUIDs, Known(s_store', v)
                 PROVE  /\ Delivered(v)'
                        /\ ~Replied(v)'
                        /\ s_store'[v].action_name = ActionOf[v]
                        /\ s_store'[v].result_request_id # 0
                              => s_store'[v].result_request_id \in asked'[v]
                        /\ s_store'[v].result # NoResult =>
                              /\ <<v, s_store'[v].result>> \in GivenResults
                              /\ result_call'[<<v, s_store'[v].result>>] = "kept"
      BY DEF ServerEntryInv, Known
    <2>1. v # u /\ s_store'[v] = s_store[v] /\ Known(s_store, v)
      BY DEF Known
    <2>2. s_store[v].result # NoResult => s_store[v].result \in Results
      BY <2>1 DEF ServerInv, ServerTypeOK, MapType, ActionRequestInfo, Known
    <2> QED
      BY <2>1, <2>2, <1>4, <1>5 DEF ServerInv, ServerEntryInv
  <1>7. AnswerInv'
    <2> SUFFICES ASSUME NEW v \in UUIDs
                 PROVE  /\ ~Delivered(v)' => answer'[v] = "none"
                        /\ answer'[v] = "accepted" => Known(s_store', v) \/ Replied(v)'
                        /\ \A q \in Results :
                              <<v, q>> \in GivenResults /\ answer'[v] # "accepted"
                                  => result_call'[<<v, q>>] = "idle"
      BY DEF AnswerInv, Known
    <2>1. CASE v = u
      BY <2>1, <1>3, <1>4
    <2>2. CASE v # u
      <3>1. s_store'[v] = s_store[v]
        BY <2>2
      <3> QED
        BY <2>2, <3>1, <1>4, <1>5 DEF ServerInv, AnswerInv, Known
    <2> QED
      BY <2>1, <2>2
  <1>8. ReplyInv'
    <2>1. ASSUME NEW q \in replies'
          PROVE  /\ Delivered(q.uuid)'
                 /\ q.id \in asked'[q.uuid]
                 /\ <<q.uuid, q.result>> \in GivenResults
                 /\ result_call'[<<q.uuid, q.result>>] \in {"kept", "sent"}
      <3>1. CASE q = p
        BY <3>1, <1>1, <1>3
      <3>2. CASE q \in replies
        <4>1. q.uuid # u
          BY <3>2, <1>3 DEF Replied
        <4> QED
          BY <3>2, <4>1, <1>2, <1>5 DEF ServerInv, ReplyInv
      <3> QED
        BY <3>1, <3>2
    <2>2. \A q, s \in replies' : q.uuid = s.uuid => q = s
      BY <1>1, <1>3 DEF ServerInv, ReplyInv, Replied
    <2> QED
      BY <2>1, <2>2 DEF ReplyInv
  <1> QED
    BY <1>4, <1>6, <1>7, <1>8 DEF ServerInv

\* The same when the entry stays, with no reply.
LEMMA ServerKeeps ==
    ASSUME ServerInv, ServerTypeOK', AskedInv', requests' \subseteq sent',
           NEW u \in UUIDs,
           answer' = answer, replies' = replies,
           \A v \in UUIDs : asked[v] \subseteq asked'[v],
           \A v \in UUIDs : Delivered(v) => Delivered(v)',
           \A c \in GivenResults : \/ result_call'[c] = result_call[c]
                                   \/ result_call[c] \notin {"kept", "sent"} /\ answer[c[1]] = "accepted",
           \A v \in UUIDs : v # u => s_store'[v] = s_store[v],
           Known(s_store, u) <=> Known(s_store', u),
           Known(s_store, u) =>
              /\ s_store'[u].action_name = s_store[u].action_name
              /\ \/ s_store'[u].result_request_id = s_store[u].result_request_id
                 \/ s_store'[u].result_request_id \in asked'[u]
              /\ \/ s_store'[u].result = s_store[u].result
                 \/ /\ <<u, s_store'[u].result>> \in GivenResults
                    /\ result_call'[<<u, s_store'[u].result>>] = "kept"
    PROVE  ServerInv' /\ RepliesOnce
  <1>1. \A p \in replies : p.uuid \in UUIDs /\ p.result \in Results
    BY DEF ServerInv, ServerTypeOK
  <1>2. RepliesOnce /\ \A v \in UUIDs : Replied(v)' <=> Replied(v)
    BY DEF RepliesOnce, Replied
  <1>3. \A v \in UUIDs : Known(s_store', v) <=> Known(s_store, v)
    BY DEF Known
  <1>4. \A v \in UUIDs, q \in Results : <<v, q>> \in GivenResults =>
            \/ result_call'[<<v, q>>] = result_call[<<v, q>>]
            \/ result_call[<<v, q>>] \notin {"kept", "sent"} /\ answer[v] = "accepted"
    <2> TAKE v \in UUIDs, q \in Results
    <2>1. <<v, q>>[1] = v
      OBVIOUS
    <2> QED
      BY <2>1
  <1>5. ServerEntryInv'
    <2> SUFFICES ASSUME NEW v \in UUIDs, Known(s_store', v)
                 PROVE  /\ Delivered(v)'
                        /\ ~Replied(v)'
                        /\ s_store'[v].action_name = ActionOf[v]
                        /\ s_store'[v].result_request_id # 0
                              => s_store'[v].result_request_id \in asked'[v]
                        /\ s_store'[v].result # NoResult =>
                              /\ <<v, s_store'[v].result>> \in GivenResults
                              /\ result_call'[<<v, s_store'[v].result>>] = "kept"
      BY DEF ServerEntryInv, Known
    <2>1. Known(s_store, v)
      BY <1>3
    <2>2. /\ s_store[v].result # NoResult => s_store[v].result \in Results
          /\ Delivered(v) /\ ~Replied(v) /\ s_store[v].action_name = ActionOf[v]
          /\ s_store[v].result_request_id # 0 => s_store[v].result_request_id \in asked[v]
      <3>1. s_store[v] \in ActionRequestInfo
        BY <2>1 DEF ServerInv, ServerTypeOK, MapType, Known
      <3>2. s_store[v].result # NoResult => s_store[v].result \in Results
        BY <3>1 DEF ActionRequestInfo
      <3> QED
        BY <2>1, <3>2 DEF ServerInv, ServerEntryInv
    <2>3. s_store[v].result # NoResult =>
              /\ <<v, s_store[v].result>> \in GivenResults
              /\ result_call'[<<v, s_store[v].result>>] = "kept"
      <3>1. s_store[v].result # NoResult =>
              /\ <<v, s_store[v].result>> \in GivenResults
              /\ result_call[<<v, s_store[v].result>>] = "kept"
        BY <2>1 DEF ServerInv, ServerEntryInv
      <3> QED
        BY <3>1, <2>2, <1>4
    <2>4. CASE v # u
      <3>1. s_store'[v] = s_store[v]
        BY <2>4
      <3> QED
        BY <3>1, <2>2, <2>3, <1>2
    <2>5. CASE v = u
      BY <2>1, <2>2, <2>3, <2>5, <1>2
    <2> QED
      BY <2>4, <2>5
  <1>6. AnswerInv'
    BY <1>2, <1>3, <1>4 DEF ServerInv, AnswerInv
  <1>7. ReplyInv'
    BY <1>1, <1>4 DEF ServerInv, ReplyInv
  <1> QED
    BY <1>2, <1>5, <1>6, <1>7 DEF ServerInv

\* A result request is stored, or answered with the result that was kept.
LEMMA ServerTakesResultRequest ==
    ASSUME ServerInv, NEW u \in UUIDs, S!ReceiveResultRequest(u)
    PROVE  ServerInv' /\ RepliesOnce /\ answer' = answer
  <1> DEFINE id == s_requests_id + 1
             stored == Stored(s_store, ActionOf[u], u, id, "RESULT")
  <1>1. /\ requests' \subseteq sent'
        /\ s_requests_id' = id
        /\ UNCHANGED <<sent, answer, result_call>>
        /\ AskedInv'
        /\ asked' \in [UUIDs -> SUBSET Nat]
        /\ id \in asked'[u]
        /\ \A v \in UUIDs : asked[v] \subseteq asked'[v]
        /\ \A v \in UUIDs : Delivered(v) => Delivered(v)'
    BY AskedFacts
  <1>2. s_store \in MapType /\ ActionOf[u] \in Actions /\ id \in Nat
    BY ClientAssumption DEF ServerInv, ServerTypeOK
  <1>3. /\ answer' \in [UUIDs -> {"none", "accepted", "rejected"}]
        /\ result_call' \in [GivenResults -> {"idle", "checked", "kept", "sent", "refused"}]
        /\ replies \subseteq [uuid : UUIDs, id : Nat, result : Results]
    BY <1>1 DEF ServerInv, ServerTypeOK
  <1>4. ASSUME UNCHANGED <<s_store, replies>>
        PROVE  ServerInv' /\ RepliesOnce
    <2>1. ServerTypeOK'
      BY <1>1, <1>2, <1>3, <1>4 DEF ServerTypeOK
    <2> QED
      BY <1>1, <1>4, <2>1, ServerKeeps
  <1>5. CASE ~CanStore(s_store, ActionOf[u], u, "RESULT")
    <2>1. UNCHANGED <<s_store, replies>>
      BY <1>5, SameMap DEF S!ReceiveResultRequest
    <2> QED
      BY <2>1, <1>1, <1>4
  <1>6. CASE CanStore(s_store, ActionOf[u], u, "RESULT")
    <2>1. Known(s_store, u)
      BY <1>6 DEF CanStore
    <2>2. stored \in MapType
      BY <1>2, StoredLemma
    <2>3. Known(stored, u)
      BY <1>2, <2>1, StoreResultLemma
    <2>4. /\ \A v \in UUIDs : v # u => stored[v] = s_store[v]
          /\ stored[u].result_request_id = id
          /\ stored[u].result = s_store[u].result
          /\ stored[u].action_name = s_store[u].action_name
      <3>1. s_store[u] \in ActionRequestInfo
        BY <1>2, <2>1 DEF MapType, Known
      <3>2. stored[u] = [s_store[u] EXCEPT !.result_request_id = id]
        BY <1>2, <2>1, StoreResultLemma
      <3>3. stored[u].action_name = s_store[u].action_name
        BY <3>1, <3>2 DEF ActionRequestInfo
      <3> QED
        BY <1>2, <2>1, <3>3, StoreResultFields
    <2>5. stored[u].result # NoResult => stored[u].result \in Results
      BY <2>2, <2>3 DEF MapType, Known, ActionRequestInfo
    <2>6. IF stored[u].result = NoResult
          THEN s_store' = stored /\ replies' = replies
          ELSE S!SendResultReply(stored, u, id, stored[u].result)
      BY <1>6, SameMap DEF S!ReceiveResultRequest
    <2> HIDE DEF stored
    <2>7. CASE s_store' = stored /\ replies' = replies
      <3>1. ServerTypeOK'
        BY <1>1, <1>2, <1>3, <2>2, <2>7 DEF ServerTypeOK
      <3> QED
        BY <1>1, <2>1, <2>3, <2>4, <2>7, <3>1, ServerKeeps
    <2>8. CASE /\ stored[u].result # NoResult
               /\ replies' = replies \cup {[uuid |-> u, id |-> id, result |-> stored[u].result]}
               /\ s_store' = [stored EXCEPT ![u] = NoEntry]
      <3> DEFINE r == stored[u].result
      <3>1. r \in Results
        BY <2>5, <2>8
      <3>2. s_store'[u] = NoEntry /\ \A v \in UUIDs : v # u => s_store'[v] = s_store[v]
        BY <2>2, <2>4, <2>8 DEF MapType
      <3>3. s_store' \in MapType
        BY <2>2, <2>8 DEF MapType
      <3>4. ServerTypeOK'
        <4>1. [uuid |-> u, id |-> id, result |-> r] \in [uuid : UUIDs, id : Nat, result : Results]
          BY <1>2, <3>1
        <4>2. replies' \subseteq [uuid : UUIDs, id : Nat, result : Results]
          BY <4>1, <2>8, <1>3
        <4> QED
          BY <1>1, <1>2, <1>3, <3>3, <4>2 DEF ServerTypeOK
      <3>5. <<u, r>> \in GivenResults /\ result_call[<<u, r>>] = "kept"
        BY <2>1, <2>4, <2>8 DEF ServerInv, ServerEntryInv
      <3>6. answer[u] = "accepted"
        BY <3>1, <3>5 DEF ServerInv, AnswerInv
      <3> HIDE DEF r
      <3>7. replies' = replies \cup {[uuid |-> u, id |-> id, result |-> r]}
        BY <2>8 DEF r
      <3>8. result_call'[<<u, r>>] \in {"kept", "sent"}
        BY <1>1, <3>5
      <3> QED
        BY <1>1, <1>2, <2>1, <3>1, <3>2, <3>4, <3>5, <3>6, <3>7, <3>8, ServerReplies
    <2>9. \/ s_store' = stored /\ replies' = replies
          \/ /\ stored[u].result # NoResult
             /\ replies' = replies \cup {[uuid |-> u, id |-> id, result |-> stored[u].result]}
             /\ s_store' = [stored EXCEPT ![u] = NoEntry]
      BY <2>2, <2>6, SendLemma
    <2> QED
      BY <1>1, <2>7, <2>8, <2>9
  <1> QED
    BY <1>5, <1>6

\* A call of send_action_result that begins is of an accepted goal.
LEMMA ServerChecksResult ==
    ASSUME ServerInv, NEW u \in UUIDs, NEW r \in Results, S!SendResultCheck(u, r)
    PROVE  ServerInv' /\ RepliesOnce /\ answer' = answer
  <1>1. /\ UNCHANGED <<s_store, s_requests_id, requests, sent, answer, asked, replies>>
        /\ <<u, r>> \in GivenResults /\ answer[u] = "accepted"
        /\ result_call[<<u, r>>] = "idle"
    BY DEF S!SendResultCheck
  <1>2. /\ result_call' \in [GivenResults -> {"idle", "checked", "kept", "sent", "refused"}]
        /\ \A c \in GivenResults : c # <<u, r>> => result_call'[c] = result_call[c]
    BY <1>1 DEF S!SendResultCheck, ServerInv, ServerTypeOK
  <1>3. ASSUME NEW c \in GivenResults
        PROVE  \/ result_call'[c] = result_call[c]
               \/ result_call[c] \notin {"kept", "sent"} /\ answer[c[1]] = "accepted"
    <2>1. <<u, r>>[1] = u
      OBVIOUS
    <2>2. CASE c # <<u, r>>
      BY <1>2, <2>2
    <2>3. CASE c = <<u, r>>
      <3>1. result_call[c] \notin {"kept", "sent"}
        BY <1>1, <2>3
      <3>2. answer[c[1]] = "accepted"
        BY <1>1, <2>1, <2>3, Zenon
      <3> QED
        BY <3>1, <3>2
    <2> QED
      BY <2>2, <2>3
  <1>4. ServerTypeOK' /\ AskedInv' /\ requests' \subseteq sent'
    BY <1>1, <1>2 DEF ServerInv, ServerTypeOK, AskedInv
  <1>5. \A v \in UUIDs : Delivered(v) => Delivered(v)'
    BY <1>1 DEF Delivered
  <1> QED
    BY <1>1, <1>3, <1>4, <1>5, ServerKeeps

\* A result that is given is refused, kept for the request to come, or sent.
LEMMA ServerHandlesResult ==
    ASSUME ServerInv, NEW u \in UUIDs, NEW r \in Results, S!HandleResult(u, r)
    PROVE  ServerInv' /\ RepliesOnce /\ answer' = answer
  <1>1. /\ UNCHANGED <<s_requests_id, requests, sent, answer, asked>>
        /\ <<u, r>> \in GivenResults
        /\ result_call[<<u, r>>] = "checked"
    BY DEF S!HandleResult
  <1>2. s_store \in MapType /\ result_call \in [GivenResults -> {"idle", "checked", "kept", "sent", "refused"}]
    BY DEF ServerInv, ServerTypeOK
  <1>3. answer[u] = "accepted"
    BY <1>1 DEF ServerInv, AnswerInv
  <1>4. PICK value \in {"refused", "kept", "sent"} :
            result_call' = [result_call EXCEPT ![<<u, r>>] = value]
    BY DEF S!HandleResult, S!Return
  <1>5. /\ result_call' \in [GivenResults -> {"idle", "checked", "kept", "sent", "refused"}]
        /\ result_call'[<<u, r>>] = value
        /\ \A c \in GivenResults : c # <<u, r>> => result_call'[c] = result_call[c]
    BY <1>1, <1>2, <1>4
  <1>6. ASSUME NEW c \in GivenResults
        PROVE  \/ result_call'[c] = result_call[c]
               \/ result_call[c] \notin {"kept", "sent"} /\ answer[c[1]] = "accepted"
    <2>1. <<u, r>>[1] = u
      OBVIOUS
    <2>2. CASE c # <<u, r>>
      BY <1>5, <2>2
    <2>3. CASE c = <<u, r>>
      <3>1. result_call[c] \notin {"kept", "sent"}
        BY <1>1, <2>3
      <3>2. answer[c[1]] = "accepted"
        BY <1>3, <2>1, <2>3, Zenon
      <3> QED
        BY <3>1, <3>2
    <2> QED
      BY <2>2, <2>3
  <1>7. AskedInv' /\ requests' \subseteq sent'
    BY <1>1 DEF ServerInv, AskedInv
  <1>8. \A v \in UUIDs : Delivered(v) => Delivered(v)'
    BY <1>1 DEF Delivered
  <1>9. CASE s_store' = s_store /\ replies' = replies
    <2>1. ServerTypeOK'
      BY <1>1, <1>5, <1>9 DEF ServerInv, ServerTypeOK
    <2> QED
      BY <1>1, <1>6, <1>7, <1>8, <1>9, <2>1, ServerKeeps
  <1>10. CASE /\ Known(s_store, u) /\ replies' = replies /\ value = "kept"
              /\ s_store' = [s_store EXCEPT ![u].result = r]
    <2>1. s_store[u] \in ActionRequestInfo
      BY <1>2, <1>10 DEF MapType, Known
    <2>2. /\ [s_store[u] EXCEPT !.result = r] \in ActionRequestInfo
          /\ s_store'[u] = [s_store[u] EXCEPT !.result = r]
          /\ s_store' \in MapType
          /\ \A v \in UUIDs : v # u => s_store'[v] = s_store[v]
      BY <1>2, <1>10, <2>1 DEF MapType, ActionRequestInfo
    <2>3. /\ s_store'[u].result = r
          /\ s_store'[u].action_name = s_store[u].action_name
          /\ s_store'[u].result_request_id = s_store[u].result_request_id
      BY <2>1, <2>2 DEF ActionRequestInfo
    <2>4. Known(s_store', u)
      BY <2>2, SentinelAssumption DEF Known
    <2>5. ServerTypeOK'
      BY <1>1, <1>5, <1>10, <2>2 DEF ServerInv, ServerTypeOK
    <2>6. <<u, s_store'[u].result>> \in GivenResults /\ result_call'[<<u, s_store'[u].result>>] = "kept"
      BY <1>1, <1>5, <1>10, <2>3
    <2> QED
      BY <1>1, <1>6, <1>7, <1>8, <1>10, <2>2, <2>3, <2>4, <2>5, <2>6, ServerKeeps
  <1>11. CASE /\ Known(s_store, u) /\ s_store[u].result_request_id # 0
              /\ value = "sent"
              /\ replies' = replies \cup
                    {[uuid |-> u, id |-> s_store[u].result_request_id, result |-> r]}
              /\ s_store' = [s_store EXCEPT ![u] = NoEntry]
    <2> DEFINE id == s_store[u].result_request_id
    <2>1. id \in Nat /\ id \in asked'[u]
      BY <1>1, <1>2, <1>11 DEF MapType, ActionRequestInfo, Known, ServerInv, ServerEntryInv
    <2>2. /\ s_store' \in MapType /\ s_store'[u] = NoEntry
          /\ \A v \in UUIDs : v # u => s_store'[v] = s_store[v]
      BY <1>2, <1>11 DEF MapType
    <2> HIDE DEF id
    <2>3. replies' = replies \cup {[uuid |-> u, id |-> id, result |-> r]}
      BY <1>11 DEF id
    <2>4. ServerTypeOK'
      <3>1. [uuid |-> u, id |-> id, result |-> r] \in [uuid : UUIDs, id : Nat, result : Results]
        BY <2>1
      <3> QED
        BY <1>1, <1>5, <2>2, <2>3, <3>1 DEF ServerInv, ServerTypeOK
    <2>5. result_call'[<<u, r>>] \in {"kept", "sent"}
      BY <1>5, <1>11
    <2> QED
      BY <1>1, <1>3, <1>5, <1>7, <1>8, <1>11, <2>1, <2>2, <2>3, <2>4, <2>5, ServerReplies
  <1>12. \/ s_store' = s_store /\ replies' = replies
         \/ /\ Known(s_store, u) /\ replies' = replies /\ value = "kept"
            /\ s_store' = [s_store EXCEPT ![u].result = r]
         \/ /\ Known(s_store, u) /\ s_store[u].result_request_id # 0
            /\ value = "sent"
            /\ replies' = replies \cup
                  {[uuid |-> u, id |-> s_store[u].result_request_id, result |-> r]}
            /\ s_store' = [s_store EXCEPT ![u] = NoEntry]
    <2>1. \A val : S!Return(u, r, val) => val = value
      BY <1>1, <1>2, <1>5 DEF S!Return
    <2>2. CASE ~IsActive(s_store, ActionOf[u], u)
      BY <2>2, SameMap DEF S!HandleResult
    <2>3. CASE IsActive(s_store, ActionOf[u], u) /\ s_store[u].result_request_id # 0
      <3> DEFINE id == s_store[u].result_request_id
      <3>1. /\ S!SendResultReply(s_store, u, id, r)
            /\ S!Return(u, r, IF replies' # replies THEN "sent" ELSE "refused")
        BY <2>3, SameMap DEF S!HandleResult
      <3>2. \/ /\ replies' = replies \cup {[uuid |-> u, id |-> id, result |-> r]}
               /\ s_store' = [s_store EXCEPT ![u] = NoEntry]
            \/ s_store' = s_store /\ replies' = replies
        BY <1>2, <3>1, SendLemma
      <3>3. [uuid |-> u, id |-> id, result |-> r] \notin replies
        <4>1. ~Replied(u)
          BY <2>3 DEF ServerInv, ServerEntryInv, IsActive
        <4>2. [uuid |-> u, id |-> id, result |-> r].uuid = u
          OBVIOUS
        <4> QED
          BY <4>1, <4>2 DEF Replied
      <3>4. replies' # replies => value = "sent"
        BY <2>1, <3>1
      <3> QED
        BY <2>3, <3>2, <3>3, <3>4 DEF IsActive
    <2>4. CASE IsActive(s_store, ActionOf[u], u) /\ s_store[u].result_request_id = 0
      <3>1. /\ replies' = replies
            /\ \/ S!Return(u, r, "kept") /\ s_store' = [s_store EXCEPT ![u].result = r]
               \/ s_store' = s_store
        BY <2>4, SameMap DEF S!HandleResult, S!ResultSet
      <3> QED
        BY <2>1, <2>4, <3>1 DEF IsActive
    <2> QED
      BY <2>2, <2>3, <2>4
  <1> QED
    BY <1>1, <1>9, <1>10, <1>11, <1>12

\* A step of the pair, seen from the server's end.
LEMMA ServerStep ==
    ASSUME ServerInv, [PairNext]_pairVars
    PROVE  ServerInv' /\ RepliesOnce
  <1>1. ASSUME UNCHANGED server PROVE ServerInv' /\ RepliesOnce
    BY <1>1, ServerRests DEF server, RepliesOnce
  <1>2. ASSUME NEW u \in Goals, S!ReceiveGoalRequest(u)
        PROVE  ServerInv' /\ RepliesOnce
    BY <1>2, ServerTakesGoalRequest DEF RepliesOnce, Goals
  <1>3. ASSUME NEW u \in Goals, TakeRequest(u)
        PROVE  ServerInv' /\ RepliesOnce
    BY <1>3, ServerTakesCancelRequest, ServerTakesResultRequest DEF TakeRequest, Goals
  <1>4. ASSUME NEW u \in Goals, NEW r \in Results, GiveResult(u, r) \/ FinishResult(u, r)
        PROVE  ServerInv' /\ RepliesOnce
    BY <1>4, ServerChecksResult, ServerHandlesResult DEF GiveResult, FinishResult, Goals
  <1>5. ASSUME NEW u \in Goals, NEW kind \in DOMAIN Kinds, Carry(u, kind)
        PROVE  ServerInv' /\ RepliesOnce
    BY <1>5, ServerSends DEF Carry
  <1>6. CASE UNCHANGED pairVars
    BY <1>1, <1>6 DEF pairVars
  <1>7. CASE PairNext
    <2>1. ASSUME NEW u \in Goals,
                 ClientCall(u) \/ Finish(u) \/ UpdateStatus(u) \/ CarryResult(u) \/ Deliver(u)
          PROVE  UNCHANGED server
      BY <2>1 DEF ClientCall, Finish, UpdateStatus, CarryResult, Deliver
    <2>2. ASSUME NEW a \in Actions, DeliverStatus(a) PROVE UNCHANGED server
      BY <2>2 DEF DeliverStatus
    <2>3. ASSUME NEW u \in Goals, TakeGoal(u) PROVE ServerInv' /\ RepliesOnce
      BY <2>3, <1>2 DEF TakeGoal
    <2> QED
      BY <1>1, <1>3, <1>4, <1>5, <1>7, <2>1, <2>2, <2>3 DEF PairNext
  <1> QED
    BY <1>6, <1>7

-----------------------------------------------------------------------------
(* The results published for a goal.                                       *)

\* Those in answer to its requests are those of its reply: a reply goes to a
\* request for the result of the same goal.
LEMMA AnswersLemma ==
    ASSUME ServerInv, NEW u \in UUIDs
    PROVE  /\ Answers(u) = {p.result : p \in {q \in replies : q.uuid = u}}
           /\ Answers(u) # {} <=> Replied(u)
  <1>1. \A p \in replies : p.uuid \in UUIDs /\ p.id \in asked[p.uuid]
    BY DEF ServerInv, ServerTypeOK, ReplyInv
  <1>2. {q \in replies : q.id \in asked[u]} = {q \in replies : q.uuid = u}
    BY <1>1 DEF ServerInv, AskedInv
  <1>3. Answers(u) = {p.result : p \in {q \in replies : q.uuid = u}}
    BY <1>2 DEF Answers
  <1>4. Answers(u) # {} <=> {q \in replies : q.uuid = u} # {}
    BY <1>3
  <1> QED
    BY <1>3, <1>4 DEF Replied

\* They are one, taken by the server's enabler.
LEMMA OneAnswer ==
    ASSUME ServerInv, NEW u \in UUIDs, Replied(u)
    PROVE  \E r \in Results : /\ Answers(u) = {r}
                              /\ <<u, r>> \in GivenResults
                              /\ result_call[<<u, r>>] \in {"kept", "sent"}
  <1>1. PICK p \in replies : p.uuid = u
    BY DEF Replied
  <1>2. {q \in replies : q.uuid = u} = {p}
    BY <1>1 DEF ServerInv, ReplyInv
  <1>3. Answers(u) = {p.result}
    BY <1>2, AnswersLemma
  <1> QED
    BY <1>1, <1>3 DEF ServerInv, ServerTypeOK, ReplyInv

\* Once there, they stay what they are.
LEMMA AnswersStay ==
    ASSUME ServerInv, ServerInv', RepliesOnce, NEW u \in UUIDs, Replied(u)
    PROVE  Answers(u)' = Answers(u)
  <1>1. {q \in replies' : q.uuid = u} = {q \in replies : q.uuid = u}
    BY DEF RepliesOnce
  <1>2. Answers(u)' = {p.result : p \in {q \in replies' : q.uuid = u}}
    <2>1. \A p \in replies' : p.uuid \in UUIDs /\ p.id \in asked'[p.uuid]
      BY DEF ServerInv, ServerTypeOK, ReplyInv
    <2>2. {q \in replies' : q.id \in asked'[u]} = {q \in replies' : q.uuid = u}
      BY <2>1 DEF ServerInv, AskedInv
    <2> QED
      BY <2>2 DEF Answers
  <1> QED
    BY <1>1, <1>2, AnswersLemma

-----------------------------------------------------------------------------
(* The client's end.                                                       *)

\* A step of the pair is a step of the client, or one it takes no part in.
LEMMA PairStepIsClientStep == [PairNext]_pairVars => [Next]_vars
  <1> SUFFICES ASSUME [PairNext]_pairVars PROVE [Next]_vars
    OBVIOUS
  <1>1. CASE UNCHANGED pairVars
    BY <1>1 DEF pairVars, client
  <1>2. CASE PairNext
    <2>1. ASSUME NEW u \in Goals, ClientCall(u) PROVE Next
      BY <2>1 DEF ClientCall, SendGoal, Next, ApplicationStep
    <2>2. ASSUME NEW u \in Goals, Finish(u) PROVE Next
      BY <2>2 DEF Finish, Goals, Next, RemoteStep
    <2>3. ASSUME NEW u \in Goals, UpdateStatus(u) PROVE Next
      <3>1. ActionOf[u] \in Actions /\ PublishStatus(ActionOf[u])
        BY <2>3, ClientAssumption DEF UpdateStatus, Goals
      <3> QED
        BY <3>1 DEF Next, RemoteStep
    <2>4. ASSUME NEW u \in Goals, TakeGoal(u) PROVE Next
      BY <2>4 DEF TakeGoal, Goals, Next, RemoteStep
    <2>5. ASSUME NEW u \in Goals, CarryResult(u) PROVE Next
      BY <2>5 DEF CarryResult, Goals, Next, RemoteStep
    <2>6. ASSUME NEW u \in Goals, Deliver(u) PROVE Next
      BY <2>6 DEF Deliver, Goals, Next, DeliveryStep
    <2>7. ASSUME NEW a \in Actions, DeliverStatus(a) PROVE Next
      BY <2>7 DEF DeliverStatus, Next, DeliveryStep
    <2>8. ASSUME NEW u \in Goals, TakeRequest(u) PROVE UNCHANGED vars
      BY <2>8 DEF TakeRequest, client
    <2>9. ASSUME NEW u \in Goals, NEW kind \in DOMAIN Kinds, Carry(u, kind)
          PROVE  UNCHANGED vars
      BY <2>9 DEF Carry, client
    <2>10. ASSUME NEW u \in Goals, NEW r \in Results, GiveResult(u, r) \/ FinishResult(u, r)
           PROVE  UNCHANGED vars
      BY <2>10 DEF GiveResult, FinishResult, client
    <2> QED
      BY <1>2, <2>1, <2>2, <2>3, <2>4, <2>5, <2>6, <2>7, <2>8, <2>9, <2>10 DEF PairNext
  <1> QED
    BY <1>1, <1>2

\* What the delivery of a goal reply does: nothing if it finds no entry,
\* else the client hears, for the first time, what the server has said.
Heard(u) ==
    /\ reply_notes[u] = {}
    /\ \A v \in UUIDs : v # u => reply_notes'[v] = reply_notes[v]
    /\ \/ answer[u] = "rejected" /\ reply_notes'[u] = {"REJECTED"}
       \/ answer[u] = "accepted" /\ "ACCEPTED" \in reply_notes'[u]
    /\ \A n \in net' : n.kind \in GoalKinds => n \in net /\ n.uuid # u
    /\ \A n \in net' : n.kind = "result_reply" => n \in net
    /\ \A v \in UUIDs : v # u => store'[v] = store[v]
    /\ Known(store', u) /\ store'[u].result_request_id # 0 => answer[u] = "accepted"

\* Those are the two things a goal reply can do.
LEMMA GoalReplyOutcome ==
    ASSUME PairInv, NEW u \in Goals, ReceiveGoalReply(u)
    PROVE  /\ result_replies' = result_replies
           /\ \/ UNCHANGED <<store, reply_notes>> /\ net' \subseteq net
              \/ Heard(u)
  <1>1. PICK m \in net :
            /\ m.kind = "goal_reply" /\ m.uuid = u
            /\ \/ GoalReplyOrphaned(m)
               \/ \E g \in UUIDsOf(store, m.id, "GOAL") :
                    GoalReplyRefused(m, g) \/ GoalReplyAccepted(m, g) \/ GoalReplyAborted(m, g)
    BY DEF ReceiveGoalReply
  <1>2. CASE GoalReplyOrphaned(m)
    BY <1>2 DEF GoalReplyOrphaned, enabler
  <1>3. ASSUME NEW g \in UUIDsOf(store, m.id, "GOAL"),
               GoalReplyRefused(m, g) \/ GoalReplyAccepted(m, g) \/ GoalReplyAborted(m, g)
        PROVE  result_replies' = result_replies /\ Heard(u)
    <2>1. IInv /\ VerdictInv
      BY DEF PairInv
    <2>2. /\ g = u /\ g \in UUIDs
          /\ Known(store, u) /\ store[u] \in ActionRequestInfo
          /\ store[u].result_request_id = 0
          /\ \A n \in net \ {m} : n.uuid = u => n.kind \notin GoalKinds
      BY <1>1, <2>1, GoalReplyFacts
    <2>3. reply_notes[u] = {} /\ m.body = answer[u] /\ m.body \in {"accepted", "rejected"}
      BY <1>1, <2>1 DEF VerdictInv, GoalKinds
    <2>4. reply_notes \in [UUIDs -> SUBSET StatusCodes]
      BY <2>1 DEF IInv, TypeOK
    <2>5. CASE GoalReplyRefused(m, g)
      <3>1. /\ m.body # "accepted"
            /\ reply_notes' = Notify(reply_notes, u, "REJECTED")
            /\ net' = net \ {m}
            /\ UNCHANGED <<store, result_replies>>
        BY <2>2, <2>3, <2>5 DEF GoalReplyRefused, enabler
      <3>2. reply_notes'[u] = {"REJECTED"} /\ \A v \in UUIDs : v # u => reply_notes'[v] = reply_notes[v]
        BY <2>2, <2>3, <2>4, <3>1 DEF Notify
      <3>3. answer[u] = "rejected"
        BY <2>3, <3>1
      <3>4. \A n \in net' : n.kind \in GoalKinds => n \in net /\ n.uuid # u
        BY <2>2, <3>1
      <3> QED
        BY <2>2, <2>3, <3>1, <3>2, <3>3, <3>4 DEF Heard
    <2>6. CASE GoalReplyAccepted(m, g)
      <3> DEFINE new == Request("result_request", u, requests_id + 1)
      <3>1. /\ m.body = "accepted"
            /\ reply_notes' = Notify(reply_notes, u, "ACCEPTED")
            /\ net' = (net \ {m}) \cup {new}
            /\ UNCHANGED result_replies
        BY <2>2, <2>6 DEF GoalReplyAccepted
      <3>2. "ACCEPTED" \in reply_notes'[u] /\ \A v \in UUIDs : v # u => reply_notes'[v] = reply_notes[v]
        BY <2>2, <2>4, <3>1 DEF Notify
      <3>3. \A v \in UUIDs : v # u => store'[v] = store[v]
        BY <1>1, <2>1, <2>2, <2>6, AcceptedFacts
      <3>4. new.kind = "result_request"
        BY DEF Request
      <3> HIDE DEF new
      <3>5. \A n \in net' : n.kind \in GoalKinds => n \in net /\ n.uuid # u
        BY <2>2, <3>1, <3>4 DEF GoalKinds
      <3>6. \A n \in net' : n.kind = "result_reply" => n \in net
        BY <3>1, <3>4
      <3> QED
        BY <2>3, <3>1, <3>2, <3>3, <3>5, <3>6 DEF Heard
    <2>7. CASE GoalReplyAborted(m, g)
      <3> DEFINE new == Request("cancel_request", u, requests_id + 2)
      <3>1. /\ m.body = "accepted"
            /\ reply_notes' = [reply_notes EXCEPT ![u] = @ \cup {"ACCEPTED", "ABORTED"}]
            /\ net' \subseteq (net \ {m}) \cup {new}
            /\ UNCHANGED <<store, result_replies>>
        BY <2>2, <2>7 DEF GoalReplyAborted
      <3>2. "ACCEPTED" \in reply_notes'[u] /\ \A v \in UUIDs : v # u => reply_notes'[v] = reply_notes[v]
        BY <2>2, <2>4, <3>1
      <3>4. new.kind = "cancel_request"
        BY DEF Request
      <3> HIDE DEF new
      <3>5. \A n \in net' : n.kind \in GoalKinds => n \in net /\ n.uuid # u
        BY <2>2, <3>1, <3>4 DEF GoalKinds
      <3>6. \A n \in net' : n.kind = "result_reply" => n \in net
        BY <3>1, <3>4
      <3> QED
        BY <2>2, <2>3, <3>1, <3>2, <3>5, <3>6 DEF Heard
    <2> QED
      BY <1>3, <2>5, <2>6, <2>7
  <1> QED
    BY <1>1, <1>2, <1>3

\* What the delivery of a result reply does: the client hears of the result
\* of its goal, once, after it has heard that it was accepted.
LEMMA ResultReplyOutcome ==
    ASSUME PairInv, NEW u \in Goals, ReceiveResultReply(u)
    PROVE  /\ Replied(u) /\ "ACCEPTED" \in reply_notes[u] /\ result_replies[u] = 0
           /\ result_replies' = [result_replies EXCEPT ![u] = 1]
           /\ UNCHANGED reply_notes /\ net' \subseteq net
           /\ \A v \in UUIDs : Known(store', v) =>
                 /\ Known(store, v)
                 /\ store'[v].result_request_id = store[v].result_request_id
  <1>1. PICK m \in net :
            LET found == UUIDsOf(store, m.id, "RESULT") IN
            /\ m.kind = "result_reply" /\ m.uuid = u
            /\ \E g \in IF found = {} THEN UUIDs ELSE found :
                  /\ result_replies' = IF found = {} THEN result_replies
                                     ELSE [result_replies EXCEPT ![g] = @ + 1]
                  /\ store' = Erased(store, g, "RESULT")
            /\ net' = net \ {m}
            /\ UNCHANGED reply_notes
    BY DEF ReceiveResultReply
  <1>2. IInv /\ FollowUpInv
    BY DEF PairInv
  <1>3. UUIDsOf(store, m.id, "RESULT") = {u}
    BY <1>1, <1>2, FindsLemma DEF ReplyFindsItsGoal
  <1>4. /\ result_replies' = [result_replies EXCEPT ![u] = @ + 1]
        /\ store' = Erased(store, u, "RESULT")
    BY <1>1, <1>3
  <1>5. u \in UUIDs /\ store \in MapType /\ result_replies \in [UUIDs -> Nat]
    BY <1>2 DEF IInv, TypeOK, MapType, Goals
  <1>6. /\ Known(store, u) /\ result_replies[u] = 0 /\ "ACCEPTED" \in reply_notes[u]
    BY <1>1, <1>2 DEF IInv, ResultExchange, ResultKinds
  <1>7. Replied(u)
    BY <1>1, <1>2 DEF FollowUpInv
  <1>8. /\ store'[u] = EraseInfo(store[u], "RESULT")
        /\ \A v \in UUIDs : v # u => store'[v] = store[v]
    BY <1>4, <1>5, <1>6 DEF Erased, Known, MapType
  <1>9. store[u] \in ActionRequestInfo
    BY <1>5, <1>6 DEF MapType, Known
  <1>10. Known(store', u) => store'[u].result_request_id = store[u].result_request_id
    BY <1>8, <1>9, EraseResultLemma DEF Known
  <1>11. result_replies' = [result_replies EXCEPT ![u] = 1]
    BY <1>4, <1>5, <1>6
  <1> QED
    BY <1>1, <1>6, <1>7, <1>8, <1>10, <1>11 DEF Known

\* What a status sample does to the map.
LEMMA StatusOutcome ==
    ASSUME IInv, NEW a \in Actions, ReceiveStatus(a)
    PROVE  /\ UNCHANGED <<net, reply_notes, result_replies>>
           /\ \A v \in UUIDs : Known(store', v) =>
                 /\ Known(store, v)
                 /\ store'[v].result_request_id = store[v].result_request_id
  <1>1. UNCHANGED <<net, reply_notes, result_replies>>
    BY DEF ReceiveStatus
  <1>2. ASSUME NEW v \in UUIDs, Known(store', v)
        PROVE  /\ Known(store, v)
               /\ store'[v].result_request_id = store[v].result_request_id
    <2>1. \/ store'[v] = store[v]
          \/ Known(store, v) /\ store'[v] = EraseInfo(store[v], "FINAL_STATUS")
      BY DEF ReceiveStatus, IsActive
    <2>2. CASE Known(store, v) /\ store'[v] = EraseInfo(store[v], "FINAL_STATUS")
      <3>1. store[v] \in ActionRequestInfo
        BY <2>2 DEF IInv, TypeOK, Known
      <3> QED
        BY <1>2, <2>2, <3>1, EraseFinalLemma DEF Known
    <2> QED
      BY <1>2, <2>1, <2>2 DEF Known
  <1> QED
    BY <1>1, <1>2

-----------------------------------------------------------------------------
(* What the client hears is what the server has said.                      *)

\* A step that sends the client nothing new about a goal, nor tells it.
SaysNothing ==
    /\ reply_notes' = reply_notes /\ result_replies' = result_replies
    /\ \A n \in net' : n.kind \in GoalKinds => n \in net
    /\ \A n \in net' : n.kind = "result_reply" => n \in net
    /\ \A v \in UUIDs : Known(store', v) /\ store'[v].result_request_id # 0 =>
          Known(store, v) /\ store[v].result_request_id # 0

\* Such a step keeps the two ends in agreement.
LEMMA QuietPairStep ==
    ASSUME PairInv, RepliesOnce, answer' = answer, SaysNothing
    PROVE  VerdictInv' /\ FollowUpInv'
  <1>1. VerdictInv /\ FollowUpInv
    BY DEF PairInv
  <1>2. \A v : Replied(v) => Replied(v)'
    BY DEF RepliesOnce, Replied
  <1>3. VerdictInv'
    BY <1>1 DEF VerdictInv, SaysNothing
  <1>4. FollowUpInv'
    <2>1. \A g \in UUIDs : Known(store, g)' <=> Known(store', g)
      BY DEF Known
    <2> QED
      BY <1>1, <1>2, <2>1 DEF FollowUpInv, SaysNothing
  <1> QED
    BY <1>3, <1>4

\* The call of the client's application: a goal that it sends is a new one.
LEMMA VerdictClientCall ==
    ASSUME PairInv, RepliesOnce, answer' = answer, NEW u \in Goals, ClientCall(u)
    PROVE  VerdictInv' /\ FollowUpInv'
  <1>1. IInv /\ VerdictInv /\ FollowUpInv /\ u \in UUIDs
    BY DEF PairInv, Goals
  <1>2. CASE SendGoalPublish(u)
    <2> DEFINE new == Request("goal_request", u, requests_id + 1)
    <2>1. /\ net' \subseteq net \cup {new}
          /\ UNCHANGED <<store, reply_notes, result_replies>>
      BY <1>2 DEF SendGoalPublish, notes
    <2>2. new.kind = "goal_request" /\ new.uuid = u
      BY DEF Request
    <2>3. reply_notes[u] = {}
      BY <1>1, <1>2 DEF SendGoalPublish, IInv, CallInv
    <2>4. \A v : Replied(v) => Replied(v)'
      BY DEF RepliesOnce, Replied
    <2> HIDE DEF new
    <2>5. VerdictInv'
      BY <1>1, <2>1, <2>2, <2>3 DEF VerdictInv
    <2>6. FollowUpInv'
      BY <1>1, <2>1, <2>2, <2>4 DEF FollowUpInv, Known
    <2> QED
      BY <2>5, <2>6
  <1>3. CASE SendGoalStore(u)
    <2>1. ~Known(store, u) /\ store \in MapType /\ ActionOf[u] \in Actions /\ goal_rid[u] \in Nat
      BY <1>1, <1>3, ClientAssumption DEF SendGoalStore, IInv, CallInv, TypeOK, MapType
    <2>2. /\ store' = Stored(store, ActionOf[u], u, goal_rid[u], "GOAL")
          /\ UNCHANGED <<net, reply_notes, result_replies>>
      BY <1>3, <2>1 DEF SendGoalStore, CanStore, notes
    <2>3. /\ store'[u] = NewInfo(ActionOf[u], goal_rid[u])
          /\ \A v \in UUIDs : v # u => store'[v] = store[v]
      BY <1>1, <2>1, <2>2, StoreGoalLemma
    <2>4. store'[u].result_request_id = 0
      BY <2>3 DEF NewInfo
    <2>5. \A v \in UUIDs : Known(store', v) /\ store'[v].result_request_id # 0 =>
              Known(store, v) /\ store[v].result_request_id # 0
      BY <2>3, <2>4 DEF Known
    <2> QED
      BY <2>2, <2>5, QuietPairStep DEF SaysNothing
  <1> QED
    BY <1>2, <1>3 DEF ClientCall, SendGoal

\* The server's application is asked once of a goal, before which nothing has
\* been heard of it, and its enabler replies what it says.
LEMMA VerdictTakeGoal ==
    ASSUME PairInv, IInv', NEW u \in Goals, TakeGoal(u)
    PROVE  VerdictInv' /\ FollowUpInv'
  <1>1. IInv /\ ServerInv /\ VerdictInv /\ FollowUpInv /\ u \in UUIDs
    BY DEF PairInv, Goals
  <1>2. /\ replies' = replies
        /\ answer[u] = "none"
        /\ answer'[u] \in {"accepted", "rejected"}
        /\ \A v \in UUIDs : v # u => answer'[v] = answer[v]
    BY <1>1, ServerTakesGoalRequest DEF TakeGoal
  <1>3. PICK m \in net, said \in GoalAnswers :
            /\ m.kind = "goal_request" /\ m.uuid = u
            /\ net' = (net \ {m}) \cup {Reply("goal_reply", m, said, FALSE)}
            /\ UNCHANGED <<enabler, notes>>
    BY DEF TakeGoal, ServerTakesGoal
  <1>4. UNCHANGED <<store, reply_notes, result_replies>>
    BY <1>3 DEF enabler, notes
  <1>5. PICK r \in net' : r.kind = "goal_reply" /\ r.uuid = u /\ r.body = answer'[u]
    BY DEF TakeGoal
  <1>6. reply_notes[u] = {}
    BY <1>1, <1>3 DEF VerdictInv, GoalKinds
  <1>7. \A n \in net' : n.kind \in GoalKinds /\ n.uuid = u => n = r
    BY <1>5 DEF IInv, OneAtATime, GoalKinds
  <1>8. Reply("goal_reply", m, said, FALSE).uuid = u
        /\ Reply("goal_reply", m, said, FALSE).kind = "goal_reply"
    BY <1>3 DEF Reply
  <1>9. \A n \in net' : n.uuid # u \/ n.kind = "result_reply" => n \in net
    BY <1>3, <1>8
  <1>10. \A n \in net' : n.uuid \in UUIDs
    BY DEF IInv, TypeOK, Message
  <1>11. VerdictInv'
    <2> SUFFICES ASSUME NEW n \in net', n.kind \in GoalKinds
                 PROVE  /\ reply_notes'[n.uuid] = {}
                        /\ n.kind = "goal_reply" =>
                              n.body = answer'[n.uuid] /\ n.body \in {"accepted", "rejected"}
      BY DEF VerdictInv
    <2>1. CASE n.uuid = u
      BY <2>1, <1>2, <1>4, <1>5, <1>6, <1>7
    <2>2. CASE n.uuid # u
      BY <2>2, <1>1, <1>2, <1>4, <1>9, <1>10 DEF VerdictInv
    <2> QED
      BY <2>1, <2>2
  <1>12. FollowUpInv'
    <2>1. \A g \in UUIDs : Known(store', g) /\ store'[g].result_request_id # 0
                              => answer'[g] = "accepted"
      <3>1. answer[u] # "accepted"
        BY <1>2
      <3> QED
        BY <1>1, <1>2, <1>4, <3>1 DEF FollowUpInv
    <2> QED
      BY <1>1, <1>2, <1>4, <1>9, <2>1 DEF FollowUpInv, Replied, Known
  <1> QED
    BY <1>11, <1>12

\* A result that is carried is one that was replied.
LEMMA VerdictCarryResult ==
    ASSUME PairInv, RepliesOnce, answer' = answer, NEW u \in Goals, CarryResult(u)
    PROVE  VerdictInv' /\ FollowUpInv'
  <1>1. ServerInv /\ VerdictInv /\ FollowUpInv /\ u \in UUIDs
    BY DEF PairInv, Goals
  <1>2. PICK m \in net :
            /\ m.kind = "result_request" /\ m.uuid = u
            /\ net' = (net \ {m}) \cup {Reply("result_reply", m, "result", FALSE)}
            /\ UNCHANGED <<enabler, notes>>
    BY PairAssumption DEF CarryResult, ServerAnswersResult
  <1> DEFINE new == Reply("result_reply", m, "result", FALSE)
  <1>3. new.kind = "result_reply" /\ new.uuid = u
    BY <1>2 DEF Reply
  <1>4. Replied(u)
    BY <1>1, AnswersLemma DEF CarryResult
  <1>5. UNCHANGED <<store, reply_notes, result_replies>> /\ net' \subseteq net \cup {new}
    BY <1>2 DEF enabler, notes
  <1>6. \A v : Replied(v) => Replied(v)'
    BY DEF RepliesOnce, Replied
  <1> HIDE DEF new
  <1>7. VerdictInv'
    BY <1>1, <1>3, <1>5 DEF VerdictInv, GoalKinds
  <1>8. FollowUpInv'
    BY <1>1, <1>3, <1>4, <1>5, <1>6 DEF FollowUpInv, Known
  <1> QED
    BY <1>7, <1>8

\* A delivery tells the client what the reply was published for.
LEMMA VerdictDeliver ==
    ASSUME PairInv, RepliesOnce, answer' = answer, NEW u \in Goals, Deliver(u)
    PROVE  VerdictInv' /\ FollowUpInv'
  <1>1. IInv /\ VerdictInv /\ FollowUpInv /\ u \in UUIDs
    BY DEF PairInv, Goals
  <1>2. \A v : Replied(v) => Replied(v)'
    BY DEF RepliesOnce, Replied
  <1>3. CASE ReceiveGoalReply(u)
    <2>1. CASE UNCHANGED <<store, reply_notes, result_replies>> /\ net' \subseteq net
      BY <2>1, QuietPairStep DEF SaysNothing
    <2>2. CASE Heard(u) /\ result_replies' = result_replies
      <3>1. \A n \in net : n.uuid \in UUIDs
        BY <1>1 DEF IInv, TypeOK, Message
      <3>2. VerdictInv'
        BY <1>1, <2>2, <3>1 DEF VerdictInv, Heard
      <3>3. FollowUpInv'
        BY <1>1, <1>2, <2>2 DEF FollowUpInv, Heard, Known
      <3> QED
        BY <3>2, <3>3
    <2> QED
      BY <1>3, <2>1, <2>2, GoalReplyOutcome
  <1>4. CASE ReceiveResultReply(u)
    <2>1. /\ Replied(u)
          /\ result_replies' = [result_replies EXCEPT ![u] = 1]
          /\ UNCHANGED reply_notes /\ net' \subseteq net
          /\ \A v \in UUIDs : Known(store', v) =>
                /\ Known(store, v)
                /\ store'[v].result_request_id = store[v].result_request_id
      BY <1>4, ResultReplyOutcome
    <2>2. \A v \in UUIDs : result_replies'[v] # 0 => Replied(v)'
      <3>1. \A v \in UUIDs : v # u => result_replies'[v] = result_replies[v]
        BY <1>1, <2>1 DEF IInv, TypeOK
      <3> QED
        BY <1>1, <1>2, <2>1, <3>1 DEF FollowUpInv
    <2>3. VerdictInv'
      BY <1>1, <2>1 DEF VerdictInv
    <2>4. FollowUpInv'
      BY <1>1, <1>2, <2>1, <2>2 DEF FollowUpInv, Known
    <2> QED
      BY <2>3, <2>4
  <1> QED
    BY <1>3, <1>4 DEF Deliver

\* A step of the pair keeps the invariant.
LEMMA PairInvStep == PairInv /\ [PairNext]_pairVars => PairInv'
  <1> SUFFICES ASSUME PairInv, [PairNext]_pairVars PROVE PairInv'
    OBVIOUS
  <1>1. IInv'
    BY PairStepIsClientStep, InvStep DEF PairInv
  <1>2. ServerInv' /\ RepliesOnce
    BY ServerStep DEF PairInv
  <1>3. VerdictInv' /\ FollowUpInv'
    <2>0. ASSUME UNCHANGED client, answer' = answer PROVE VerdictInv' /\ FollowUpInv'
      BY <1>2, <2>0, QuietPairStep DEF SaysNothing, client, vars
    <2>1. CASE UNCHANGED pairVars
      BY <2>0, <2>1 DEF pairVars, server
    <2>2. ASSUME NEW u \in Goals, ClientCall(u) PROVE VerdictInv' /\ FollowUpInv'
      BY <1>2, <2>2, VerdictClientCall DEF ClientCall, server
    <2>3. ASSUME NEW u \in Goals, Finish(u) \/ UpdateStatus(u)
          PROVE  VerdictInv' /\ FollowUpInv'
      <3>1. UNCHANGED <<store, net, reply_notes, result_replies, answer>>
        BY <2>3 DEF Finish, UpdateStatus, ServerFinishes, PublishStatus, enabler, notes, server
      <3> QED
        BY <1>2, <3>1, QuietPairStep DEF SaysNothing
    <2>4. ASSUME NEW u \in Goals, TakeGoal(u) PROVE VerdictInv' /\ FollowUpInv'
      BY <1>1, <2>4, VerdictTakeGoal
    <2>5. ASSUME NEW u \in Goals, TakeRequest(u) PROVE VerdictInv' /\ FollowUpInv'
      BY <2>0, <2>5 DEF TakeRequest, S!ReceiveResultRequest, S!ReceiveCancelRequest
    <2>6. ASSUME NEW u \in Goals, CarryResult(u) PROVE VerdictInv' /\ FollowUpInv'
      BY <1>2, <2>6, VerdictCarryResult DEF CarryResult, server
    <2>7. ASSUME NEW u \in Goals, Deliver(u) PROVE VerdictInv' /\ FollowUpInv'
      BY <1>2, <2>7, VerdictDeliver DEF Deliver, server
    <2>8. ASSUME NEW u \in Goals, NEW kind \in DOMAIN Kinds, Carry(u, kind)
          PROVE  VerdictInv' /\ FollowUpInv'
      BY <2>0, <2>8 DEF Carry, S!ClientSends
    <2>9. ASSUME NEW u \in Goals, NEW r \in Results, GiveResult(u, r) \/ FinishResult(u, r)
          PROVE  VerdictInv' /\ FollowUpInv'
      BY <2>0, <2>9 DEF GiveResult, FinishResult, S!SendResultCheck, S!HandleResult
    <2>10. ASSUME NEW a \in Actions, DeliverStatus(a) PROVE VerdictInv' /\ FollowUpInv'
      <3>1. /\ UNCHANGED <<net, reply_notes, result_replies>>
            /\ \A v \in UUIDs : Known(store', v) =>
                  /\ Known(store, v)
                  /\ store'[v].result_request_id = store[v].result_request_id
        BY <2>10, StatusOutcome DEF DeliverStatus, PairInv
      <3>2. answer' = answer
        BY <2>10 DEF DeliverStatus, server
      <3> QED
        BY <1>2, <3>1, <3>2, QuietPairStep DEF SaysNothing
    <2> QED
      BY <2>1, <2>2, <2>3, <2>4, <2>5, <2>6, <2>7, <2>8, <2>9, <2>10 DEF PairNext
  <1> QED
    BY <1>1, <1>2, <1>3 DEF PairInv

\* The invariant holds initially.
LEMMA PairInvInit == PairInit => PairInv
  <1> SUFFICES ASSUME PairInit PROVE PairInv
    OBVIOUS
  <1>1. IInv /\ ServerInv
    BY InvInit, ServerInit DEF PairInit
  <1>2. VerdictInv /\ FollowUpInv
    BY DEF PairInit, Init, VerdictInv, FollowUpInv, Known
  <1> QED
    BY <1>1, <1>2 DEF PairInv

-----------------------------------------------------------------------------
(* The theorems.                                                           *)

\* Handler.cpp is one program: what the pair does at the client's end is what
\* the client of ActionClient may do, so that its theorems hold of the pair.
THEOREM PairRunsTheClient == PairSpec => Spec
  <1>1. PairInit => Init
    BY DEF PairInit
  <1> QED
    BY <1>1, PairStepIsClientStep, PTL DEF PairSpec, Spec

\* And what it does at the server's end is what the server of ActionServer
\* may do.
THEOREM PairRunsTheServer == PairSpec => S!Spec
  <1>1. PairInit => S!Init
    BY DEF PairInit
  <1>2. [PairNext]_pairVars => [S!Next]_S!vars
    <2> SUFFICES ASSUME [PairNext]_pairVars PROVE [S!Next]_S!vars
      OBVIOUS
    <2>1. UNCHANGED server => UNCHANGED S!vars
      BY DEF server, S!vars
    <2>2. ASSUME NEW u \in Goals, TakeGoal(u) \/ TakeRequest(u) PROVE S!Next
      BY <2>2 DEF TakeGoal, TakeRequest, Goals, S!Next, S!DeliveryStep
    <2>3. ASSUME NEW u \in Goals, NEW r \in Results, GiveResult(u, r) \/ FinishResult(u, r)
          PROVE  S!Next
      BY <2>3 DEF GiveResult, FinishResult, Goals, S!Next, S!ApplicationStep
    <2>4. ASSUME NEW u \in Goals, NEW kind \in DOMAIN Kinds, Carry(u, kind) PROVE S!Next
      <3>1. Kinds[kind] \in {"GOAL", "RESULT", "CANCEL"}
        BY DEF Kinds
      <3>2. Asks(Kinds[kind], u) \in
                {Asks(k, g) : k \in {"GOAL", "RESULT", "CANCEL"}, g \in Goals}
        BY <3>1
      <3> QED
        BY <2>4, <3>2 DEF Carry, S!Next, S!RemoteStep
    <2>5. ASSUME NEW u \in Goals,
                 ClientCall(u) \/ Finish(u) \/ UpdateStatus(u) \/ CarryResult(u) \/ Deliver(u)
          PROVE  UNCHANGED server
      BY <2>5 DEF ClientCall, Finish, UpdateStatus, CarryResult, Deliver
    <2>6. ASSUME NEW a \in Actions, DeliverStatus(a) PROVE UNCHANGED server
      BY <2>6 DEF DeliverStatus
    <2>7. UNCHANGED pairVars => UNCHANGED server
      BY DEF pairVars
    <2> QED
      BY <2>1, <2>2, <2>3, <2>4, <2>5, <2>6, <2>7 DEF PairNext
  <1> QED
    BY <1>1, <1>2, PTL DEF PairSpec, S!Spec

\* The invariant of the pair.
THEOREM PairInvariantHolds == PairSpec => []PairInv
  BY PairInvInit, PairInvStep, PTL DEF PairSpec

\* A goal whose result the client's enabler waits for is active at the
\* server's, so that the calls about it are taken, until it has its reply.
THEOREM AwaitedGoalsAreServed == PairSpec => []AwaitedGoalIsServed
  <1>1. PairInv => AwaitedGoalIsServed
    <2> SUFFICES ASSUME PairInv, NEW g \in Goals, Awaited(g)
                 PROVE  S!IsActive(s_store, ActionOf[g], g) \/ Answers(g) # {}
      BY DEF AwaitedGoalIsServed
    <2>1. g \in UUIDs /\ ServerInv /\ FollowUpInv
      BY DEF Goals, PairInv
    <2>2. answer[g] = "accepted"
      BY <2>1 DEF Awaited, FollowUpInv
    <2>3. Known(s_store, g) \/ Replied(g)
      BY <2>1, <2>2 DEF ServerInv, AnswerInv
    <2>4. Known(s_store, g) => S!IsActive(s_store, ActionOf[g], g)
      BY <2>1, SameMap DEF ServerInv, ServerEntryInv, IsActive
    <2> QED
      BY <2>1, <2>3, <2>4, AnswersLemma
  <1> QED
    BY <1>1, PairInvariantHolds, PTL

-----------------------------------------------------------------------------
(* The pair implements the exchange of goals and results.                  *)

Offered(g) == {r \in Results : /\ <<g, r>> \in GivenResults
                               /\ result_call[<<g, r>>] \in {"kept", "sent"}}
ToldVerdict(g) == IF "ACCEPTED" \in reply_notes[g] THEN "accepted"
                  ELSE IF "REJECTED" \in reply_notes[g] THEN "rejected" ELSE "none"
ToldResults(g) == IF result_replies[g] = 0 THEN {} ELSE Answers(g)

\* The four parts of the exchange, for every goal.
Verdict == [g \in Goals |-> answer[g]]
Offers == [g \in Goals |-> Offered(g)]
VerdictsTold == [g \in Goals |-> ToldVerdict(g)]
ResultsTold == [g \in Goals |-> ToldResults(g)]

\* The steps of the exchange, in terms of the four parts.
LEMMA ExchangeSteps ==
    /\ UNCHANGED <<Verdict, Offers, VerdictsTold, ResultsTold>> => UNCHANGED Exchange!exchange
    /\ \A g \in Goals :
          ( /\ Verdict[g] = "none"
            /\ \E v \in {"accepted", "rejected"} : Verdict' = [Verdict EXCEPT ![g] = v]
            /\ UNCHANGED <<Offers, VerdictsTold, ResultsTold>> ) => Exchange!Next
    /\ \A g \in Goals, r \in Results :
          ( /\ Verdict[g] = "accepted"
            /\ Offers' = [Offers EXCEPT ![g] = @ \cup {r}]
            /\ UNCHANGED <<Verdict, VerdictsTold, ResultsTold>> ) => Exchange!Next
    /\ \A g \in Goals :
          ( /\ Verdict[g] # "none"
            /\ VerdictsTold[g] = "none"
            /\ VerdictsTold' = [VerdictsTold EXCEPT ![g] = Verdict[g]]
            /\ UNCHANGED <<Verdict, Offers, ResultsTold>> ) => Exchange!Next
    /\ \A g \in Goals, r \in Results :
          ( /\ VerdictsTold[g] = "accepted"
            /\ ResultsTold[g] = {}
            /\ r \in Offers[g]
            /\ ResultsTold' = [ResultsTold EXCEPT ![g] = {r}]
            /\ UNCHANGED <<Verdict, Offers, VerdictsTold>> ) => Exchange!Next
  <1> USE DEF Verdict, Offers, VerdictsTold, ResultsTold, Offered, ToldVerdict, ToldResults
  <1>1. UNCHANGED <<Verdict, Offers, VerdictsTold, ResultsTold>> => UNCHANGED Exchange!exchange
    BY Zenon DEF Exchange!exchange
  <1>2. ASSUME NEW g \in Goals,
               Verdict[g] = "none",
               \E v \in {"accepted", "rejected"} : Verdict' = [Verdict EXCEPT ![g] = v],
               UNCHANGED <<Offers, VerdictsTold, ResultsTold>>
        PROVE  Exchange!Decide(g)
    BY <1>2, Zenon DEF Exchange!Decide, Exchange!Verdicts
  <1>3. ASSUME NEW g \in Goals, NEW r \in Results,
               Verdict[g] = "accepted",
               Offers' = [Offers EXCEPT ![g] = @ \cup {r}],
               UNCHANGED <<Verdict, VerdictsTold, ResultsTold>>
        PROVE  Exchange!Offer(g, r)
    BY <1>3, Zenon DEF Exchange!Offer
  <1>4. ASSUME NEW g \in Goals,
               Verdict[g] # "none",
               VerdictsTold[g] = "none",
               VerdictsTold' = [VerdictsTold EXCEPT ![g] = Verdict[g]],
               UNCHANGED <<Verdict, Offers, ResultsTold>>
        PROVE  Exchange!TellVerdict(g)
    BY <1>4, Zenon DEF Exchange!TellVerdict
  <1>5. ASSUME NEW g \in Goals, NEW r \in Results,
               VerdictsTold[g] = "accepted",
               ResultsTold[g] = {},
               r \in Offers[g],
               ResultsTold' = [ResultsTold EXCEPT ![g] = {r}],
               UNCHANGED <<Verdict, Offers, VerdictsTold>>
        PROVE  Exchange!TellResult(g, r)
    BY <1>5, Zenon DEF Exchange!TellResult
  <1> HIDE DEF Verdict, Offers, VerdictsTold, ResultsTold
  <1> QED
    BY <1>1, <1>2, <1>3, <1>4, <1>5 DEF Exchange!Next

\* What each part of the exchange depends on.
LEMMA SameOffers == result_call' = result_call => Offers' = Offers
  BY DEF Offers, Offered

\* The verdicts told are read off the notifications of replies.
LEMMA SameVerdictsTold == reply_notes' = reply_notes => VerdictsTold' = VerdictsTold
  BY DEF VerdictsTold, ToldVerdict

\* A result that was told is not replied again.
LEMMA SameResultsTold ==
    ASSUME PairInv, PairInv', RepliesOnce, result_replies' = result_replies
    PROVE  ResultsTold' = ResultsTold
  <1>1. ASSUME NEW g \in Goals PROVE ToldResults(g)' = ToldResults(g)
    <2>1. ServerInv /\ ServerInv' /\ g \in UUIDs
      BY DEF PairInv, Goals
    <2>2. CASE result_replies[g] = 0
      BY <2>2 DEF ToldResults
    <2>3. CASE result_replies[g] # 0
      <3>1. Replied(g)
        BY <2>1, <2>3 DEF PairInv, FollowUpInv
      <3>2. Answers(g)' = Answers(g)
        BY <2>1, <3>1, AnswersStay
      <3> QED
        BY <3>2 DEF ToldResults
    <2> QED
      BY <2>2, <2>3
  <1> QED
    BY <1>1 DEF ResultsTold

\* The server's application is asked about a goal: the verdict is given.
LEMMA ExchangeTakeGoal ==
    ASSUME PairInv, PairInv', RepliesOnce, NEW u \in Goals, TakeGoal(u)
    PROVE  Exchange!Next
  <1>1. /\ answer[u] = "none"
        /\ answer'[u] \in {"accepted", "rejected"}
        /\ \A v \in UUIDs : v # u => answer'[v] = answer[v]
    BY ServerTakesGoalRequest DEF TakeGoal, PairInv, Goals
  <1>2. UNCHANGED <<result_call, reply_notes, result_replies>>
    BY DEF TakeGoal, S!ReceiveGoalRequest, ServerTakesGoal, notes
  <1>3. Verdict[u] = "none" /\ Verdict' = [Verdict EXCEPT ![u] = answer'[u]]
    BY <1>1 DEF Verdict, Goals
  <1> QED
    BY <1>1, <1>2, <1>3, SameOffers, SameVerdictsTold, SameResultsTold, ExchangeSteps

\* A result is given: it is offered if it is taken.
LEMMA ExchangeGiveResult ==
    ASSUME PairInv, PairInv', RepliesOnce, NEW u \in Goals, NEW r \in Results,
           GiveResult(u, r) \/ FinishResult(u, r)
    PROVE  Exchange!Next \/ UNCHANGED Exchange!exchange
  <1>1. /\ UNCHANGED <<answer, reply_notes, result_replies>>
        /\ <<u, r>> \in GivenResults
        /\ result_call[<<u, r>>] \in {"idle", "checked"}
        /\ \E value \in {"checked", "refused", "kept", "sent"} :
              result_call' = [result_call EXCEPT ![<<u, r>>] = value]
    BY DEF GiveResult, FinishResult, S!SendResultCheck, S!HandleResult, S!Return, client, vars
  <1>2. UNCHANGED <<Verdict, VerdictsTold, ResultsTold>>
    BY <1>1, SameVerdictsTold, SameResultsTold DEF Verdict
  <1>3. result_call \in [GivenResults -> {"idle", "checked", "kept", "sent", "refused"}]
    BY DEF PairInv, ServerInv, ServerTypeOK
  <1>4. \A v \in UUIDs, q \in Results : <<v, q>> \in GivenResults /\ <<v, q>> # <<u, r>>
            => result_call'[<<v, q>>] = result_call[<<v, q>>]
    BY <1>1, <1>3
  <1>5. \A v \in Goals : v # u => Offered(v)' = Offered(v)
    BY <1>4 DEF Offered, Goals
  <1>6. CASE result_call'[<<u, r>>] \in {"checked", "refused"}
    <2>1. Offered(u)' = Offered(u)
      BY <1>1, <1>4, <1>6 DEF Offered, Goals
    <2>2. Offers' = Offers
      BY <1>5, <2>1 DEF Offers
    <2> QED
      BY <1>2, <2>2, ExchangeSteps
  <1>7. CASE result_call'[<<u, r>>] \in {"kept", "sent"}
    <2>1. Offered(u)' = Offered(u) \cup {r}
      BY <1>1, <1>4, <1>7 DEF Offered, Goals
    <2>2. Offers' = [Offers EXCEPT ![u] = @ \cup {r}]
      BY <1>5, <2>1 DEF Offers
    <2>3. answer[u] = "accepted"
      <3>1. CASE FinishResult(u, r)
        <4>1. result_call[<<u, r>>] = "checked"
          BY <3>1 DEF FinishResult, S!HandleResult
        <4> QED
          BY <1>1, <4>1 DEF PairInv, ServerInv, AnswerInv, Goals
      <3>2. CASE GiveResult(u, r)
        BY <3>2 DEF GiveResult, S!SendResultCheck
      <3> QED
        BY <3>1, <3>2
    <2>4. Verdict[u] = "accepted"
      BY <2>3 DEF Verdict
    <2> QED
      BY <1>2, <2>2, <2>4, ExchangeSteps
  <1>8. result_call'[<<u, r>>] \in {"checked", "refused", "kept", "sent"}
    BY <1>1, <1>3
  <1> QED
    BY <1>6, <1>7, <1>8

\* A delivery tells the verdict, or the result, that the server gave.
LEMMA ExchangeDeliver ==
    ASSUME PairInv, PairInv', RepliesOnce, NEW u \in Goals, Deliver(u)
    PROVE  Exchange!Next \/ UNCHANGED Exchange!exchange
  <1>1. UNCHANGED <<answer, result_call, replies, asked>> /\ u \in UUIDs
    BY DEF Deliver, server, Goals
  <1>2. UNCHANGED <<Verdict, Offers>>
    BY <1>1, SameOffers DEF Verdict
  <1>3. CASE ReceiveGoalReply(u)
    <2>1. result_replies' = result_replies /\ (reply_notes' = reply_notes \/ Heard(u))
      BY <1>3, GoalReplyOutcome
    <2>2. ResultsTold' = ResultsTold
      BY <2>1, SameResultsTold
    <2>3. CASE reply_notes' = reply_notes
      BY <1>2, <2>2, <2>3, SameVerdictsTold, ExchangeSteps
    <2>4. CASE Heard(u)
      <3>1. \A v \in Goals : v # u => ToldVerdict(v)' = ToldVerdict(v)
        BY <2>4 DEF Heard, ToldVerdict, Goals
      <3>2. ToldVerdict(u) = "none" /\ ToldVerdict(u)' = answer[u] /\ answer[u] # "none"
        BY <2>4 DEF Heard, ToldVerdict
      <3>3. VerdictsTold' = [VerdictsTold EXCEPT ![u] = answer[u]]
        BY <3>1, <3>2 DEF VerdictsTold
      <3>4. Verdict[u] = answer[u] /\ VerdictsTold[u] = "none"
        BY <3>2 DEF Verdict, VerdictsTold
      <3> QED
        BY <1>2, <2>2, <3>2, <3>3, <3>4, ExchangeSteps
    <2> QED
      BY <2>1, <2>3, <2>4
  <1>4. CASE ReceiveResultReply(u)
    <2>1. /\ Replied(u) /\ "ACCEPTED" \in reply_notes[u] /\ result_replies[u] = 0
          /\ result_replies' = [result_replies EXCEPT ![u] = 1]
          /\ reply_notes' = reply_notes
      BY <1>4, ResultReplyOutcome
    <2>2. PICK r \in Results : /\ Answers(u) = {r}
                               /\ <<u, r>> \in GivenResults
                               /\ result_call[<<u, r>>] \in {"kept", "sent"}
      BY <1>1, <2>1, OneAnswer DEF PairInv
    <2>3. \A v : Answers(v)' = Answers(v)
      BY <1>1 DEF Answers
    <2>4. /\ result_replies'[u] = 1
          /\ \A v \in Goals : v # u => result_replies'[v] = result_replies[v]
      BY <1>1, <2>1 DEF PairInv, IInv, TypeOK, Goals
    <2>5. /\ ToldResults(u) = {} /\ ToldResults(u)' = {r}
          /\ \A v \in Goals : v # u => ToldResults(v)' = ToldResults(v)
      BY <2>1, <2>2, <2>3, <2>4 DEF ToldResults
    <2>6. ResultsTold[u] = {} /\ ResultsTold' = [ResultsTold EXCEPT ![u] = {r}]
      BY <2>5 DEF ResultsTold
    <2>7. VerdictsTold[u] = "accepted" /\ r \in Offers[u]
      BY <2>1, <2>2 DEF VerdictsTold, ToldVerdict, Offers, Offered
    <2>8. VerdictsTold' = VerdictsTold
      BY <2>1, SameVerdictsTold
    <2> QED
      BY <1>2, <2>6, <2>7, <2>8, ExchangeSteps
  <1> QED
    BY <1>3, <1>4 DEF Deliver

\* The other steps neither say nor tell anything.
LEMMA ExchangeRest ==
    ASSUME PairInv, PairInv', RepliesOnce,
           UNCHANGED <<answer, result_call, reply_notes, result_replies>>
    PROVE  UNCHANGED Exchange!exchange
  <1>1. Verdict' = Verdict
    BY DEF Verdict
  <1> QED
    BY <1>1, SameOffers, SameVerdictsTold, SameResultsTold, ExchangeSteps

\* The verdict and the result that the client's application hears of a goal
\* are those that the server's application gave on it: the pair implements
\* GoalExchange, though a reply carries no goal and finds it by an identifier.
THEOREM PairImplementsExchange == PairSpec => ImplementsExchange
  <1>1. PairInit => Exchange!Init
    <2> SUFFICES ASSUME PairInit PROVE Exchange!Init
      OBVIOUS
    <2>1. Verdict = [g \in Goals |-> "none"]
      BY DEF PairInit, S!Init, Verdict, Goals
    <2>2. Offers = [g \in Goals |-> {}]
      BY DEF PairInit, S!Init, Offers, Offered
    <2>3. VerdictsTold = [g \in Goals |-> "none"]
      BY DEF PairInit, Init, VerdictsTold, ToldVerdict, Goals
    <2>4. ResultsTold = [g \in Goals |-> {}]
      BY DEF PairInit, Init, ResultsTold, ToldResults, Goals
    <2> QED
      BY <2>1, <2>2, <2>3, <2>4, Zenon
      DEF Exchange!Init, Verdict, Offers, Offered, VerdictsTold, ToldVerdict,
          ResultsTold, ToldResults
  <1>2. PairInv /\ PairInv' /\ [PairNext]_pairVars => [Exchange!Next]_Exchange!exchange
    <2> SUFFICES ASSUME PairInv, PairInv', [PairNext]_pairVars
                 PROVE  Exchange!Next \/ UNCHANGED Exchange!exchange
      OBVIOUS
    <2>1. RepliesOnce
      BY ServerStep DEF PairInv
    <2>2. ASSUME NEW u \in Goals, ClientCall(u) \/ Finish(u) \/ UpdateStatus(u) \/ CarryResult(u)
          PROVE  UNCHANGED <<answer, result_call, reply_notes, result_replies>>
      BY <2>2 DEF ClientCall, SendGoal, SendGoalPublish, SendGoalStore, Finish, ServerFinishes,
                  UpdateStatus, PublishStatus, CarryResult, ServerAnswersResult, server, notes
    <2>3. ASSUME NEW u \in Goals, TakeRequest(u)
          PROVE  UNCHANGED <<answer, result_call, reply_notes, result_replies>>
      BY <2>3 DEF TakeRequest, S!ReceiveResultRequest, S!ReceiveCancelRequest, client, vars
    <2>4. ASSUME NEW u \in Goals, NEW kind \in DOMAIN Kinds, Carry(u, kind)
          PROVE  UNCHANGED <<answer, result_call, reply_notes, result_replies>>
      BY <2>4 DEF Carry, S!ClientSends, client, vars
    <2>5. ASSUME NEW a \in Actions, DeliverStatus(a)
          PROVE  UNCHANGED <<answer, result_call, reply_notes, result_replies>>
      BY <2>5 DEF DeliverStatus, ReceiveStatus, server
    <2>6. CASE UNCHANGED pairVars
      <3>1. UNCHANGED <<answer, result_call, reply_notes, result_replies>>
        BY <2>6 DEF pairVars, client, vars, server
      <3> QED
        BY <2>1, <3>1, ExchangeRest
    <2>7. CASE PairNext
      BY <2>1, <2>2, <2>3, <2>4, <2>5, <2>7, ExchangeRest, ExchangeTakeGoal,
         ExchangeGiveResult, ExchangeDeliver DEF PairNext
    <2> QED
      BY <2>6, <2>7
  <1> QED
    BY <1>1, <1>2, PairInvariantHolds, PTL DEF PairSpec, ImplementsExchange, Exchange!Spec

====

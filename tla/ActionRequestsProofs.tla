------------------------ MODULE ActionRequestsProofs ------------------------
(***************************************************************************)
(* What the operators of ActionRequests do to the map, for the proofs      *)
(* about the client and the server.                                        *)
(***************************************************************************)
EXTENDS ActionRequests, TLAPS

MapType == [UUIDs -> ActionRequestInfo \cup {NoEntry}]

\* What storing a goal request for a new goal does to the map.
LEMMA StoreGoalLemma ==
    ASSUME NEW f \in MapType, NEW u \in UUIDs, NEW name \in Actions,
           NEW id \in Nat, ~Known(f, u)
    PROVE  /\ Stored(f, name, u, id, "GOAL") \in MapType
           /\ Stored(f, name, u, id, "GOAL")[u] = NewInfo(name, id)
           /\ Known(Stored(f, name, u, id, "GOAL"), u)
           /\ \A v \in UUIDs : v # u => Stored(f, name, u, id, "GOAL")[v] = f[v]
  <1>1. NewInfo(name, id) \in ActionRequestInfo
    BY DEF NewInfo, ActionRequestInfo
  <1>2. Stored(f, name, u, id, "GOAL") = [f EXCEPT ![u] = NewInfo(name, id)]
    BY DEF Stored, Known, MapType
  <1> QED
    BY <1>1, <1>2, SentinelAssumption DEF MapType, Known

\* What storing a result request for a known goal does to the map.
LEMMA StoreResultLemma ==
    ASSUME NEW f \in MapType, NEW u \in UUIDs, NEW name \in Actions,
           NEW id \in Nat, Known(f, u)
    PROVE  /\ Stored(f, name, u, id, "RESULT") \in MapType
           /\ Stored(f, name, u, id, "RESULT")[u] = [f[u] EXCEPT !.result_request_id = id]
           /\ Known(Stored(f, name, u, id, "RESULT"), u)
           /\ \A v \in UUIDs : v # u => Stored(f, name, u, id, "RESULT")[v] = f[v]
  <1>1. f[u] \in ActionRequestInfo
    BY DEF MapType, Known
  <1>2. [f[u] EXCEPT !.result_request_id = id] \in ActionRequestInfo
    BY <1>1 DEF ActionRequestInfo
  <1>3. Stored(f, name, u, id, "RESULT")
          = [f EXCEPT ![u] = [f[u] EXCEPT !.result_request_id = id]]
    BY DEF Stored, SetRequest, Known, MapType
  <1> QED
    BY <1>2, <1>3, SentinelAssumption DEF MapType, Known

\* What a result does to an entry: it keeps the two identifiers and sets its
\* flag, or completes the pair and removes the entry.
LEMMA EraseResultLemma ==
    ASSUME NEW info \in ActionRequestInfo
    PROVE  LET kept == EraseInfo(info, "RESULT") IN
           /\ kept \in ActionRequestInfo \cup {NoEntry}
           /\ kept = NoEntry <=> info.final_status_received
           /\ kept # NoEntry =>
                 /\ kept.goal_request_id = info.goal_request_id
                 /\ kept.result_request_id = info.result_request_id
                 /\ kept.result_received = TRUE
                 /\ kept.final_status_received = info.final_status_received
  <1>1. Mark(info, "RESULT") \in ActionRequestInfo
    BY DEF Mark, ActionRequestInfo
  <1>2. /\ Mark(info, "RESULT").goal_request_id = info.goal_request_id
        /\ Mark(info, "RESULT").result_request_id = info.result_request_id
        /\ Mark(info, "RESULT").result_received = TRUE
        /\ Mark(info, "RESULT").final_status_received = info.final_status_received
    BY DEF Mark, ActionRequestInfo
  <1> QED
    BY <1>1, <1>2, SentinelAssumption DEF EraseInfo

\* The same for a final status.
LEMMA EraseFinalLemma ==
    ASSUME NEW info \in ActionRequestInfo
    PROVE  LET kept == EraseInfo(info, "FINAL_STATUS") IN
           /\ kept \in ActionRequestInfo \cup {NoEntry}
           /\ kept = NoEntry <=> info.result_received
           /\ kept # NoEntry =>
                 /\ kept.goal_request_id = info.goal_request_id
                 /\ kept.result_request_id = info.result_request_id
                 /\ kept.result_received = info.result_received
                 /\ kept.final_status_received = TRUE
  <1>1. Mark(info, "FINAL_STATUS") \in ActionRequestInfo
    BY DEF Mark, ActionRequestInfo
  <1>2. /\ Mark(info, "FINAL_STATUS").goal_request_id = info.goal_request_id
        /\ Mark(info, "FINAL_STATUS").result_request_id = info.result_request_id
        /\ Mark(info, "FINAL_STATUS").result_received = info.result_received
        /\ Mark(info, "FINAL_STATUS").final_status_received = TRUE
    BY DEF Mark, ActionRequestInfo
  <1> QED
    BY <1>1, <1>2, SentinelAssumption DEF EraseInfo

\* Erasing keeps the map a map, whatever the reason.
LEMMA ErasedLemma ==
    ASSUME NEW f \in MapType, NEW u \in UUIDs, NEW reason \in EraseReasons
    PROVE  Erased(f, u, reason) \in MapType
  <1>1. ASSUME f[u] # NoEntry
        PROVE  EraseInfo(f[u], reason) \in ActionRequestInfo \cup {NoEntry}
    <2>1. Mark(f[u], reason) \in ActionRequestInfo
      BY <1>1 DEF Mark, ActionRequestInfo, MapType
    <2> QED
      BY <2>1 DEF EraseInfo
  <1> QED
    BY <1>1 DEF Erased, MapType

\* Storing keeps the map a map, whatever the request.
LEMMA StoredLemma ==
    ASSUME NEW f \in MapType, NEW u \in UUIDs, NEW name \in Actions,
           NEW id \in Nat, NEW type
    PROVE  Stored(f, name, u, id, type) \in MapType
  <1>1. CASE Known(f, u)
    <2>1. f[u] \in ActionRequestInfo
      BY <1>1 DEF MapType, Known
    <2>2. SetRequest(f[u], id, type) \in ActionRequestInfo
      BY <2>1 DEF SetRequest, ActionRequestInfo
    <2> QED
      BY <1>1, <2>2 DEF Stored, MapType, Known
  <1>2. CASE ~Known(f, u)
    <2>1. NewInfo(name, id) \in ActionRequestInfo
      BY DEF NewInfo, ActionRequestInfo
    <2> QED
      BY <1>2, <2>1 DEF Stored, MapType, Known
  <1> QED
    BY <1>1, <1>2

\* The same, field by field.
LEMMA StoreResultFields ==
    ASSUME NEW f \in MapType, NEW u \in UUIDs, NEW name \in Actions,
           NEW id \in Nat, Known(f, u)
    PROVE  /\ Stored(f, name, u, id, "RESULT")[u].result_request_id = id
           /\ Stored(f, name, u, id, "RESULT")[u].result = f[u].result
           /\ \A v \in UUIDs : v # u => Stored(f, name, u, id, "RESULT")[v] = f[v]
  <1>1. f[u] \in ActionRequestInfo
    BY DEF MapType, Known
  <1>2. Stored(f, name, u, id, "RESULT")[u] = [f[u] EXCEPT !.result_request_id = id]
    BY StoreResultLemma
  <1>3. \A v \in UUIDs : v # u => Stored(f, name, u, id, "RESULT")[v] = f[v]
    BY DEF Stored, MapType
  <1> QED
    BY <1>1, <1>2, <1>3 DEF ActionRequestInfo

\* A cancel request changes nothing.
LEMMA StoreCancelLemma ==
    ASSUME NEW f \in MapType, NEW u \in UUIDs, NEW name \in Actions,
           NEW id \in Nat, Known(f, u)
    PROVE  Stored(f, name, u, id, "CANCEL") = f
  BY DEF Stored, SetRequest, Known, MapType

\* A forced erasure removes the entry, whatever it holds.
LEMMA EraseForcedLemma ==
    ASSUME NEW f \in MapType, NEW u \in UUIDs
    PROVE  Erased(f, u, "FORCED") = [f EXCEPT ![u] = NoEntry]
  <1>1. CASE f[u] = NoEntry
    BY <1>1 DEF Erased, MapType
  <1>2. CASE f[u] # NoEntry
    <2>1. Mark(f[u], "FORCED").final_status_received /\ Mark(f[u], "FORCED").result_received
      BY <1>2 DEF Mark, MapType, ActionRequestInfo
    <2> QED
      BY <1>2, <2>1 DEF Erased, EraseInfo, MapType
  <1> QED
    BY <1>1, <1>2

=============================================================================

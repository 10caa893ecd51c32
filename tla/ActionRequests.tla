--------------------------- MODULE ActionRequests ---------------------------
(***************************************************************************)
(* The map action_request_id_to_uuid_ of the Handler: what the enabler     *)
(* remembers of every action goal it has sent as a client or received as a *)
(* server, from the goal request until its result and its final status are *)
(* known.                                                                  *)
(*                                                                         *)
(* This module has no state.  A map is a function f from UUIDs to entries, *)
(* NoEntry standing for a key that is absent; the operators below are the  *)
(* critical sections of Handler that read or update the map.  Each of them *)
(* runs with Handler::mtx_ held, so each is one atomic step of a caller.   *)
(***************************************************************************)
EXTENDS Naturals

CONSTANTS UUIDs,      \* identifiers of goals, the empty one included
          Actions,    \* names of actions
          Results,    \* serialized results of goals
          NoResult,   \* the empty string of ActionRequestInfo::result
          NoEntry     \* absence of a key in the map

\* ActionEraseReason.
EraseReasons == {"FINAL_STATUS", "RESULT", "FORCED"}

\* ActionRequestInfo without its time stamp and its protocol, which never
\* change once the entry exists.
ActionRequestInfo ==
    [ action_name           : Actions,
      goal_request_id       : Nat,
      result_request_id     : Nat,
      result                : Results \cup {NoResult},
      result_received       : BOOLEAN,
      final_status_received : BOOLEAN ]

ASSUME SentinelAssumption ==
    /\ NoResult \notin Results
    /\ NoEntry \notin ActionRequestInfo

\* The constructor of an entry, only ever called for a goal request.
NewInfo(name, id) ==
    [ action_name           |-> name,
      goal_request_id       |-> id,
      result_request_id     |-> 0,
      result                |-> NoResult,
      result_received       |-> FALSE,
      final_status_received |-> FALSE ]

\* Mutated form: the identifier of a result request is not kept.
SetRequest_GoalOnly(info, id, type) ==
    IF type = "GOAL" THEN [info EXCEPT !.goal_request_id = id] ELSE info

\* A cancel request leaves no trace in the entry.
SetRequest(info, id, type) ==
    CASE type = "GOAL"   -> [info EXCEPT !.goal_request_id = id]
      [] type = "RESULT" -> [info EXCEPT !.result_request_id = id]
      [] OTHER           -> info

GetRequest(info, type) ==
    IF type = "GOAL" THEN info.goal_request_id ELSE info.result_request_id

Known(f, u) == f[u] # NoEntry

\* Active also compares the name of the action, as the code does everywhere
\* but in the search by request identifier and in the erasure.
IsActive(f, name, u) == Known(f, u) /\ f[u].action_name = name

\* get_action_protocol returns PROTOCOL_UNKNOWN, which every sender refuses,
\* exactly when the goal is not active under that name.
ProtocolKnown(f, name, u) == IsActive(f, name, u)

\* store_action_request returns true: a goal request creates an entry and
\* any other request needs the entry that the goal request has created.
CanStore(f, name, u, type) ==
    IF Known(f, u) THEN f[u].action_name = name /\ type # "GOAL"
                   ELSE type = "GOAL"

Stored(f, name, u, id, type) ==
    [f EXCEPT ![u] = IF @ = NoEntry THEN NewInfo(name, id)
                                    ELSE SetRequest(@, id, type)]

\* Mutated form: a result also counts as a final status.
Mark_ResultIsFinal(info, reason) ==
    [info EXCEPT !.final_status_received = TRUE,
                 !.result_received       = @ \/ reason # "FINAL_STATUS"]

\* Mutated form: a final status that comes before the result is forgotten.
Mark_StatusFirstIgnored(info, reason) ==
    [info EXCEPT !.final_status_received = @ \/ (reason # "RESULT" /\ info.result_received),
                 !.result_received       = @ \/ reason # "FINAL_STATUS"]

\* The flags an erase reason sets; the entry goes once both are set.
Mark(info, reason) ==
    [info EXCEPT !.final_status_received = @ \/ reason # "RESULT",
                 !.result_received       = @ \/ reason # "FINAL_STATUS"]

\* Mutated form: one of the two flags is enough.
EraseInfo_Either(info, reason) ==
    LET marked == Mark(info, reason)
    IN  IF marked.final_status_received \/ marked.result_received
        THEN NoEntry ELSE marked

EraseInfo(info, reason) ==
    LET marked == Mark(info, reason)
    IN  IF marked.final_status_received /\ marked.result_received
        THEN NoEntry ELSE marked

\* erase_action_UUID; a key that is not in the map is ignored.
Erased(f, u, reason) ==
    [f EXCEPT ![u] = IF @ = NoEntry THEN @ ELSE EraseInfo(@, reason)]

\* The keys the linear search of get_action_request_UUID may stop at.
UUIDsOf(f, id, type) ==
    {u \in UUIDs : Known(f, u) /\ GetRequest(f[u], type) = id}

\* Mutated form: the last result given for a goal is the one kept.
CanSetResult_Always(f, u) == TRUE

\* set_result: the first result given for a goal is the one kept.
CanSetResult(f, u) == f[u].result = NoResult
ResultSet(f, u, r) == [f EXCEPT ![u].result = r]

=============================================================================

---------------------------- MODULE GoalTracking ----------------------------
(***************************************************************************)
(* What the enabler promises of the goals an application sends, whatever   *)
(* the order in which the samples of the remote servers arrive: a goal is  *)
(* active from the moment it is remembered until both its result and a     *)
(* final status have been received, it has one result at most, and once    *)
(* closed it is never active again.                                        *)
(***************************************************************************)
CONSTANT Goals

VARIABLES active,      \* goals that have been sent and are not complete
          closed,      \* goals that are complete
          has_result,  \* goals whose result has been received
          has_final    \* goals whose final status has been received

tracking == <<active, closed, has_result, has_final>>

Init == /\ active = {}
        /\ closed = {}
        /\ has_result = {}
        /\ has_final = {}

Open(g) == /\ g \notin active \cup closed
           /\ active' = active \cup {g}
           /\ UNCHANGED <<closed, has_result, has_final>>

\* R and F being the goals whose result and final status have been received.
CloseComplete(R, F) ==
    /\ active' = active \ (R \cap F)
    /\ closed' = closed \cup (active \cap R \cap F)

ReceiveResult(g) == /\ g \in active \ has_result
                    /\ has_result' = has_result \cup {g}
                    /\ UNCHANGED has_final
                    /\ CloseComplete(has_result', has_final)

\* A status sample is about several goals; a final status may be repeated.
ReceiveFinal(S) == /\ S \subseteq active
                   /\ has_final' = has_final \cup S
                   /\ UNCHANGED has_result
                   /\ CloseComplete(has_result, has_final')

Next == \/ \E g \in Goals : Open(g) \/ ReceiveResult(g)
        \/ \E S \in SUBSET Goals : ReceiveFinal(S)

Spec == Init /\ [][Next]_tracking

=============================================================================

--------------------------- MODULE MCActionServer ---------------------------
(* Instances of ActionServer for TLC.                                      *)
EXTENDS ActionServer

CONSTANTS g1, g2, a1, r1, r2, c1, c2

MCOneAction == [u \in UUIDs |-> a1]

Goal(u) == [kind |-> "GOAL", uuid |-> u]
Cancel(u) == [kind |-> "CANCEL", uuid |-> u]
Result(u, c) == [kind |-> "RESULT", uuid |-> u, asker |-> c]

\* The result of g1 is asked for twice and given twice, while another goal
\* goes through its life once.
MCRequests == {Goal(g1), Result(g1, c1), Result(g1, c2), Cancel(g1),
               Goal(g2), Result(g2, c1)}
MCGivenResults == {<<g1, r1>>, <<g1, r2>>, <<g2, r1>>}

=============================================================================

----------------------------- MODULE MCActionPair -----------------------------
(* Instances of ActionPair for TLC.                                        *)
EXTENDS ActionPair, TLC

CONSTANTS g1, g2, empty, a1, r1, r2

MCGoals == {g1, g2, empty}
MCOneAction == [u \in UUIDs |-> a1]

\* Each goal is given a result of its own.
MCGivenResults == {<<g1, r1>>, <<g2, r2>>}

=============================================================================

--------------------------- MODULE MCActionClient ---------------------------
(* Instances of ActionClient for TLC.                                      *)
EXTENDS ActionClient, TLC

CONSTANTS g1, g2, empty, a1

MCGoal == {g1, empty}
MCGoals == {g1, g2, empty}

\* Sound where the goals go to one action and are not cancelled.
MCSymmetry == Permutations({g1, g2})

MCOneAction == [u \in UUIDs |-> a1]

=============================================================================

-------------------------- MODULE MCServiceRegistry --------------------------
(* Instances of ServiceRegistry for TLC.                                   *)
EXTENDS ServiceRegistry, TLC

CONSTANTS s1, a1, c1, c2

\* Two threads about the service and about the action.
MCCallersOf == (s1 :> {c1, c2}) @@ (a1 :> {c1, c2})

\* The topic of the replies may appear with another type.
MCOtherType == {<<s1, "REPLY">>}

Untouched(n, topics) == n \notin asked /\ topics \cap readers = {}

\* The service and the action have nothing in common but the number of
\* calls: a behaviour about both says nothing that is not said of either.
MCOneAtATime ==
    \/ Untouched(s1, {s1} \X ServiceTopics)
    \/ Untouched(a1, TopicsOf(a1))

MCSymmetry == Permutations(Callers)

=============================================================================

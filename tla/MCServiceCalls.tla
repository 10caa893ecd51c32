---------------------------- MODULE MCServiceCalls ----------------------------
(* Instances of ServiceCalls, under every short name, for TLC.             *)
EXTENDS ServiceNames, TLC

CONSTANTS s1, a1, c1, c2, d1, d2

\* Two threads about the service and about the action.
MCCallersOf == (s1 :> {c1, c2}) @@ (a1 :> {c1, c2})

\* The topic of the replies may appear with another type.
MCOtherType == {<<s1, "REPLY">>}

Untouched(n, topics) == n \notin asked /\ topics \cap readers = {}

\* The service and the action have nothing in common but the number of
\* calls: a behaviour about both says nothing that is not said of either.
\* Requests are sent and received while the service is managed.
MCOneAtATime ==
    \/ Untouched(s1, {s1} \X ServiceTopics) /\ requests_id = 0
    \/ Untouched(a1, TopicsOf(a1))

MCSymmetry == Permutations(Senders) \cup Permutations(Callers)

=============================================================================

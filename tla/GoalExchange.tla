----------------------------- MODULE GoalExchange -----------------------------
(***************************************************************************)
(* What two applications that use the enabler, one as the client and one   *)
(* as the server of an action, may rely on: the client hears the verdict   *)
(* that the server gave on a goal, and of an accepted goal one result at   *)
(* most, one that the server was told would be sent.                       *)
(***************************************************************************)
CONSTANTS Goals, Results

VARIABLES verdict,       \* what the server's application said of a goal
          offered,       \* results that it was told would be sent
          told_verdict,  \* what the client's application heard of the goal
          told_results   \* results that it heard

exchange == <<verdict, offered, told_verdict, told_results>>

Verdicts == {"accepted", "rejected"}

Init == /\ verdict = [g \in Goals |-> "none"]
        /\ offered = [g \in Goals |-> {}]
        /\ told_verdict = [g \in Goals |-> "none"]
        /\ told_results = [g \in Goals |-> {}]

Decide(g) == /\ verdict[g] = "none"
             /\ \E v \in Verdicts : verdict' = [verdict EXCEPT ![g] = v]
             /\ UNCHANGED <<offered, told_verdict, told_results>>

Offer(g, r) == /\ verdict[g] = "accepted"
               /\ offered' = [offered EXCEPT ![g] = @ \cup {r}]
               /\ UNCHANGED <<verdict, told_verdict, told_results>>

TellVerdict(g) == /\ verdict[g] # "none"
                  /\ told_verdict[g] = "none"
                  /\ told_verdict' = [told_verdict EXCEPT ![g] = verdict[g]]
                  /\ UNCHANGED <<verdict, offered, told_results>>

TellResult(g, r) == /\ told_verdict[g] = "accepted"
                    /\ told_results[g] = {}
                    /\ r \in offered[g]
                    /\ told_results' = [told_results EXCEPT ![g] = {r}]
                    /\ UNCHANGED <<verdict, offered, told_verdict>>

Next == \E g \in Goals : \/ Decide(g) \/ TellVerdict(g)
                         \/ \E r \in Results : Offer(g, r) \/ TellResult(g, r)

Spec == Init /\ [][Next]_exchange

=============================================================================

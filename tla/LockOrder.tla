----------------------------- MODULE LockOrder -----------------------------
(***************************************************************************)
(* The two mutexes of the enabler and the threads that take them.          *)
(*                                                                         *)
(* EnablerParticipant::mtx_ is a plain mutex, released while a thread      *)
(* waits on cv_ for a reader; Handler::mtx_ is recursive.  Every function  *)
(* of the two classes takes its mutex in its first lines and releases it   *)
(* when it returns, so what a call does to them is a nest of sections, its *)
(* program.  What the functions do inside the sections is the business of  *)
(* the other modules.                                                      *)
(*                                                                         *)
(* The callbacks of the application run with a mutex held; here they do    *)
(* not call the enabler, as those of its examples do not.                  *)
(***************************************************************************)
EXTENDS Naturals, Sequences

CONSTANTS Threads,
          CallsOf,    \* the functions each thread may call
          Created,    \* the topics whose readers are created
          MaxCalls    \* bound on the number of calls of a thread

Mutexes == {"participant", "handler"}

\* The topics a call may wait for the reader of.
Topics == {"topic", "request", "goal", "cancel", "result", "feedback", "status"}

-----------------------------------------------------------------------------
(* Programs: sequences of steps <<what, mutex or topic>>.  At a check the  *)
(* function may fail or have nothing more to do, and its callers with it.  *)

Holding(m, body) == <<<<"lock", m>>>> \o body \o <<<<"unlock", m>>>>
Check == <<<<"check", "-">>>>
WaitFor(topic) == <<<<"wait", topic>>>>

\* A function of Handler that calls nothing: get_new_request_id,
\* get_serialized_data, get_type_identifier, store_action_request...
InHandler == Holding("handler", <<>>)

\* EnablerParticipant.

\* Mutated form: the waiting threads are woken before the reader is there.
CreateReader_NotifyFirst(topic) ==
    {<<<<"notify", topic>>>> \o Holding("participant", p \o <<<<"reader", topic>>>>) :
        p \in {Check, Check \o InHandler \o Check}}

\* Mutated form: the mutex is unlocked by hand before the notification, and
\* once more by the guard.
CreateReader_UnlockedTwice(topic) ==
    {Holding("participant", p \o <<<<"reader", topic>>, <<"unlock", "participant">>,
                                    <<"notify", topic>>>>) :
        p \in {Check, Check \o InHandler \o Check}}

\* Only a topic, service or action that is new is told to the Handler.
CreateReader(topic) ==
    {Holding("participant", p \o <<<<"reader", topic>>>>) \o <<<<"notify", topic>>>> :
        p \in {Check, Check \o InHandler \o Check}}

\* A topic that has no reader is queried, then waited for.
Publish(topic) ==
    Holding("participant", Check \o InHandler \o Check \o WaitFor(topic) \o InHandler)

PublishRpc == Holding("participant", Check \o InHandler)

AnnounceService ==
    Holding("participant", Check \o InHandler \o Check \o InHandler \o Check
                               \o WaitFor("request"))

\* The services have two types each, the topics one.
AnnounceAction ==
    LET service(topic) ==
            Check \o InHandler \o Check \o InHandler \o Check \o WaitFor(topic)
        publisher(topic) == Check \o InHandler \o Check \o WaitFor(topic)
    IN  Holding("participant", service("goal") \o service("cancel") \o service("result")
                                   \o publisher("feedback") \o publisher("status"))

Revoke == Holding("participant", <<>>)

SendServiceRequest == Check \o InHandler \o PublishRpc

\* get_service_protocol, then the reply.
SendServiceReply == Holding("participant", <<>>) \o Check \o PublishRpc

\* A goal that could not be stored is erased.
SendActionGoal == SendServiceRequest \o Check \o InHandler \o Check \o InHandler

CancelActionGoal == InHandler \o Check \o InHandler \o SendServiceRequest

\* What send_action_get_result_request does if it sends the request and if
\* it does not.
ResultRequestSent ==
    InHandler \o InHandler \o Holding("participant", InHandler) \o InHandler
ResultRequestFailed ==
    {InHandler \o p : p \in {<<>>, InHandler \o Holding("participant", <<>>),
                             InHandler \o Holding("participant", InHandler)}}

\* With one goal in the list.
SendActionCancelGoalReply == InHandler \o SendServiceReply

SendActionGetResultReply == SendServiceReply \o Check \o InHandler

HandleActionResult == Holding("handler", Check \o SendActionGetResultReply)

SendActionResult == InHandler \o Check \o HandleActionResult

\* send_action_feedback and update_action_status.
PublishOfGoal(topic) == InHandler \o Check \o InHandler \o Check \o Publish(topic)

\* Handler::add_data, with what it calls back.

AddData == Holding("handler", Check \o InHandler)

\* A result request that fails is followed by a cancel request.
AddGoalReply ==
    {Holding("handler", InHandler \o Check \o p) :
        p \in {ResultRequestSent} \cup {q \o CancelActionGoal : q \in ResultRequestFailed}}

AddGoalRequest == Holding("handler", InHandler \o Check \o SendServiceReply)

AddResultRequest ==
    Holding("handler", InHandler \o Check \o InHandler \o Check \o SendActionGetResultReply)

CallNames ==
    {"create_reader", "publish", "send_service_request", "send_service_reply",
     "announce_service", "announce_action", "revoke", "send_action_goal",
     "cancel_action_goal", "send_action_cancel_goal_reply", "send_action_result",
     "send_action_feedback", "update_action_status", "add_data", "add_goal_reply",
     "add_goal_request", "add_result_request"}

Programs(name) ==
    CASE name = "create_reader"        -> UNION {CreateReader(topic) : topic \in Created}
      [] name = "publish"              -> {Publish("topic")}
      [] name = "send_service_request" -> {SendServiceRequest}
      [] name = "send_service_reply"   -> {SendServiceReply}
      [] name = "announce_service"     -> {AnnounceService}
      [] name = "announce_action"      -> {AnnounceAction}
      [] name = "revoke"               -> {Revoke}
      [] name = "send_action_goal"     -> {SendActionGoal}
      [] name = "cancel_action_goal"   -> {CancelActionGoal}
      [] name = "send_action_cancel_goal_reply" -> {SendActionCancelGoalReply}
      [] name = "send_action_result"   -> {SendActionResult}
      [] name = "send_action_feedback" -> {PublishOfGoal("feedback")}
      [] name = "update_action_status" -> {PublishOfGoal("status")}
      [] name = "add_data"             -> {AddData}
      [] name = "add_goal_reply"       -> AddGoalReply
      [] name = "add_goal_request"     -> {AddGoalRequest}
      [] name = "add_result_request"   -> {AddResultRequest}

-----------------------------------------------------------------------------
VARIABLES
    todo,     \* what is left of the program of each thread
    calls,    \* number of calls of each thread
    owner,    \* the thread that holds each mutex, or "nobody"
    depth,    \* how many times it holds it
    readers,  \* EnablerParticipant::readers_, as far as calls wait for them
    sleep     \* whether a thread waits on cv_, and has been notified

vars == <<todo, calls, owner, depth, readers, sleep>>

ASSUME ThreadsAssumption ==
    /\ "nobody" \notin Threads
    /\ CallsOf \in [Threads -> SUBSET CallNames]
    /\ MaxCalls \in Nat
    /\ Created \subseteq Topics

Init ==
    /\ todo = [t \in Threads |-> <<>>]
    /\ calls = [t \in Threads |-> 0]
    /\ owner = [m \in Mutexes |-> "nobody"]
    /\ depth = [m \in Mutexes |-> 0]
    /\ readers = {}
    /\ sleep = [t \in Threads |-> "awake"]

Busy(t) == todo[t] # <<>>

Does(t, what) == Busy(t) /\ sleep[t] = "awake" /\ Head(todo[t])[1] = what
Argument(t) == Head(todo[t])[2]
Advance(t) == todo' = [todo EXCEPT ![t] = Tail(@)]

Begin(t) ==
    /\ ~Busy(t)
    /\ calls[t] < MaxCalls
    /\ calls' = [calls EXCEPT ![t] = @ + 1]
    /\ \E name \in CallsOf[t] : \E p \in Programs(name) :
          todo' = [todo EXCEPT ![t] = p]
    /\ UNCHANGED <<owner, depth, readers, sleep>>

\* Mutated form: Handler::mtx_ is a plain mutex too.
MayLock_Plain(t, m) == owner[m] = "nobody"

MayLock(t, m) == owner[m] = "nobody" \/ (owner[m] = t /\ m = "handler")

Lock(t) ==
    LET m == Argument(t) IN
    /\ Does(t, "lock")
    /\ MayLock(t, m)
    /\ owner' = [owner EXCEPT ![m] = t]
    /\ depth' = [depth EXCEPT ![m] = @ + 1]
    /\ Advance(t)
    /\ UNCHANGED <<calls, readers, sleep>>

Unlock(t) ==
    LET m == Argument(t) IN
    /\ Does(t, "unlock")
    /\ depth' = [depth EXCEPT ![m] = @ - 1]
    /\ owner' = [owner EXCEPT ![m] = IF depth[m] = 1 THEN "nobody" ELSE @]
    /\ Advance(t)
    /\ UNCHANGED <<calls, readers, sleep>>

\* The locks are released by the destructors of the guards.
Unwinding(t) ==
    LET held(m) == IF owner[m] = t THEN depth[m] ELSE 0
        release(m) == [i \in 1..held(m) |-> <<"unlock", m>>]
    IN  release("participant") \o release("handler")

Pass(t) ==
    /\ Does(t, "check")
    /\ Advance(t)
    /\ UNCHANGED <<calls, owner, depth, readers, sleep>>

Return(t) ==
    /\ Does(t, "check")
    /\ todo' = [todo EXCEPT ![t] = Unwinding(t)]
    /\ UNCHANGED <<calls, owner, depth, readers, sleep>>

AddReader(t) ==
    /\ Does(t, "reader")
    /\ readers' = readers \cup {Argument(t)}
    /\ Advance(t)
    /\ UNCHANGED <<calls, owner, depth, sleep>>

\* cv_.notify_all, after the mutex has been released.
Notify(t) ==
    /\ Does(t, "notify")
    /\ sleep' = [u \in Threads |-> IF sleep[u] = "asleep" THEN "notified" ELSE sleep[u]]
    /\ Advance(t)
    /\ UNCHANGED <<calls, owner, depth, readers>>

\* cv_.wait_for does not sleep if the reader is there.
Wait(t) ==
    /\ Does(t, "wait")
    /\ IF Argument(t) \in readers
       THEN Advance(t) /\ UNCHANGED <<owner, depth, sleep>>
       ELSE /\ owner' = [owner EXCEPT !["participant"] = "nobody"]
            /\ depth' = [depth EXCEPT !["participant"] = 0]
            /\ sleep' = [sleep EXCEPT ![t] = "asleep"]
            /\ UNCHANGED todo
    /\ UNCHANGED <<calls, readers>>

Reacquire(t) ==
    /\ owner["participant"] = "nobody"
    /\ owner' = [owner EXCEPT !["participant"] = t]
    /\ depth' = [depth EXCEPT !["participant"] = 1]
    /\ sleep' = [sleep EXCEPT ![t] = "awake"]

\* A notified thread evaluates the condition of its wait again.
WakeUp(t) ==
    /\ sleep[t] = "notified"
    /\ Reacquire(t)
    /\ UNCHANGED <<todo, calls, readers>>

\* After the timeout the call goes on if the reader is there and returns if
\* it is not: nothing but the mutex of the wait is held.
TimeOut(t) ==
    /\ sleep[t] # "awake"
    /\ Reacquire(t)
    /\ todo' = [todo EXCEPT ![t] = IF Argument(t) \in readers THEN Tail(@)
                                   ELSE <<<<"unlock", "participant">>>>]
    /\ UNCHANGED <<calls, readers>>

Step(t) == \/ Lock(t) \/ Unlock(t) \/ Pass(t) \/ Return(t) \/ AddReader(t) \/ Notify(t)
           \/ Wait(t) \/ WakeUp(t) \/ TimeOut(t)

Next == \E t \in Threads : Begin(t) \/ Step(t)

Spec == Init /\ [][Next]_vars

\* Every thread runs.  Calls being few, a mutex that is released is free for
\* good in the end, whatever the order it is granted in.
FairSpec == Spec /\ \A t \in Threads : WF_vars(Step(t))

-----------------------------------------------------------------------------
(* Properties.                                                             *)

TypeOK ==
    /\ \A t \in Threads : \A i \in 1..Len(todo[t]) :
          todo[t][i] \in ({"lock", "unlock"} \X Mutexes)
                            \cup ({"wait", "reader", "notify"} \X Topics)
                            \cup {<<"check", "-">>}
    /\ calls \in [Threads -> 0..MaxCalls]
    /\ owner \in [Mutexes -> Threads \cup {"nobody"}]
    /\ depth \in [Mutexes -> Nat]
    /\ \A m \in Mutexes : depth[m] = 0 <=> owner[m] = "nobody"
    /\ readers \subseteq Topics
    /\ sleep \in [Threads -> {"awake", "asleep", "notified"}]

\* A thread does not sleep on cv_ until the timeout for a reader that is
\* there: the thread that has added it is about to notify.
NoLostNotification ==
    \A t \in Threads : sleep[t] = "asleep" /\ Argument(t) \in readers =>
        \E u \in Threads : \E i \in 1..Len(todo[u]) : todo[u][i][1] = "notify"

Blocked(t, m) == Does(t, "lock") /\ Argument(t) = m /\ ~MayLock(t, m)

\* A thread that holds Handler::mtx_ wants EnablerParticipant::mtx_, and one
\* that holds EnablerParticipant::mtx_ wants Handler::mtx_.
Inverted ==
    \E t, u \in Threads :
        /\ owner["handler"] = t /\ Blocked(t, "participant")
        /\ owner["participant"] = u /\ Blocked(u, "handler")

\* A call returns, be it one that waits for a reader that nobody creates,
\* unless two threads hold one mutex each and want the other.
CallReturnsUnlessInverted ==
    \A t \in Threads : Busy(t) ~> (~Busy(t) \/ Inverted)

\* DDSEnabler.hpp: a call returns whether the operation was successful.
EveryCallReturns == \A t \in Threads : Busy(t) ~> ~Busy(t)

=============================================================================

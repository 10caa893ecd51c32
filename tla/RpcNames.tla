------------------------------- MODULE RpcNames -------------------------------
(***************************************************************************)
(* The names of the topics of services and actions: how EnablerParticipant *)
(* forms them and how RpcInfo takes them apart.                            *)
(*                                                                         *)
(* The other modules name a topic by the service or action it belongs to;  *)
(* here it is shown when they may.  A name is a sequence of words: the     *)
(* separators, the prefixes and suffixes of Constants.hpp and any other    *)
(* text.  No word ends with another one, so that a name ends with a suffix *)
(* exactly when its last words are those of the suffix.                    *)
(***************************************************************************)
EXTENDS Naturals, SequencesExt

CONSTANTS Words,      \* the words that names are made of
          MaxWords    \* bound on the length of the names that are checked

ASSUME NamesAssumption == MaxWords \in Nat

RpcProtocols == {"ROS2", "DDS"}
EndpointKinds == {"REQUEST", "REPLY"}
NoRole == [rpc |-> "NONE"]

Prefix(protocol, kind) ==
    IF protocol = "DDS" THEN <<>>
    ELSE CASE kind = "TOPIC"   -> <<"rt", "/">>
           [] kind = "REQUEST" -> <<"rq", "/">>
           [] kind = "REPLY"   -> <<"rr", "/">>

Suffix(protocol, kind) ==
    LET word == IF kind = "REQUEST" THEN "Request" ELSE "Reply"
    IN  IF protocol = "DDS" THEN <<"_", word>> ELSE <<word>>

\* The last word of the names of the parts of an action.
ActionWord == [GOAL |-> "send_goal", RESULT |-> "get_result", CANCEL |-> "cancel_goal",
               FEEDBACK |-> "feedback", STATUS |-> "status"]
ServiceParts == {"GOAL", "RESULT", "CANCEL"}
TopicParts == {"FEEDBACK", "STATUS"}

-----------------------------------------------------------------------------
(* Forming names, to announce and to publish.                              *)

ServiceTopic(protocol, kind, service) ==
    Prefix(protocol, kind) \o service \o Suffix(protocol, kind)

PartOf(action, part) == Append(action, ActionWord[part])

ActionTopic(protocol, action, part) ==
    Prefix(protocol, "TOPIC") \o PartOf(action, part)

-----------------------------------------------------------------------------
(* RpcInfo: taking them apart.                                             *)

\* Mutated form: the test with the empty prefixes comes first.
DetectProtocol_DdsFirst(topic) == "DDS"

\* The prefixes of plain DDS are empty, so that every other name is of DDS.
DetectProtocol(topic) ==
    IF \E kind \in {"TOPIC", "REQUEST", "REPLY"} : IsPrefix(Prefix("ROS2", kind), topic)
    THEN "ROS2" ELSE "DDS"

\* base.substr without as many words at either end.
Without(topic, first, last) == SubSeq(topic, first + 1, Len(topic) - last)

\* A service whose name ends as that of a part of an action is one.
ServiceRole(protocol, kind, service) ==
    LET parts == {p \in ServiceParts : IsSuffix(<<ActionWord[p]>>, service)}
        role == [rpc |-> "SERVICE", protocol |-> protocol, kind |-> kind, service |-> service,
                 part |-> "NONE", action |-> <<>>]
    IN  IF parts = {} THEN role
        ELSE [role EXCEPT !.rpc = "ACTION",
                          !.part = CHOOSE p \in parts : TRUE,
                          !.action = Without(service, 0, 1)]

\* Mutated form: the separator that is tested for is taken from the name.
TopicRole_NoSeparator(protocol, base) ==
    LET parts == {p \in TopicParts : IsSuffix(<<"/", ActionWord[p]>>, base)}
    IN  IF protocol # "ROS2" \/ parts = {} THEN NoRole
        ELSE [rpc |-> "ACTION", protocol |-> protocol, kind |-> "NONE",
              service |-> <<>>, part |-> CHOOSE p \in parts : TRUE,
              action |-> Without(base, 0, 2)]

\* The separator before the word is tested for and stays in the name.
TopicRole(protocol, base) ==
    LET parts == {p \in TopicParts : IsSuffix(<<"/", ActionWord[p]>>, base)}
    IN  IF protocol # "ROS2" \/ parts = {} THEN NoRole
        ELSE [rpc |-> "ACTION", protocol |-> protocol, kind |-> "NONE",
              service |-> <<>>, part |-> CHOOSE p \in parts : TRUE,
              action |-> Without(base, 0, 1)]

\* The prefix of a topic is left out without a look at which of them it is.
RpcInfo(topic) ==
    LET p == DetectProtocol(topic)
        kinds == {k \in EndpointKinds : /\ IsPrefix(Prefix(p, k), topic)
                                        /\ IsSuffix(Suffix(p, k), topic)}
    IN  IF kinds = {} THEN TopicRole(p, Without(topic, Len(Prefix(p, "TOPIC")), 0))
        ELSE LET k == CHOOSE k \in kinds : TRUE
             IN  ServiceRole(p, k, Without(topic, Len(Prefix(p, k)), Len(Suffix(p, k))))

-----------------------------------------------------------------------------
(* Properties.                                                             *)

Texts == UNION {[1..n -> Words] : n \in 0..MaxWords}

StartsAsRos(name) == DetectProtocol(name) = "ROS2"

ServiceRecognised(p, k, name) ==
    LET role == RpcInfo(ServiceTopic(p, k, name)) IN
    /\ role.rpc # "NONE"
    /\ <<role.protocol, role.kind, role.service>> = <<p, k, name>>

PartRecognised(topic, action, part) ==
    LET role == RpcInfo(topic) IN
    /\ role.rpc = "ACTION"
    /\ <<role.part, role.action>> = <<part, action>>

\* The topics of services of either protocol are taken for what they are,
\* unless the name of a DDS service starts as a ROS 2 topic.
ServicesRecognised ==
    [k \in EndpointKinds |->
        \A name \in Texts, p \in RpcProtocols :
            (p = "ROS2" \/ ~StartsAsRos(name)) =>
                /\ ServiceRecognised(p, k, name)
                /\ \A part \in ServiceParts :
                      PartRecognised(ServiceTopic(p, k, PartOf(name, part)), name, part)]

\* So are the other topics of a ROS 2 action whose name ends with a separator.
ActionsRecognised ==
    [part \in TopicParts |->
        \A name \in Texts :
            IsSuffix(<<"/">>, name) =>
                PartRecognised(ActionTopic("ROS2", name, part), name, part)]

\* The topic that a role leads back to.
TopicOf(role) ==
    IF role.kind = "NONE" THEN ActionTopic(role.protocol, role.action, role.part)
    ELSE ServiceTopic(role.protocol, role.kind, role.service)

\* The roles that lead back to the topics they were read from.  Only topics
\* rq/.../status and the like, which end neither as a request nor as a reply,
\* are taken for those of an action that has other topics.
LeadsBack(topic, role) ==
    \/ TopicOf(role) = topic
    \/ role.kind = "NONE" /\ ~IsPrefix(Prefix("ROS2", "TOPIC"), topic)

AddressableKinds ==
    {k \in EndpointKinds \cup {"NONE"} :
        \A topic \in Texts :
            LET role == RpcInfo(topic)
            IN  role.rpc # "NONE" /\ role.kind = k => LeadsBack(topic, role)}

=============================================================================

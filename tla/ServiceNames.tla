----------------------------- MODULE ServiceNames -----------------------------
(***************************************************************************)
(* The topics of ServiceCalls under their names.                           *)
(*                                                                         *)
(* ServiceRegistry identifies a topic by its service or action, while the  *)
(* code has its name only and reads the service or action from it, in      *)
(* create_reader, publish_rpc and add_data.  Whatever the names are, the   *)
(* two come to the same.                                                   *)
(***************************************************************************)
EXTENDS ServiceCalls, RpcNames

\* A topic for which the pipe asks a reader is taken for a topic of the name,
\* kind and protocol that it was put together from.  What services_ is keyed by
\* is the name only: the same name in two protocols is one service to it.
AnnouncedIsRecognised ==
    \A t \in readers : IF t[2] \in ServiceTopics THEN ServicesRecognised[t[2]]
                                                 ELSE ActionsRecognised[t[2]]

\* What is published in answer to a topic, a reply to a request or a request
\* to a server that was discovered, goes to the service or action that the
\* topic belongs to: the name formed from what RpcInfo has read is the name
\* it was given.
RecognisedIsAddressable ==
    \A t \in readers : (IF t[2] \in ServiceTopics THEN t[2] ELSE "NONE") \in AddressableKinds

=============================================================================

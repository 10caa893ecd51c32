---------------------------- MODULE ServiceCalls ----------------------------
(***************************************************************************)
(* Requests and replies of plain services, beside the registry of services *)
(* that they are looked up in.                                             *)
(*                                                                         *)
(* send_service_request draws an identifier with Handler::mtx_ held and    *)
(* publishes with EnablerParticipant::mtx_ held; send_service_reply reads  *)
(* the protocol of the service and publishes in two sections of the latter *)
(* mutex.  Between the two, services are discovered, announced and revoked *)
(* and other requests come and go.  Each of the two sections is a step; so *)
(* is a delivery, which holds Handler::mtx_ to its end.                    *)
(*                                                                         *)
(* The remote clients and servers are external.  Which request of a remote *)
(* client a reply goes to is known to DDS Pipe, by its identifier.         *)
(***************************************************************************)
EXTENDS ServiceRegistry

CONSTANTS Senders,     \* threads of the application that send
          MaxRequests  \* bound on the identifiers drawn

ASSUME CallAssumption == MaxRequests \in Nat

VARIABLES
    requests_id,  \* Handler::requests_id_
    sending,      \* what each sender is about to publish
    sent,         \* requests published by the enabler
    refused,      \* requests whose call returned false
    received,     \* requests notified to the application
    replied,      \* requests that the application has answered
    answered      \* requests of the enabler whose reply was notified

exchange == <<requests_id, sending, sent, refused, received, replied, answered>>
callVars == <<vars, exchange>>

\* The first identifier is 1: 0 is what the application's variable holds.
Request == [service : PlainServices, id : Nat \ {0}]
Sending == [kind : ServiceTopics, service : PlainServices, id : Nat \ {0}]
NotSending == [kind |-> "none"]

CallInit ==
    /\ Init
    /\ requests_id = 0
    /\ sending = [c \in Senders |-> NotSending]
    /\ sent = {}
    /\ refused = {}
    /\ received = {}
    /\ replied = {}
    /\ answered = {}

\* What publish_rpc looks at before the payload.  A request needs a server
\* that is not the enabler's own, and the reader the type of the service.
CanPublish(s, kind) ==
    /\ services[s] # NoEntry
    /\ kind = "REQUEST" => services[s].external_server
    /\ <<s, kind>> \in readers
    /\ kind \in services[s].topics
    /\ <<s, kind>> \in foreign <=> kind \in services[s].foreign

-----------------------------------------------------------------------------
(* send_service_request.                                                   *)

\* Mutated form: the counter is read and written back.
DrawRequestId_NotKept(c, s) ==
    /\ sending[c] = NotSending
    /\ requests_id < MaxRequests
    /\ sending' = [sending EXCEPT ![c] = [kind |-> "REQUEST", service |-> s,
                                          id |-> requests_id + 1]]
    /\ UNCHANGED <<vars, requests_id, sent, refused, received, replied, answered>>

\* Mutated form: the identifier is that before the increment.
DrawRequestId_PostIncrement(c, s) ==
    /\ sending[c] = NotSending
    /\ requests_id < MaxRequests
    /\ requests_id' = requests_id + 1
    /\ sending' = [sending EXCEPT ![c] = [kind |-> "REQUEST", service |-> s,
                                          id |-> requests_id]]
    /\ UNCHANGED <<vars, sent, refused, received, replied, answered>>

\* get_new_request_id.
DrawRequestId(c, s) ==
    /\ sending[c] = NotSending
    /\ requests_id < MaxRequests
    /\ requests_id' = requests_id + 1
    /\ sending' = [sending EXCEPT ![c] = [kind |-> "REQUEST", service |-> s,
                                          id |-> requests_id + 1]]
    /\ UNCHANGED <<vars, sent, refused, received, replied, answered>>

Sent(c) == [service |-> sending[c].service, id |-> sending[c].id]

\* The identifier of a request that is refused is not used again.
PublishRequest(c) ==
    /\ sending[c].kind = "REQUEST"
    /\ \/ /\ CanPublish(sending[c].service, "REQUEST")
          /\ sent' = sent \cup {Sent(c)}
          /\ UNCHANGED refused
       \/ refused' = refused \cup {Sent(c)} /\ UNCHANGED sent
    /\ sending' = [sending EXCEPT ![c] = NotSending]
    /\ UNCHANGED <<vars, requests_id, received, replied, answered>>

-----------------------------------------------------------------------------
(* send_service_reply.                                                     *)

\* The application answers a request that it was notified of: the call
\* returns at once if the service is unknown.
ReadProtocol(c) ==
    \E r \in received \ replied :
        /\ sending[c] = NotSending
        /\ services[r.service] # NoEntry
        /\ sending' = [sending EXCEPT ![c] = [kind |-> "REPLY", service |-> r.service,
                                              id |-> r.id]]
        /\ UNCHANGED <<vars, requests_id, sent, refused, received, replied, answered>>

\* Nothing compares the identifier with those of the requests.
PublishReply(c) ==
    /\ sending[c].kind = "REPLY"
    /\ replied' = IF CanPublish(sending[c].service, "REPLY")
                  THEN replied \cup {Sent(c)} ELSE replied
    /\ sending' = [sending EXCEPT ![c] = NotSending]
    /\ UNCHANGED <<vars, requests_id, sent, refused, received, answered>>

-----------------------------------------------------------------------------
(* Handler::add_data on the topics of a service.                           *)

\* A request reaches the enabler while an endpoint of its own is known.
ReceiveRequest(s) ==
    /\ endpoints[RequestOf(s)] > 0
    /\ requests_id < MaxRequests
    /\ requests_id' = requests_id + 1
    /\ received' = received \cup {[service |-> s, id |-> requests_id + 1]}
    /\ UNCHANGED <<vars, sending, sent, refused, replied, answered>>

\* The identifier of a reply is that of the request; it is not looked up.
ReceiveReply ==
    \E r \in sent :
        /\ answered' = answered \cup {r}
        /\ UNCHANGED <<vars, requests_id, sending, sent, refused, received, replied>>

-----------------------------------------------------------------------------
RegistryStep == Next /\ UNCHANGED exchange

CallNext ==
    \/ RegistryStep
    \/ \E c \in Senders : \/ \E s \in PlainServices : DrawRequestId(c, s)
                          \/ PublishRequest(c)
                          \/ ReadProtocol(c)
                          \/ PublishReply(c)
    \/ \E s \in PlainServices : ReceiveRequest(s)
    \/ ReceiveReply

CallSpec == CallInit /\ [][CallNext]_callVars

-----------------------------------------------------------------------------
(* Properties.                                                             *)

CallTypeOK ==
    /\ requests_id \in Nat
    /\ sending \in [Senders -> Sending \cup {NotSending}]
    /\ sent \subseteq Request
    /\ refused \subseteq Request
    /\ received \subseteq Request
    /\ replied \subseteq Request
    /\ answered \subseteq Request

\* Requests that an identifier has been returned for or is about to be.
Asking(c) == IF sending[c].kind = "REQUEST" THEN {sending[c].id} ELSE {}
Ids(R) == {r.id : r \in R}

\* DDSEnabler.hpp: the identifier of a request matches the one received in
\* the reply callback.  Threads that send requests and the pipe that delivers
\* others draw from one counter: no request that was sent shares its
\* identifier with one that was refused, received or is about to be sent.
RequestIdsDiffer ==
    /\ \A q, r \in sent \cup refused \cup received : q.id = r.id => q = r
    /\ sent \cap refused = {} /\ (sent \cup refused) \cap received = {}
    /\ \A c \in Senders :
          /\ Asking(c) \cap Ids(sent \cup refused \cup received) = {}
          /\ \A d \in Senders \ {c} : Asking(c) \cap Asking(d) = {}

\* The application can answer a request that it was notified of once there
\* is a reader for the replies, even if the service is revoked or discovered
\* before the reply or between its two sections.  It cannot while
\* announce_service waits, with its endpoint in the database already and the
\* service not in services_ yet, nor once that wait has timed out; nor may it
\* if the topic of the replies was discovered with another type than the one
\* that was announced, which publish_rpc refuses.
RequestIsAnswerable ==
    \A r \in received :
        ( /\ <<r.service, "REPLY">> \in readers \ foreign
          /\ Waiting(RequestOf(r.service)) = {}
          /\ RequestOf(r.service) \notin lost )
        => CanPublish(r.service, "REPLY")

=============================================================================

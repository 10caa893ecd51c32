--------------------------- MODULE ServiceRegistry ---------------------------
(***************************************************************************)
(* The services and actions that EnablerParticipant knows: those that the  *)
(* pipe discovers and those that the application announces.                *)
(*                                                                         *)
(* A discovery thread asks for the reader of each topic that appears,      *)
(* application threads announce and revoke.  Every function holds mtx_,    *)
(* and an announcement gives it up while it waits for a reader: an action  *)
(* below is what happens from one release of the mutex to the next.        *)
(*                                                                         *)
(* An endpoint of either side of a service makes its topic discovered      *)
(* (DiscoveryTrigger::ANY), so that a client looks like a server.  Which   *)
(* topics appear, of which types, and when, is external, as is the answer  *)
(* of the application to a query of types.                                 *)
(***************************************************************************)
EXTENDS Naturals, FiniteSets

CONSTANTS PlainServices,  \* services that are no part of an action
          Actions,
          Callers,        \* threads of the application
          CallersOf,      \* those that announce and revoke each of them
          MaxCalls,       \* bound on the number of calls
          OtherType,      \* topics that may appear with another type than
                          \* the one that the application announces
          NoEntry         \* absence of a key in a map

\* The services of an action, in the order of query_action_nts_.
ActionServices == {"GOAL", "CANCEL", "RESULT"}
ActionTopics == {"FEEDBACK", "STATUS"}

Services == PlainServices \cup (Actions \X ActionServices)
Names == PlainServices \cup Actions

ServiceTopics == {"REQUEST", "REPLY"}
Topics == (Services \X ServiceTopics) \cup (Actions \X ActionTopics)
RequestOf(s) == <<s, "REQUEST">>

\* fully_discovered and rpc_topic are set exactly when both topics are.
\* foreign: those of its topics that have another type than the announced.
\* maker: the thread whose announcement has made the object, if any has: the
\* weak pointer of that thread's action leads to the entry no longer than it.
ServiceDiscovered ==
    [ topics            : SUBSET ServiceTopics,
      foreign           : SUBSET ServiceTopics,
      maker             : Callers \cup {NoEntry},
      endpoint_request  : BOOLEAN,
      enabler_as_server : BOOLEAN,
      external_server   : BOOLEAN ]

\* services: the weak pointers that lead to an entry of services_.  Nothing
\* but get_action reads fully_discovered, when it has just been set.
ActionDiscovered ==
    [ services          : SUBSET ActionServices,
      topics            : SUBSET ActionTopics,
      enabler_as_server : BOOLEAN,
      external_server   : BOOLEAN ]

\* No thread of the application manages a service of an action as if it
\* were a plain one.
ASSUME RegistryAssumption ==
    /\ PlainServices \cap (Actions \X ActionServices) = {}
    /\ PlainServices \cap Actions = {}
    /\ NoEntry \notin Names \cup Callers \cup ServiceDiscovered \cup ActionDiscovered
    /\ IsFiniteSet(Callers)
    /\ CallersOf \in [Names -> SUBSET Callers]
    /\ MaxCalls \in Nat
    /\ OtherType \subseteq PlainServices \X ServiceTopics

VARIABLES
    services,   \* services_
    actions,    \* actions_
    readers,    \* the topics in readers_
    foreign,    \* those of them that have another type than the announced
    endpoints,  \* endpoints of the enabler in the discovery database
    call,       \* what each thread of the application is announcing, and
                \* the topic it waits for the reader of
    calls,      \* number of calls made
    announced,  \* announced with success and not revoked since
    asked,      \* announced at any time, with success or not
    told,       \* notified to the application as discovered
    lost,       \* request topics with an endpoint that nothing leads to
    contended   \* actions announced by two threads at once

registry == <<services, actions>>
ghosts == <<announced, asked, told, lost, contended>>
vars == <<services, actions, readers, foreign, endpoints, call, calls, announced,
          asked, told, lost, contended>>

Idle == [name |-> NoEntry, topic |-> <<>>]

Init ==
    /\ services = [s \in Services |-> NoEntry]
    /\ actions = [a \in Actions |-> NoEntry]
    /\ readers = {}
    /\ foreign = {}
    /\ endpoints = [t \in Topics |-> 0]
    /\ call = [c \in Callers |-> Idle]
    /\ calls = 0
    /\ announced = {}
    /\ asked = {}
    /\ told = {}
    /\ lost = {}
    /\ contended = {}

-----------------------------------------------------------------------------
(* Discovery: create_reader.                                               *)

NewService ==
    [ topics |-> {}, foreign |-> {}, maker |-> NoEntry, endpoint_request |-> FALSE,
      enabler_as_server |-> FALSE, external_server |-> FALSE ]
NewAction == [ services |-> {}, topics |-> {},
               enabler_as_server |-> FALSE, external_server |-> FALSE ]

FullyDiscovered(f, s) == f[s] # NoEntry /\ f[s].topics = ServiceTopics

\* Mutated form: the entry is made anew.
ServiceEntry_Replaced(s) == NewService

\* try_emplace.
ServiceEntry(s) == IF services[s] = NoEntry THEN NewService ELSE services[s]

ActionEntry(a) == IF actions[a] = NoEntry THEN NewAction ELSE actions[a]

\* Mutated form: a service is complete when its reply topic comes last.
Completes_ReplyLast(s, kind) ==
    kind = "REPLY" /\ ServiceEntry(s).topics = {"REQUEST"}

\* add_topic returns true for the topic that was missing.
Completes(s, kind) ==
    /\ kind \notin ServiceEntry(s).topics
    /\ ServiceEntry(s).topics \cup {kind} = ServiceTopics

\* Mutated form: any topic of a service makes it external.
ServiceWithTopic_AlwaysExternal(s, kind, odd) ==
    [ServiceEntry(s) EXCEPT !.topics = @ \cup {kind},
                            !.foreign = @ \cup (odd \ ServiceEntry(s).topics),
                            !.external_server = TRUE]

\* A topic that the entry has already keeps its type.
ServiceWithTopic(s, kind, odd) ==
    [ServiceEntry(s) EXCEPT !.topics = @ \cup {kind},
                            !.foreign = @ \cup (odd \ ServiceEntry(s).topics),
                            !.external_server = @ \/ Completes(s, kind)]

\* check_fully_discovered.
ActionComplete(f, a, entry) ==
    /\ entry.services = ActionServices
    /\ \A k \in ActionServices : FullyDiscovered(f, <<a, k>>)
    /\ entry.topics = ActionTopics

\* The end of action_discovered_nts_: every topic of an action that comes
\* when the action is complete has it notified.
Checked(f, a, entry) ==
    IF ActionComplete(f, a, entry)
    THEN /\ actions' = [actions EXCEPT ![a] = [entry EXCEPT !.external_server = TRUE]]
         /\ told' = told \cup {a}
    ELSE /\ actions' = [actions EXCEPT ![a] = entry]
         /\ UNCHANGED told

\* odd is {kind} if the topic has another type than the announced, or {}.
DiscoverPlain(s, kind, odd) ==
    /\ {s} \X odd \subseteq OtherType
    /\ foreign' = foreign \cup ({s} \X odd)
    /\ services' = [services EXCEPT ![s] = ServiceWithTopic(s, kind, odd)]
    /\ told' = IF Completes(s, kind) THEN told \cup {s} ELSE told
    /\ UNCHANGED actions

\* The action is led to a service once the service is complete.
DiscoverActionService(a, k, kind) ==
    LET found == IF Completes(<<a, k>>, kind) THEN {k} ELSE {}
    IN  /\ services' = [services EXCEPT ![<<a, k>>] = ServiceWithTopic(<<a, k>>, kind, {})]
        /\ Checked(services', a, [ActionEntry(a) EXCEPT !.services = @ \cup found])

DiscoverActionTopic(a, kind) ==
    /\ Checked(services, a, [ActionEntry(a) EXCEPT !.topics = @ \cup {kind}])
    /\ UNCHANGED services

\* Topics that the pipe knows from an endpoint of the enabler itself: that
\* endpoint's, and the replies to the requests.
IsOwn(t) ==
    \/ endpoints[t] > 0
    \/ \E s \in Services : t = <<s, "REPLY">> /\ endpoints[RequestOf(s)] > 0

\* The pipe asks for the reader of a topic that has none.  A topic that the
\* enabler is the discoverer of is not notified.
CreateReader(t) ==
    /\ t \notin readers
    /\ readers' = readers \cup {t}
    /\ \/ /\ IsOwn(t)
          /\ UNCHANGED <<registry, foreign, told>>
       \/ \E s \in PlainServices, kind \in ServiceTopics :
             t = <<s, kind>> /\ \E odd \in SUBSET {kind} : DiscoverPlain(s, kind, odd)
       \/ \E a \in Actions, k \in ActionServices, kind \in ServiceTopics :
             /\ t = <<<<a, k>>, kind>>
             /\ DiscoverActionService(a, k, kind)
             /\ UNCHANGED foreign
       \/ \E a \in Actions, kind \in ActionTopics :
             /\ t = <<a, kind>>
             /\ DiscoverActionTopic(a, kind)
             /\ UNCHANGED foreign
    /\ UNCHANGED <<endpoints, call, calls, announced, asked, lost, contended>>

-----------------------------------------------------------------------------
(* Calls of the application.                                               *)

MakesCall(c, n) ==
    /\ c \in CallersOf[n]
    /\ call[c] = Idle
    /\ calls < MaxCalls
    /\ calls' = calls + 1

\* The other threads that are in a wait of an announcement of n.
Others(c, n) == {d \in Callers \ {c} : call[d].name = n}

Announces(c, n) ==
    /\ MakesCall(c, n)
    /\ asked' = asked \cup {n}
    /\ contended' = IF Others(c, n) = {} THEN contended ELSE contended \cup {n}

\* create_topic_writer_nts_, until the wait.
WaitsFor(c, n, t) ==
    /\ endpoints' = [endpoints EXCEPT ![t] = @ + 1]
    /\ call' = [call EXCEPT ![c] = [name |-> n, topic |-> t]]

\* The types are unknown, or the service has a reader: nothing has changed.
AnnounceRefused(c, n) ==
    /\ Announces(c, n)
    /\ UNCHANGED <<registry, readers, foreign, endpoints, call, announced,
                   told, lost>>

\* A service that is known is announced by its flag.
AnnounceKnownService(c, s) ==
    /\ Announces(c, s)
    /\ services[s] # NoEntry
    /\ ~services[s].enabler_as_server
    /\ services' = [services EXCEPT ![s].enabler_as_server = TRUE]
    /\ announced' = announced \cup {s}
    /\ UNCHANGED <<actions, readers, foreign, endpoints, call, told, lost>>

AnnounceNewService(c, s) ==
    /\ Announces(c, s)
    /\ services[s] = NoEntry
    /\ RequestOf(s) \notin readers
    /\ WaitsFor(c, s, RequestOf(s))
    /\ UNCHANGED <<registry, readers, foreign, announced, told, lost>>

AnnounceService(c, s) ==
    \/ AnnounceKnownService(c, s)
    \/ AnnounceNewService(c, s)
    \/ AnnounceRefused(c, s) /\ (services[s] # NoEntry => services[s].enabler_as_server)

\* What the announcement of a service puts in services_, whatever is there.
AnnouncedService(c) ==
    [ topics |-> ServiceTopics, foreign |-> {}, maker |-> c, endpoint_request |-> TRUE,
      enabler_as_server |-> TRUE, external_server |-> FALSE ]

\* The topics whose endpoint is forgotten with the entries of services ss.
Forgotten(ss) ==
    {RequestOf(s) : s \in {z \in ss : services[z] # NoEntry /\ services[z].endpoint_request}}

ServiceAnnounced(c, s) ==
    /\ call[c].topic = RequestOf(s)
    /\ RequestOf(s) \in readers
    /\ services' = [services EXCEPT ![s] = AnnouncedService(c)]
    /\ lost' = lost \cup Forgotten({s})
    /\ announced' = announced \cup {s}
    /\ call' = [call EXCEPT ![c] = Idle]
    /\ UNCHANGED <<actions, readers, foreign, endpoints, calls, asked, told,
                   contended>>

\* The endpoint stays where it is.
WaitTimesOut(c) ==
    /\ call[c] # Idle
    /\ call[c].topic \notin readers
    /\ lost' = lost \cup {call[c].topic}
    /\ call' = [call EXCEPT ![c] = Idle]
    /\ UNCHANGED <<registry, readers, foreign, endpoints, calls, announced,
                   asked, told, contended>>

-----------------------------------------------------------------------------
(* Announcing an action.                                                   *)

ServicesKnown(a) == actions[a] # NoEntry /\ actions[a].services = ActionServices

\* An action whose services are known is announced by flags.
AnnounceKnownAction(c, a) ==
    /\ Announces(c, a)
    /\ ServicesKnown(a)
    /\ ~actions[a].enabler_as_server
    /\ actions' = [actions EXCEPT ![a].enabler_as_server = TRUE]
    /\ services' = [s \in Services |->
                       IF s \in {a} \X ActionServices
                       THEN [services[s] EXCEPT !.enabler_as_server = TRUE]
                       ELSE services[s]]
    /\ announced' = announced \cup {a}
    /\ UNCHANGED <<readers, foreign, endpoints, call, told, lost>>

\* Any other action is erased, and its services once its types are known;
\* then the topics of the action are taken one after the other.
AnnounceNewAction(c, a) ==
    LET parts == {a} \X ActionServices
        goal == RequestOf(<<a, "GOAL">>)
        erased == [s \in Services |-> IF s \in parts THEN NoEntry ELSE services[s]]
    IN  /\ Announces(c, a)
        /\ ~ServicesKnown(a)
        /\ actions[a] # NoEntry => ~actions[a].enabler_as_server
        /\ actions' = [actions EXCEPT ![a] = NoEntry]
        /\ \/ UNCHANGED <<services, endpoints, call, lost>>
           \/ /\ services' = erased
              /\ lost' = lost \cup Forgotten(parts)
              /\ IF goal \in readers THEN UNCHANGED <<endpoints, call>>
                                     ELSE \/ WaitsFor(c, a, goal)
                                          \/ UNCHANGED <<endpoints, call>>
        /\ UNCHANGED <<readers, foreign, announced, told>>

\* One that is announced already is refused, and so is any protocol but ROS 2's.
AnnounceAction(c, a) ==
    AnnounceRefused(c, a) \/ AnnounceKnownAction(c, a) \/ AnnounceNewAction(c, a)

Fails(c) == call' = [call EXCEPT ![c] = Idle] /\ UNCHANGED endpoints

\* A service of the action is in services_, and an entry that was discovered
\* meanwhile out of it, for the action that was discovered too; so is one
\* that another thread has put there.
Insert(c, a, k) ==
    /\ services' = [services EXCEPT ![<<a, k>>] = AnnouncedService(c)]
    /\ lost' = lost \cup Forgotten({<<a, k>>})

Unlinked(a, k) ==
    IF actions[a] = NoEntry THEN actions
    ELSE [actions EXCEPT ![a].services = @ \ {k}]

\* The action of query_action_nts_: another thread may have taken a service
\* that it has inserted out of f, which is services_ at its end.
AnnouncedAction(c, a, f) ==
    [ services |-> {k \in ActionServices :
                       f[<<a, k>>] # NoEntry /\ f[<<a, k>>].maker = c},
      topics |-> ActionTopics, enabler_as_server |-> TRUE, external_server |-> FALSE ]

\* The goal service is followed by the cancel service, and that one by the
\* result service: a service with a reader already is an error.
ServiceInserted(c, a, k, next) ==
    /\ call[c] = [name |-> a, topic |-> RequestOf(<<a, k>>)]
    /\ RequestOf(<<a, k>>) \in readers
    /\ Insert(c, a, k)
    /\ actions' = Unlinked(a, k)
    /\ \/ RequestOf(<<a, next>>) \notin readers /\ WaitsFor(c, a, RequestOf(<<a, next>>))
       \/ Fails(c)
    /\ UNCHANGED <<readers, foreign, calls, announced, asked, told, contended>>

\* The two topics of the action follow.  A feedback topic that has a reader
\* is used as it is; the status topic gets an endpoint in any case, and
\* need not be waited for if it has a reader.
StatusAndEnd(c, a, f) ==
    /\ endpoints' = [endpoints EXCEPT ![<<a, "STATUS">>] = @ + 1]
    /\ IF <<a, "STATUS">> \in readers
       THEN /\ call' = [call EXCEPT ![c] = Idle]
            /\ actions' = [f EXCEPT ![a] = AnnouncedAction(c, a, services')]
            /\ announced' = announced \cup {a}
       ELSE /\ call' = [call EXCEPT ![c] = [name |-> a, topic |-> <<a, "STATUS">>]]
            /\ actions' = f
            /\ UNCHANGED announced

ResultInserted(c, a) ==
    LET result == RequestOf(<<a, "RESULT">>)
        f == Unlinked(a, "RESULT")
    IN  /\ call[c] = [name |-> a, topic |-> result]
        /\ result \in readers
        /\ Insert(c, a, "RESULT")
        /\ \/ Fails(c) /\ actions' = f /\ UNCHANGED announced
           \/ /\ <<a, "FEEDBACK">> \notin readers
              /\ WaitsFor(c, a, <<a, "FEEDBACK">>)
              /\ actions' = f
              /\ UNCHANGED announced
           \/ <<a, "FEEDBACK">> \in readers /\ StatusAndEnd(c, a, f)
        /\ UNCHANGED <<readers, foreign, calls, asked, told, contended>>

FeedbackReady(c, a) ==
    /\ call[c] = [name |-> a, topic |-> <<a, "FEEDBACK">>]
    /\ <<a, "FEEDBACK">> \in readers
    /\ UNCHANGED <<services, readers, foreign, calls, asked, told, lost,
                   contended>>
    /\ \/ Fails(c) /\ UNCHANGED <<actions, announced>>
       \/ StatusAndEnd(c, a, actions)

StatusReady(c, a) ==
    /\ call[c] = [name |-> a, topic |-> <<a, "STATUS">>]
    /\ <<a, "STATUS">> \in readers
    /\ call' = [call EXCEPT ![c] = Idle]
    /\ actions' = [actions EXCEPT ![a] = AnnouncedAction(c, a, services)]
    /\ announced' = announced \cup {a}
    /\ UNCHANGED <<services, readers, foreign, endpoints, calls, asked, told,
                   lost, contended>>

ContinueAction(c, a) ==
    \/ ServiceInserted(c, a, "GOAL", "CANCEL")
    \/ ServiceInserted(c, a, "CANCEL", "RESULT")
    \/ ResultInserted(c, a)
    \/ FeedbackReady(c, a)
    \/ StatusReady(c, a)

-----------------------------------------------------------------------------
(* Revocation: revoke_service_nts_.                                        *)

Revocable(s) ==
    /\ services[s] # NoEntry
    /\ services[s].enabler_as_server
    /\ services[s].endpoint_request

\* Those of ss that have no external server lose their endpoint and reader.
Stopped(ss) == {s \in ss : ~services[s].external_server}

\* Mutated form: the endpoint is erased from the database only.
RevokedService_EndpointKept(svc) ==
    IF svc.external_server THEN [svc EXCEPT !.enabler_as_server = FALSE]
    ELSE [svc EXCEPT !.topics = @ \ {"REQUEST"}, !.foreign = @ \ {"REQUEST"}]

\* Mutated form: the topic of the replies is removed, not of the requests.
RevokedService_ReplyRemoved(svc) ==
    IF svc.external_server THEN [svc EXCEPT !.enabler_as_server = FALSE]
    ELSE [svc EXCEPT !.topics = @ \ {"REPLY"}, !.foreign = @ \ {"REPLY"},
                     !.endpoint_request = FALSE]

\* enabler_as_server is left as it is when the server has been stopped.
RevokedService(svc) ==
    IF svc.external_server THEN [svc EXCEPT !.enabler_as_server = FALSE]
    ELSE [svc EXCEPT !.topics = @ \ {"REQUEST"}, !.foreign = @ \ {"REQUEST"},
                     !.endpoint_request = FALSE]

\* Mutated form: the endpoint stays in the discovery database.
RevokeServices_DatabaseKept(ss) ==
    /\ services' = [s \in Services |->
                       IF s \in ss THEN RevokedService(services[s]) ELSE services[s]]
    /\ readers' = readers \ {RequestOf(s) : s \in Stopped(ss)}
    /\ foreign' = foreign \ {RequestOf(s) : s \in Stopped(ss)}
    /\ UNCHANGED endpoints

RevokeServices(ss) ==
    LET gone == {RequestOf(s) : s \in Stopped(ss)}
    IN  /\ services' = [s \in Services |->
                           IF s \in ss THEN RevokedService(services[s]) ELSE services[s]]
        /\ endpoints' = [t \in Topics |->
                           IF t \in gone THEN endpoints[t] - 1 ELSE endpoints[t]]
        /\ readers' = readers \ gone
        /\ foreign' = foreign \ gone

RevokeRefused(c, n) ==
    /\ MakesCall(c, n)
    /\ UNCHANGED <<registry, readers, foreign, endpoints, call, ghosts>>

RevokeService(c, s) ==
    \/ ~Revocable(s) /\ RevokeRefused(c, s)
    \/ /\ Revocable(s)
       /\ MakesCall(c, s)
       /\ RevokeServices({s})
       /\ announced' = announced \ {s}
       /\ UNCHANGED <<actions, call, asked, told, lost, contended>>

\* Mutated form: the cancel service is forgotten.
RevokedParts_NoCancel(a) ==
    {<<a, k>> : k \in {j \in {"GOAL", "RESULT"} : Revocable(<<a, j>>)}}

\* The services of a that are revoked: none if the action does not lead to
\* all of them, and none after the first that cannot be.
RevokedParts(a) ==
    LET order == <<"GOAL", "RESULT", "CANCEL">>
        revoked(i) == /\ actions[a].services = ActionServices
                      /\ \A h \in 1..i : Revocable(<<a, order[h]>>)
    IN  {<<a, order[i]>> : i \in {j \in 1..3 : revoked(j)}}

\* Anybody's endpoint on a topic of the action makes it an external server's.
RevocationIsFlag(a) ==
    /\ actions[a].external_server
    /\ actions' = [actions EXCEPT ![a].enabler_as_server = FALSE]
    /\ announced' = announced \ {a}
    /\ UNCHANGED <<services, readers, foreign, endpoints>>

RevocationOfServices(a) ==
    /\ ~actions[a].external_server
    /\ RevokeServices(RevokedParts(a))
    /\ IF RevokedParts(a) = {a} \X ActionServices
       THEN /\ actions' = [actions EXCEPT ![a].enabler_as_server = FALSE]
            /\ announced' = announced \ {a}
       ELSE UNCHANGED <<actions, announced>>

RevokeAction(c, a) ==
    LET served == actions[a] # NoEntry /\ actions[a].enabler_as_server
    IN  \/ ~served /\ RevokeRefused(c, a)
        \/ /\ served
           /\ MakesCall(c, a)
           /\ RevocationIsFlag(a) \/ RevocationOfServices(a)
           /\ UNCHANGED <<call, asked, told, lost, contended>>

-----------------------------------------------------------------------------
ServiceCall ==
    \E c \in Callers, s \in PlainServices :
        AnnounceService(c, s) \/ ServiceAnnounced(c, s) \/ RevokeService(c, s)

ActionCall ==
    \E c \in Callers, a \in Actions :
        AnnounceAction(c, a) \/ ContinueAction(c, a) \/ RevokeAction(c, a)

Next ==
    \/ \E t \in Topics : CreateReader(t)
    \/ ServiceCall
    \/ ActionCall
    \/ \E c \in Callers : WaitTimesOut(c)

Spec == Init /\ [][Next]_vars

-----------------------------------------------------------------------------
(* Properties.                                                             *)

TypeOK ==
    /\ services \in [Services -> ServiceDiscovered \cup {NoEntry}]
    /\ actions \in [Actions -> ActionDiscovered \cup {NoEntry}]
    /\ readers \subseteq Topics
    /\ foreign \subseteq readers
    /\ endpoints \in [Topics -> Nat]
    /\ call \in [Callers -> {Idle} \cup [name : Names, topic : Topics]]
    /\ calls \in 0..MaxCalls
    /\ announced \subseteq Names
    /\ asked \subseteq Names
    /\ told \subseteq Names
    /\ lost \subseteq Topics
    /\ contended \subseteq Names

HasEndpoint(s) == services[s] # NoEntry /\ services[s].endpoint_request

\* A service with an endpoint of the enabler is whole, whatever is discovered
\* or announced beside it: its two topics are there, its request topic has a
\* reader and an endpoint in the database, and no external server is recorded
\* for it, so that revoke_service_nts_ always withdraws the endpoint.
EndpointIsComplete ==
    \A s \in Services : HasEndpoint(s) =>
        /\ services[s].topics = ServiceTopics
        /\ services[s].enabler_as_server
        /\ ~services[s].external_server
        /\ RequestOf(s) \in readers
        /\ endpoints[RequestOf(s)] > 0

Waiting(t) == {c \in Callers : call[c].topic = t}

\* An endpoint is in the discovery database for as long as an entry or a
\* waiting call leads to it, and no longer, unless a call has timed out or
\* an entry was replaced: nothing withdraws an endpoint twice, and a service
\* that is revoked leaves none behind.
EndpointsAreOwned ==
    \A s \in Services : RequestOf(s) \notin lost =>
        endpoints[RequestOf(s)] = Cardinality(Waiting(RequestOf(s)))
                                     + (IF HasEndpoint(s) THEN 1 ELSE 0)

\* An action that the enabler serves leads to its three services, and has an
\* endpoint for each of them or for none: revoke_action never stops half way.
\* Excepted is one that two threads have announced at once, each of which can
\* erase or replace the services that the other has put in services_.
ServedActionIsWhole ==
    \A a \in Actions \ contended :
        ( actions[a] # NoEntry /\ actions[a].enabler_as_server ) =>
            /\ actions[a].services = ActionServices
            /\ \A j, k \in ActionServices : HasEndpoint(<<a, j>>) = HasEndpoint(<<a, k>>)

TopicsOf(a) == ((({a} \X ActionServices) \X ServiceTopics) \cup ({a} \X ActionTopics))

\* Callbacks.hpp: the discovery of a service or an action is notified.  In
\* whatever order its topics appear, one that the application has not tried
\* to announce is notified, and known as external, once all of them have.
DiscoveredIsNotified ==
    /\ \A s \in PlainServices \ asked :
          ({s} \X ServiceTopics) \subseteq readers =>
              s \in told /\ services[s].external_server
    /\ \A a \in Actions \ asked :
          TopicsOf(a) \subseteq readers => a \in told /\ actions[a].external_server

\* A service or action that is announced keeps its endpoints until it is
\* revoked, whatever is discovered and whatever other threads announce.
AnnouncedKeepsEndpoint ==
    [][/\ \A s \in announced \cap announced' \cap PlainServices :
             HasEndpoint(s) => HasEndpoint(s)'
       /\ \A a \in announced \cap announced' \cap Actions, k \in ActionServices :
             HasEndpoint(<<a, k>>) => HasEndpoint(<<a, k>>)']_vars

\* DDSEnabler.hpp: revoke_action revokes the server of the action.  Once it
\* has returned true, no service of the action has an endpoint.
RevokedActionIsStopped ==
    [][\A a \in Actions \cap (announced \ announced') :
          \A k \in ActionServices : ~HasEndpoint(<<a, k>>)']_vars

=============================================================================

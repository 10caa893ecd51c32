---------------------------- MODULE ServiceProofs -----------------------------
(***************************************************************************)
(* Proofs about the services: ServiceRegistry, ServiceCalls and RpcNames,  *)
(* for any services, actions, callers, senders and names.                  *)
(*                                                                         *)
(* The registry.  BaseInv is about services one by one: the endpoints in   *)
(* the database are counted against the calls that wait for a reader and   *)
(* the entry that holds one.  Knit is about the services of an action,     *)
(* however many threads announce it: what it leads to is known, and what a *)
(* thread has inserted it does not lead to before it is announced.         *)
(* ActionOK adds what only holds while no two threads announce it at once: *)
(* its three services are all there, with their endpoints or without.      *)
(*                                                                         *)
(* The requests.  The steps of ServiceCalls are those of the registry and  *)
(* steps that leave it alone, so that all that is proved about the         *)
(* registry holds.  CountedInv bounds every identifier by the counter that *)
(* it was drawn from; AnswerInv follows a service from the first request   *)
(* that was delivered for it, and TypesInv the type of its reply topic.    *)
(*                                                                         *)
(* The names.  RpcInfo looks at the two ends of a name only: the lemmas    *)
(* say what is at the ends of a name that was put together, and put        *)
(* together again what was taken apart.                                    *)
(***************************************************************************)
EXTENDS ServiceNames, FiniteSetTheorems, SequenceTheorems, TLAPS

\* TypeOK but for the types of topics and for what was announced at once.
EntriesOK ==
    /\ services \in [Services -> ServiceDiscovered \cup {NoEntry}]
    /\ actions \in [Actions -> ActionDiscovered \cup {NoEntry}]
    /\ readers \subseteq Topics
    /\ endpoints \in [Topics -> Nat]
    /\ call \in [Callers -> {Idle} \cup [name : Names, topic : Topics]]
    /\ calls \in 0..MaxCalls
    /\ announced \subseteq Names
    /\ asked \subseteq Names
    /\ told \subseteq Names
    /\ lost \subseteq Topics

\* EndpointIsComplete without the database.
ServiceInv ==
    \A s \in Services : HasEndpoint(s) =>
        /\ services[s].topics = ServiceTopics
        /\ services[s].enabler_as_server
        /\ ~services[s].external_server
        /\ RequestOf(s) \in readers

W(t) == Cardinality(Waiting(t))
Own(s) == IF HasEndpoint(s) THEN 1 ELSE 0

CountInv ==
    \A s \in Services :
        LET t == RequestOf(s) IN
        /\ endpoints[t] >= W(t) + Own(s)
        /\ t \notin lost => endpoints[t] = W(t) + Own(s)

\* What a thread waits for belongs to what it announces, which is its own.
CallInv ==
    \A c \in Callers : call[c] # Idle =>
        LET n == call[c].name IN
        /\ c \in CallersOf[n]
        /\ \/ n \in PlainServices /\ call[c].topic = RequestOf(n)
           \/ /\ n \in Actions
              /\ \/ \E k \in ActionServices : call[c].topic = RequestOf(<<n, k>>)
                 \/ \E k \in ActionTopics : call[c].topic = <<n, k>>

BaseInv == EntriesOK /\ ServiceInv /\ CountInv /\ CallInv

-----------------------------------------------------------------------------
(* Counting those who wait.                                                *)

\* The number of calls that wait for a reader is a natural number.
LEMMA WaitingFinite ==
    ASSUME NEW t
    PROVE  IsFiniteSet(Waiting(t)) /\ W(t) \in Nat
<1>1. Waiting(t) \subseteq Callers
  BY DEF Waiting
<1> QED
  BY <1>1, RegistryAssumption, FS_Subset, FS_CardinalityType DEF W

\* A call that moves from the wait for one topic to another, or to none,
\* leaves the count of the first and enters that of the second.
LEMMA WaitingMoves ==
    ASSUME EntriesOK, NEW c \in Callers, NEW new, NEW t,
           call' = [call EXCEPT ![c] = new]
    PROVE  /\ W(t)' \in Nat
           /\ call[c].topic # t /\ new.topic # t => W(t)' = W(t)
           /\ call[c].topic # t /\ new.topic = t => W(t)' = W(t) + 1
           /\ call[c].topic = t /\ new.topic # t => W(t)' = W(t) - 1 /\ W(t) > 0
<1>1. \A d \in Callers : call'[d] = IF d = c THEN new ELSE call[d]
  BY DEF EntriesOK
<1>2. IsFiniteSet(Waiting(t)) /\ W(t) \in Nat
  BY WaitingFinite
<1>3. call[c].topic # t /\ new.topic # t => Waiting(t)' = Waiting(t)
  BY <1>1 DEF Waiting
<1>4. call[c].topic # t /\ new.topic = t =>
          Waiting(t)' = Waiting(t) \cup {c} /\ c \notin Waiting(t)
  BY <1>1 DEF Waiting
<1>5. call[c].topic = t /\ new.topic # t =>
          Waiting(t)' = Waiting(t) \ {c} /\ c \in Waiting(t)
  BY <1>1 DEF Waiting
<1>6. call[c].topic = t /\ new.topic = t => Waiting(t)' = Waiting(t)
  BY <1>1 DEF Waiting
<1>7. call[c].topic # t /\ new.topic = t => W(t)' = W(t) + 1
  BY <1>2, <1>4, FS_AddElement DEF W
<1>8. call[c].topic = t /\ new.topic # t => W(t)' = W(t) - 1 /\ W(t) > 0
  BY <1>2, <1>5, FS_RemoveElement, FS_EmptySet DEF W
<1> QED
  BY <1>2, <1>3, <1>6, <1>7, <1>8 DEF W

\* Topics are told apart by their service or action and by their kind.
LEMMA TopicsDiffer ==
    /\ \A s \in Services : RequestOf(s) \in Topics
    /\ \A s, z : RequestOf(s) = RequestOf(z) => s = z
    /\ \A s, a : \A kind \in ActionTopics : RequestOf(s) # <<a, kind>>
    /\ \A s : RequestOf(s) # Idle.topic
    /\ \A a \in Actions, kind \in ActionTopics : <<a, kind>> \in Topics
    /\ \A a \in Actions, k \in ActionServices : <<a, k>> \in Services
BY DEF RequestOf, Idle, ActionTopics, Topics, Services, ServiceTopics

-----------------------------------------------------------------------------
(* Discovery.                                                              *)

\* add_topic yields an entry, and changes nothing in one with an endpoint.
LEMMA WithTopicLemma ==
    ASSUME EntriesOK, ServiceInv, NEW s \in Services, NEW kind \in ServiceTopics,
           NEW odd \in SUBSET {kind}
    PROVE  /\ ServiceWithTopic(s, kind, odd) \in ServiceDiscovered
           /\ ServiceWithTopic(s, kind, odd).endpoint_request = HasEndpoint(s)
           /\ ServiceWithTopic(s, kind, odd).topics = ServiceEntry(s).topics \cup {kind}
           /\ ServiceWithTopic(s, kind, odd).maker = ServiceEntry(s).maker
           /\ HasEndpoint(s) => ServiceWithTopic(s, kind, odd) = services[s]
<1>1. ServiceEntry(s) \in ServiceDiscovered
  BY DEF EntriesOK, ServiceEntry, NewService, ServiceDiscovered
<1>2. ServiceEntry(s).endpoint_request = HasEndpoint(s)
  BY <1>1 DEF ServiceEntry, NewService, HasEndpoint, EntriesOK, ServiceDiscovered
<1>3. Completes(s, kind) \in BOOLEAN
  BY DEF Completes
<1>4. ASSUME HasEndpoint(s) PROVE ServiceWithTopic(s, kind, odd) = services[s]
  <2>1. ServiceEntry(s) = services[s] /\ services[s].topics = ServiceTopics
    BY <1>4 DEF ServiceEntry, HasEndpoint, ServiceInv
  <2>2. ~Completes(s, kind)
    BY <2>1 DEF Completes
  <2>3. services[s] \in ServiceDiscovered
    BY <1>1, <2>1
  <2> QED
    BY <2>1, <2>2, <2>3 DEF ServiceWithTopic, ServiceDiscovered
<1>5. ServiceWithTopic(s, kind, odd) \in ServiceDiscovered
  BY <1>1, <1>3 DEF ServiceWithTopic, ServiceDiscovered
<1>6. /\ ServiceWithTopic(s, kind, odd).endpoint_request = HasEndpoint(s)
      /\ ServiceWithTopic(s, kind, odd).topics = ServiceEntry(s).topics \cup {kind}
      /\ ServiceWithTopic(s, kind, odd).maker = ServiceEntry(s).maker
  BY <1>1, <1>2 DEF ServiceWithTopic, ServiceDiscovered
<1> QED
  BY <1>4, <1>5, <1>6

\* A discovery leaves every service as it is, or adds a topic to one.
LEMMA DiscoveryCases ==
    ASSUME NEW t \in Topics, CreateReader(t)
    PROVE  \/ services' = services
           \/ \E s \in Services, kind \in ServiceTopics : \E odd \in SUBSET {kind} :
                 services' = [services EXCEPT ![s] = ServiceWithTopic(s, kind, odd)]
<1>1. CASE services' = services
  BY <1>1
<1>2. CASE \E s \in PlainServices, kind \in ServiceTopics : \E odd \in SUBSET {kind} :
              DiscoverPlain(s, kind, odd)
  BY <1>2 DEF DiscoverPlain, Services
<1>3. CASE \E a \in Actions, k \in ActionServices, kind \in ServiceTopics :
              DiscoverActionService(a, k, kind)
  BY <1>3, TopicsDiffer DEF DiscoverActionService
<1>4. CASE \E a \in Actions, kind \in ActionTopics : DiscoverActionTopic(a, kind)
  BY <1>4 DEF DiscoverActionTopic
<1> QED
  BY <1>1, <1>2, <1>3, <1>4 DEF CreateReader, registry

\* The entries of actions keep their type, and only known names are told.
LEMMA DiscoveryTypes ==
    ASSUME EntriesOK, NEW t \in Topics, CreateReader(t)
    PROVE  /\ actions' \in [Actions -> ActionDiscovered \cup {NoEntry}]
           /\ told' \subseteq Names
<1> DEFINE Result == /\ actions' \in [Actions -> ActionDiscovered \cup {NoEntry}]
                     /\ told' \subseteq Names
<1>1. ASSUME NEW a \in Actions, NEW f, NEW entry \in ActionDiscovered, Checked(f, a, entry)
      PROVE  Result
  <2>1. [entry EXCEPT !.external_server = TRUE] \in ActionDiscovered
    BY DEF ActionDiscovered
  <2>2. PICK e \in ActionDiscovered : actions' = [actions EXCEPT ![a] = e]
    BY <1>1, <2>1, Zenon DEF Checked
  <2>3. told' = told \cup {a} \/ told' = told
    BY <1>1 DEF Checked
  <2> QED
    BY <2>2, <2>3 DEF EntriesOK, Names
<1>2. \A a \in Actions : ActionEntry(a) \in ActionDiscovered
  BY DEF ActionEntry, NewAction, EntriesOK, ActionDiscovered
<1>3. CASE UNCHANGED <<registry, told>>
  BY <1>3 DEF EntriesOK, registry
<1>4. ASSUME NEW s \in PlainServices, NEW kind \in ServiceTopics, NEW odd,
             DiscoverPlain(s, kind, odd)
      PROVE  Result
  BY <1>4 DEF DiscoverPlain, EntriesOK, Names
<1>5. ASSUME NEW a \in Actions, NEW k \in ActionServices, NEW kind \in ServiceTopics,
             DiscoverActionService(a, k, kind)
      PROVE  Result
  <2> DEFINE found == IF Completes(<<a, k>>, kind) THEN {k} ELSE {}
             entry == [ActionEntry(a) EXCEPT !.services = @ \cup found]
  <2>1. entry \in ActionDiscovered
    BY <1>2 DEF ActionDiscovered
  <2> QED
    BY <1>1, <1>5, <2>1 DEF DiscoverActionService
<1>6. ASSUME NEW a \in Actions, NEW kind \in ActionTopics, DiscoverActionTopic(a, kind)
      PROVE  Result
  <2>1. [ActionEntry(a) EXCEPT !.topics = @ \cup {kind}] \in ActionDiscovered
    BY <1>2 DEF ActionDiscovered
  <2> QED
    BY <1>1, <1>6, <2>1 DEF DiscoverActionTopic
<1> QED
  BY <1>3, <1>4, <1>5, <1>6 DEF CreateReader

\* A discovery takes no endpoint from a service and gives it none.
LEMMA DiscoveryEndpoints ==
    ASSUME EntriesOK, ServiceInv, NEW t \in Topics, CreateReader(t)
    PROVE  /\ services' \in [Services -> ServiceDiscovered \cup {NoEntry}]
           /\ \A s \in Services :
                 /\ HasEndpoint(s)' = HasEndpoint(s)
                 /\ HasEndpoint(s) => services'[s] = services[s]
                 /\ services[s] # NoEntry => services'[s] # NoEntry
<1>1. \A s \in Services : /\ HasEndpoint(s)' = HasEndpoint(s)
                          /\ HasEndpoint(s) => services'[s] = services[s]
                          /\ services[s] # NoEntry => services'[s] # NoEntry
  BY DiscoveryCases, WithTopicLemma, RegistryAssumption
     DEF EntriesOK, HasEndpoint, ServiceDiscovered
<1>2. services' \in [Services -> ServiceDiscovered \cup {NoEntry}]
  BY DiscoveryCases, WithTopicLemma DEF EntriesOK
<1> QED
  BY <1>1, <1>2

\* It makes no entry pass for one of an announcement, and takes no topic.
LEMMA DiscoveryMakers ==
    ASSUME EntriesOK, ServiceInv, NEW t \in Topics, CreateReader(t), NEW s \in Services
    PROVE  /\ services'[s] # NoEntry /\ services'[s].maker \in Callers =>
                  services[s] # NoEntry /\ services[s].maker = services'[s].maker
           /\ FullyDiscovered(services, s) => FullyDiscovered(services', s)
<1>1. CASE services' = services
  BY <1>1
<1>2. ASSUME NEW z \in Services, NEW kind \in ServiceTopics, NEW odd \in SUBSET {kind},
             services' = [services EXCEPT ![z] = ServiceWithTopic(z, kind, odd)]
      PROVE  /\ services'[s] # NoEntry /\ services'[s].maker \in Callers =>
                    services[s] # NoEntry /\ services[s].maker = services'[s].maker
             /\ FullyDiscovered(services, s) => FullyDiscovered(services', s)
  <2>1. CASE z # s
    BY <1>2, <2>1 DEF EntriesOK, FullyDiscovered
  <2>2. CASE z = s
    <3>1. /\ services'[s] \in ServiceDiscovered
          /\ services'[s].topics = ServiceEntry(s).topics \cup {kind}
          /\ services'[s].maker = ServiceEntry(s).maker
      BY <1>2, <2>2, WithTopicLemma DEF EntriesOK
    <3>2. services[s] = NoEntry => ServiceEntry(s).maker = NoEntry
      BY DEF ServiceEntry, NewService
    <3>3. NoEntry \notin Callers /\ NoEntry \notin ServiceDiscovered
      BY RegistryAssumption
    <3>4. services[s] # NoEntry => ServiceEntry(s) = services[s]
      BY DEF ServiceEntry
    <3> QED
      BY <3>1, <3>2, <3>3, <3>4 DEF FullyDiscovered
  <2> QED
    BY <2>1, <2>2
<1> QED
  BY <1>1, <1>2, DiscoveryCases

\* A discovery disturbs no endpoint.
LEMMA BaseCreateReader ==
    ASSUME BaseInv, NEW t \in Topics, CreateReader(t)
    PROVE  BaseInv'
<1>1. /\ readers' = readers \cup {t}
      /\ UNCHANGED <<endpoints, call, calls, announced, asked, lost>>
  BY DEF CreateReader
<1>2. \A s \in Services : /\ HasEndpoint(s)' = HasEndpoint(s)
                          /\ HasEndpoint(s) => services'[s] = services[s]
  BY DiscoveryEndpoints DEF BaseInv
<1>3. services' \in [Services -> ServiceDiscovered \cup {NoEntry}]
  BY DiscoveryEndpoints DEF BaseInv
<1>4. EntriesOK'
  BY <1>1, <1>3, DiscoveryTypes DEF BaseInv, EntriesOK
<1>5. ServiceInv'
  BY <1>1, <1>2 DEF BaseInv, ServiceInv
<1>6. CountInv'
  BY <1>1, <1>2 DEF BaseInv, CountInv, W, Waiting, Own
<1>7. CallInv'
  BY <1>1 DEF BaseInv, CallInv
<1> QED
  BY <1>4, <1>5, <1>6, <1>7 DEF BaseInv

-----------------------------------------------------------------------------
(* Calls of the application.                                               *)

\* A call that changes nothing but the count of calls and what was asked.
LEMMA BaseRefused ==
    ASSUME BaseInv, calls' \in 0..MaxCalls, asked' \subseteq Names,
           UNCHANGED <<registry, readers, endpoints, call, announced, told, lost>>
    PROVE  BaseInv'
BY DEF BaseInv, EntriesOK, registry, ServiceInv, HasEndpoint, CountInv, W, Waiting,
       Own, CallInv

\* A call counts once, and is about a name of its thread.
LEMMA CallCounts ==
    ASSUME BaseInv, NEW c, NEW n, MakesCall(c, n)
    PROVE  calls' \in 0..MaxCalls
BY RegistryAssumption DEF BaseInv, EntriesOK, MakesCall

\* A flag is no endpoint.
LEMMA BaseFlags ==
    ASSUME BaseInv, NEW ss \in SUBSET Services,
           \A s \in ss : services[s] # NoEntry,
           services' = [s \in Services |->
                          IF s \in ss THEN [services[s] EXCEPT !.enabler_as_server = TRUE]
                                      ELSE services[s]],
           UNCHANGED <<readers, endpoints, call, lost>>
    PROVE  /\ services' \in [Services -> ServiceDiscovered \cup {NoEntry}]
           /\ ServiceInv' /\ CountInv' /\ CallInv'
<1>1. \A s \in ss : /\ services[s] \in ServiceDiscovered
                     /\ services'[s] = [services[s] EXCEPT !.enabler_as_server = TRUE]
  BY DEF BaseInv, EntriesOK
<1>2. \A e \in ServiceDiscovered :
          LET new == [e EXCEPT !.enabler_as_server = TRUE] IN
          /\ new \in ServiceDiscovered
          /\ new.endpoint_request = e.endpoint_request
          /\ new.topics = e.topics
          /\ new.external_server = e.external_server
          /\ new.enabler_as_server
  BY DEF ServiceDiscovered
<1>3. \A s \in Services \ ss : services'[s] = services[s]
  OBVIOUS
<1>4. \A s \in Services : services'[s] \in ServiceDiscovered \cup {NoEntry}
  BY <1>1, <1>2, <1>3 DEF BaseInv, EntriesOK
<1>5. NoEntry \notin ServiceDiscovered
  BY RegistryAssumption
<1>6. \A s \in Services : HasEndpoint(s)' = HasEndpoint(s)
  BY <1>1, <1>2, <1>3, <1>5 DEF HasEndpoint
<1>7. ServiceInv'
  BY <1>1, <1>2, <1>3, <1>6 DEF BaseInv, ServiceInv
<1>8. CountInv'
  BY <1>6 DEF BaseInv, CountInv, W, Waiting, Own
<1>9. CallInv'
  BY DEF BaseInv, CallInv
<1> QED
  BY <1>4, <1>7, <1>8, <1>9

\* Services that have an endpoint each lose it, their reader and nothing else.
LEMMA BaseRevoked ==
    ASSUME BaseInv, NEW ss \in SUBSET Services,
           \A s \in ss : Revocable(s),
           RevokeServices(ss),
           UNCHANGED <<call, lost>>
    PROVE  /\ services' \in [Services -> ServiceDiscovered \cup {NoEntry}]
           /\ readers' \subseteq Topics
           /\ endpoints' \in [Topics -> Nat]
           /\ ServiceInv' /\ CountInv' /\ CallInv'
           /\ \A s \in ss : ~HasEndpoint(s)'
           /\ \A s \in Services \ ss : HasEndpoint(s)' = HasEndpoint(s)
           /\ \A s \in Services : services[s] = NoEntry => services'[s] = NoEntry
<1> DEFINE gone == {RequestOf(s) : s \in ss}
<1>1. \A s \in ss : HasEndpoint(s) /\ ~services[s].external_server
  BY DEF BaseInv, ServiceInv, Revocable, HasEndpoint
<1>2. Stopped(ss) = ss
  BY <1>1 DEF Stopped
<1>3. /\ readers' = readers \ gone
      /\ endpoints' = [t \in Topics |-> IF t \in gone THEN endpoints[t] - 1 ELSE endpoints[t]]
      /\ services' = [s \in Services |->
                         IF s \in ss THEN RevokedService(services[s]) ELSE services[s]]
  BY <1>2 DEF RevokeServices
<1> HIDE DEF gone
<1>4. \A s \in Services : RequestOf(s) \in gone <=> s \in ss
  BY TopicsDiffer DEF gone
<1>5. \A e \in ServiceDiscovered : ~e.external_server =>
          /\ RevokedService(e) \in ServiceDiscovered
          /\ ~RevokedService(e).endpoint_request
  BY DEF ServiceDiscovered, RevokedService
<1>6. NoEntry \notin ServiceDiscovered
  BY RegistryAssumption
<1>7. \A s \in ss : /\ services[s] \in ServiceDiscovered
                     /\ services'[s] = RevokedService(services[s])
  BY <1>1, <1>3 DEF BaseInv, EntriesOK, HasEndpoint
<1>8. \A s \in Services \ ss : services'[s] = services[s]
  BY <1>3
<1>9. \A s \in ss : ~HasEndpoint(s)'
  BY <1>1, <1>5, <1>7 DEF HasEndpoint
<1>10. \A s \in Services \ ss : HasEndpoint(s)' = HasEndpoint(s)
  BY <1>8 DEF HasEndpoint
<1>11. services' \in [Services -> ServiceDiscovered \cup {NoEntry}]
  BY <1>1, <1>3, <1>5, <1>7, <1>8 DEF BaseInv, EntriesOK
<1>12. ServiceInv'
  BY <1>3, <1>4, <1>8, <1>9, <1>10 DEF BaseInv, ServiceInv
<1>13. \A t : W(t)' = W(t)
  BY DEF W, Waiting
<1>14. \A s \in ss : endpoints[RequestOf(s)] >= 1
  BY <1>1, WaitingFinite, TopicsDiffer DEF BaseInv, EntriesOK, CountInv, Own
<1>15. endpoints' \in [Topics -> Nat]
  <2> SUFFICES ASSUME NEW t \in Topics, t \in gone
               PROVE  endpoints[t] - 1 \in Nat
    BY <1>3 DEF BaseInv, EntriesOK
  <2> QED
    BY <1>14 DEF gone, BaseInv, EntriesOK
<1>16. CountInv'
  <2> SUFFICES ASSUME NEW s \in Services
               PROVE  LET t == RequestOf(s) IN
                      /\ endpoints'[t] >= W(t)' + Own(s)'
                      /\ t \notin lost => endpoints'[t] = W(t)' + Own(s)'
    BY DEF CountInv
  <2> DEFINE t == RequestOf(s)
  <2>1. t \in Topics /\ W(t) \in Nat /\ endpoints[t] \in Nat
    BY TopicsDiffer, WaitingFinite DEF BaseInv, EntriesOK
  <2>2. endpoints[t] >= W(t) + Own(s) /\ (t \notin lost => endpoints[t] = W(t) + Own(s))
    BY DEF BaseInv, CountInv
  <2>3. CASE s \in ss
    <3>1. endpoints'[t] = endpoints[t] - 1
      BY <1>3, <1>4, <2>1, <2>3
    <3>2. Own(s) = 1 /\ Own(s)' = 0
      BY <1>1, <1>9, <2>3 DEF Own
    <3> HIDE DEF t
    <3> QED
      BY <1>13, <2>1, <2>2, <3>1, <3>2 DEF t
  <2>4. CASE s \notin ss
    <3>1. endpoints'[t] = endpoints[t]
      BY <1>3, <1>4, <2>1, <2>4
    <3>2. Own(s)' = Own(s)
      BY <1>10, <2>4 DEF Own
    <3> QED
      BY <1>13, <2>2, <3>1, <3>2
  <2> QED
    BY <2>3, <2>4
<1>17. CallInv'
  BY DEF BaseInv, CallInv
<1>18. readers' \subseteq Topics
  BY <1>3 DEF BaseInv, EntriesOK
<1>19. \A s \in Services : services[s] = NoEntry => services'[s] = NoEntry
  BY <1>1, <1>8 DEF HasEndpoint
<1> QED
  BY <1>9, <1>10, <1>11, <1>12, <1>15, <1>16, <1>17, <1>18, <1>19

-----------------------------------------------------------------------------
(* Announcements and the endpoints.                                        *)

\* What an announcement puts in services_ is an entry with an endpoint.
LEMMA AnnouncedServiceType ==
    ASSUME NEW c \in Callers
    PROVE  /\ AnnouncedService(c) \in ServiceDiscovered
           /\ AnnouncedService(c) # NoEntry
           /\ AnnouncedService(c).endpoint_request
<1>1. AnnouncedService(c) \in ServiceDiscovered /\ AnnouncedService(c).endpoint_request
  BY DEF AnnouncedService, ServiceDiscovered
<1> QED
  BY <1>1, RegistryAssumption

\* A call that waits for the topic of a service, and no longer, puts its
\* entry in place of any other: the endpoint it was waiting for is its own.
LEMMA BaseInsert ==
    ASSUME BaseInv, NEW c \in Callers, NEW s \in Services, NEW new,
           call[c].topic = RequestOf(s), RequestOf(s) \in readers,
           services' = [services EXCEPT ![s] = AnnouncedService(c)],
           lost' = lost \cup Forgotten({s}),
           call' = [call EXCEPT ![c] = new],
           \A z \in Services : endpoints'[RequestOf(z)] =
               endpoints[RequestOf(z)] + (IF new.topic = RequestOf(z) THEN 1 ELSE 0),
           new.topic # RequestOf(s),
           UNCHANGED readers
    PROVE  /\ services' \in [Services -> ServiceDiscovered \cup {NoEntry}]
           /\ lost' \subseteq Topics
           /\ ServiceInv' /\ CountInv'
           /\ \A z \in Services \ {s} : services'[z] = services[z]
           /\ HasEndpoint(s)'
<1>1. services'[s] = AnnouncedService(c) /\ \A z \in Services \ {s} : services'[z] = services[z]
  BY DEF BaseInv, EntriesOK
<1>2. HasEndpoint(s)' /\ \A z \in Services \ {s} : HasEndpoint(z)' = HasEndpoint(z)
  BY <1>1, AnnouncedServiceType DEF HasEndpoint
<1>3. services' \in [Services -> ServiceDiscovered \cup {NoEntry}]
  BY AnnouncedServiceType DEF BaseInv, EntriesOK
<1>4. lost' \subseteq Topics
  BY TopicsDiffer DEF BaseInv, EntriesOK, Forgotten
<1>5. ServiceInv'
  BY <1>1, <1>2 DEF BaseInv, ServiceInv, AnnouncedService
<1>6. \A z \in Services :
          LET t == RequestOf(z) IN
          /\ endpoints'[t] >= W(t)' + Own(z)'
          /\ t \notin lost' => endpoints'[t] = W(t)' + Own(z)'
  <2> SUFFICES ASSUME NEW z \in Services
               PROVE  LET t == RequestOf(z) IN
                      /\ endpoints'[t] >= W(t)' + Own(z)'
                      /\ t \notin lost' => endpoints'[t] = W(t)' + Own(z)'
    OBVIOUS
  <2> DEFINE t == RequestOf(z)
  <2>1. t \in Topics /\ W(t) \in Nat /\ endpoints[t] \in Nat
    BY TopicsDiffer, WaitingFinite DEF BaseInv, EntriesOK
  <2>2. endpoints[t] >= W(t) + Own(z) /\ (t \notin lost => endpoints[t] = W(t) + Own(z))
    BY DEF BaseInv, CountInv
  <2>3. /\ W(t)' \in Nat
        /\ call[c].topic # t /\ new.topic # t => W(t)' = W(t)
        /\ call[c].topic # t /\ new.topic = t => W(t)' = W(t) + 1
        /\ call[c].topic = t /\ new.topic # t => W(t)' = W(t) - 1 /\ W(t) > 0
    BY WaitingMoves DEF BaseInv
  <2>4. endpoints'[t] = endpoints[t] + (IF new.topic = t THEN 1 ELSE 0)
    OBVIOUS
  <2>5. CASE z = s
    <3>1. call[c].topic = t /\ new.topic # t
      BY <2>5
    <3>2. Own(z)' = 1 /\ Own(z) \in {0, 1}
      BY <1>2, <2>5 DEF Own
    <3>3. t \notin lost' => t \notin lost /\ Own(z) = 0
      BY <2>5 DEF Forgotten, Own, HasEndpoint
    <3> HIDE DEF t
    <3> QED
      BY <2>1, <2>2, <2>3, <2>4, <3>1, <3>2, <3>3 DEF t
  <2>6. CASE z # s
    <3>1. call[c].topic # t
      BY <2>6, TopicsDiffer
    <3>2. Own(z)' = Own(z) /\ Own(z) \in {0, 1}
      BY <1>2, <2>6 DEF Own
    <3>3. t \notin lost' => t \notin lost
      OBVIOUS
    <3> HIDE DEF t
    <3> QED
      BY <2>1, <2>2, <2>3, <2>4, <3>1, <3>2, <3>3 DEF t
  <2> QED
    BY <2>5, <2>6
<1> QED
  BY <1>1, <1>2, <1>3, <1>4, <1>5, <1>6 DEF CountInv

\* A call that starts to wait, or moves from one topic to another, or gives
\* up what it waits for, with entries erased that leave their endpoint lost.
LEMMA BaseWait ==
    ASSUME BaseInv, NEW c \in Callers, NEW new, NEW erased \in SUBSET Services,
           services' = [s \in Services |-> IF s \in erased THEN NoEntry ELSE services[s]],
           lost \cup Forgotten(erased) \subseteq lost',
           \A z \in Services :
               call[c].topic = RequestOf(z) /\ new.topic # RequestOf(z) => RequestOf(z) \in lost',
           call' = [call EXCEPT ![c] = new],
           \A z \in Services : endpoints'[RequestOf(z)] =
               endpoints[RequestOf(z)]
                   + (IF new.topic = RequestOf(z) /\ call[c].topic # new.topic THEN 1 ELSE 0),
           UNCHANGED readers
    PROVE  /\ services' \in [Services -> ServiceDiscovered \cup {NoEntry}]
           /\ ServiceInv' /\ CountInv'
<1>1. \A s \in Services : HasEndpoint(s)' = (HasEndpoint(s) /\ s \notin erased)
  BY DEF HasEndpoint
<1>2. services' \in [Services -> ServiceDiscovered \cup {NoEntry}]
  BY DEF BaseInv, EntriesOK
<1>4. ServiceInv'
  BY <1>1 DEF BaseInv, ServiceInv
<1>5. \A z \in Services :
          LET t == RequestOf(z) IN
          /\ endpoints'[t] >= W(t)' + Own(z)'
          /\ t \notin lost' => endpoints'[t] = W(t)' + Own(z)'
  <2> SUFFICES ASSUME NEW z \in Services
               PROVE  LET t == RequestOf(z) IN
                      /\ endpoints'[t] >= W(t)' + Own(z)'
                      /\ t \notin lost' => endpoints'[t] = W(t)' + Own(z)'
    OBVIOUS
  <2> DEFINE t == RequestOf(z)
  <2>1. t \in Topics /\ W(t) \in Nat /\ endpoints[t] \in Nat
    BY TopicsDiffer, WaitingFinite DEF BaseInv, EntriesOK
  <2>2. endpoints[t] >= W(t) + Own(z) /\ (t \notin lost => endpoints[t] = W(t) + Own(z))
    BY DEF BaseInv, CountInv
  <2>3. /\ W(t)' \in Nat
        /\ call[c].topic # t /\ new.topic # t => W(t)' = W(t)
        /\ call[c].topic # t /\ new.topic = t => W(t)' = W(t) + 1
        /\ call[c].topic = t /\ new.topic # t => W(t)' = W(t) - 1 /\ W(t) > 0
    BY WaitingMoves DEF BaseInv
  <2>4. call[c].topic = new.topic => W(t)' = W(t)
    <3> SUFFICES ASSUME call[c].topic = new.topic PROVE Waiting(t)' = Waiting(t)
      BY DEF W
    <3>1. \A d \in Callers : call'[d] = IF d = c THEN new ELSE call[d]
      BY DEF BaseInv, EntriesOK
    <3> QED
      BY <3>1 DEF Waiting
  <2>5. endpoints'[t] = endpoints[t]
            + (IF new.topic = t /\ call[c].topic # new.topic THEN 1 ELSE 0)
    OBVIOUS
  <2>6. \/ Own(z) = 1 /\ Own(z)' = 1
        \/ Own(z) = 1 /\ Own(z)' = 0
        \/ Own(z) = 0 /\ Own(z)' = 0
    BY <1>1 DEF Own
  <2>7. t \notin lost' => /\ t \notin lost /\ Own(z)' = Own(z)
                          /\ call[c].topic = t => new.topic = t
    BY <1>1, <2>1 DEF Forgotten, Own, HasEndpoint
  <2>8. \/ endpoints'[t] = endpoints[t] + 1 /\ W(t)' = W(t) + 1
        \/ endpoints'[t] = endpoints[t] /\ W(t)' = W(t)
        \/ endpoints'[t] = endpoints[t] /\ W(t)' = W(t) - 1 /\ t \in lost'
    BY <2>1, <2>3, <2>4, <2>5, <2>7
  <2>9. t \notin lost' => t \notin lost /\ Own(z)' = Own(z)
    BY <2>7
  <2>10. Own(z) \in Nat /\ Own(z)' \in Nat /\ W(t)' \in Nat /\ endpoints'[t] \in Nat
    BY <2>1, <2>3, <2>6, <2>8
  <2> HIDE DEF t
  <2>11. endpoints'[t] >= W(t)' + Own(z)'
    BY <2>1, <2>2, <2>6, <2>8, <2>10
  <2>12. t \notin lost' => endpoints'[t] = W(t)' + Own(z)'
    BY <2>1, <2>2, <2>8, <2>9, <2>10
  <2> QED
    BY <2>11, <2>12 DEF t
<1> QED
  BY <1>2, <1>4, <1>5 DEF CountInv

\* The calls keep their type and stay with their threads.
LEMMA CallMoves ==
    ASSUME BaseInv, NEW c \in Callers, NEW new, call' = [call EXCEPT ![c] = new],
           \/ new = Idle
           \/ /\ new.name \in Names
              /\ new = [name |-> new.name, topic |-> new.topic]
              /\ c \in CallersOf[new.name]
              /\ \/ new.name \in PlainServices /\ new.topic = RequestOf(new.name)
                 \/ /\ new.name \in Actions
                    /\ \/ \E k \in ActionServices : new.topic = RequestOf(<<new.name, k>>)
                       \/ \E k \in ActionTopics : new.topic = <<new.name, k>>
    PROVE  /\ call' \in [Callers -> {Idle} \cup [name : Names, topic : Topics]]
           /\ CallInv'
<1>1. \A d \in Callers : call'[d] = IF d = c THEN new ELSE call[d]
  BY DEF BaseInv, EntriesOK
<1>2. new # Idle => new.topic \in Topics
  <2>1. ASSUME NEW n \in PlainServices PROVE RequestOf(n) \in Topics
    <3>1. n \in Services
      BY DEF Services
    <3> QED
      BY <3>1, TopicsDiffer
  <2>2. ASSUME NEW n \in Actions, NEW k \in ActionServices
        PROVE  RequestOf(<<n, k>>) \in Topics
    <3>1. <<n, k>> \in Services
      BY TopicsDiffer
    <3> QED
      BY <3>1, TopicsDiffer
  <2>3. \A n \in Actions, k \in ActionTopics : <<n, k>> \in Topics
    BY TopicsDiffer
  <2> QED
    BY <2>1, <2>2, <2>3
<1>3. call' \in [Callers -> {Idle} \cup [name : Names, topic : Topics]]
  BY <1>2 DEF BaseInv, EntriesOK
<1>4. CallInv'
  BY <1>1 DEF BaseInv, CallInv
<1> QED
  BY <1>3, <1>4

\* Entries of actions keep their type.
LEMMA ActionTypes ==
    ASSUME EntriesOK
    PROVE  /\ \A c, a, g : /\ AnnouncedAction(c, a, g) \in ActionDiscovered
                           /\ AnnouncedAction(c, a, g) # NoEntry
           /\ \A a \in Actions, k \in ActionServices :
                 Unlinked(a, k) \in [Actions -> ActionDiscovered \cup {NoEntry}]
<1>1. \A c, a, g : AnnouncedAction(c, a, g) \in ActionDiscovered
  BY DEF AnnouncedAction, ActionDiscovered
<1>2. ASSUME NEW a \in Actions, NEW k \in ActionServices
      PROVE  Unlinked(a, k) \in [Actions -> ActionDiscovered \cup {NoEntry}]
  <2>1. CASE actions[a] = NoEntry
    BY <2>1 DEF EntriesOK, Unlinked
  <2>2. CASE actions[a] # NoEntry
    <3>1. [actions[a] EXCEPT !.services = @ \ {k}] \in ActionDiscovered
      BY <2>2 DEF EntriesOK, ActionDiscovered
    <3> QED
      BY <2>2, <3>1 DEF EntriesOK, Unlinked
  <2> QED
    BY <2>1, <2>2
<1> QED
  BY <1>1, <1>2, RegistryAssumption

-----------------------------------------------------------------------------
(* The endpoints, step by step.                                            *)

\* Announcing a service, up to the wait.
LEMMA BaseAnnounceService ==
    ASSUME BaseInv, NEW c \in Callers, NEW s \in PlainServices, AnnounceService(c, s)
    PROVE  BaseInv'
<1>1. s \in Services /\ s \in Names
  BY DEF Services, Names
<1>2. /\ calls' \in 0..MaxCalls
      /\ asked' \subseteq Names
      /\ MakesCall(c, s)
  BY <1>1, CallCounts
     DEF AnnounceService, AnnounceRefused, AnnounceKnownService, AnnounceNewService,
         Announces, BaseInv, EntriesOK
<1>3. CASE AnnounceKnownService(c, s)
  <2>1. services' = [z \in Services |->
                       IF z \in {s} THEN [services[z] EXCEPT !.enabler_as_server = TRUE]
                                    ELSE services[z]]
    BY <1>1, <1>3 DEF AnnounceKnownService, BaseInv, EntriesOK
  <2>2. /\ services' \in [Services -> ServiceDiscovered \cup {NoEntry}]
        /\ ServiceInv' /\ CountInv' /\ CallInv'
    <3>1. {s} \in SUBSET Services /\ \A z \in {s} : services[z] # NoEntry
      BY <1>1, <1>3 DEF AnnounceKnownService
    <3>2. UNCHANGED <<readers, endpoints, call, lost>>
      BY <1>3 DEF AnnounceKnownService
    <3> QED
      BY <2>1, <3>1, <3>2, BaseFlags
  <2>3. EntriesOK'
    BY <1>1, <1>2, <1>3, <2>2 DEF AnnounceKnownService, BaseInv, EntriesOK
  <2> QED
    BY <2>2, <2>3 DEF BaseInv
<1>4. CASE AnnounceNewService(c, s)
  <2> DEFINE new == [name |-> s, topic |-> RequestOf(s)]
  <2>1. /\ call' = [call EXCEPT ![c] = new]
        /\ endpoints' = [endpoints EXCEPT ![RequestOf(s)] = @ + 1]
        /\ call[c] = Idle
        /\ UNCHANGED <<registry, readers, announced, told, lost>>
    BY <1>4 DEF AnnounceNewService, WaitsFor, Announces, MakesCall
  <2>2. new.name = s /\ new.topic = RequestOf(s) /\ c \in CallersOf[s]
    BY <1>2 DEF MakesCall
  <2> HIDE DEF new
  <2>3. \A z \in Services :
            /\ call[c].topic # RequestOf(z)
            /\ endpoints'[RequestOf(z)] = endpoints[RequestOf(z)]
                   + (IF new.topic = RequestOf(z) /\ call[c].topic # new.topic THEN 1 ELSE 0)
    BY <1>1, <2>1, <2>2, TopicsDiffer DEF BaseInv, EntriesOK
  <2>4. services' \in [Services -> ServiceDiscovered \cup {NoEntry}] /\ ServiceInv' /\ CountInv'
    <3>1. services' = [z \in Services |-> IF z \in {} THEN NoEntry ELSE services[z]]
      BY <2>1 DEF registry, BaseInv, EntriesOK
    <3>2. lost \cup Forgotten({}) \subseteq lost' /\ {} \in SUBSET Services
      BY <2>1 DEF Forgotten
    <3>3. UNCHANGED readers
      BY <2>1
    <3> QED
      BY <2>1, <2>3, <3>1, <3>2, <3>3, BaseWait
  <2>5. call' \in [Callers -> {Idle} \cup [name : Names, topic : Topics]] /\ CallInv'
    BY <1>1, <2>1, <2>2, CallMoves DEF new
  <2>6. endpoints' \in [Topics -> Nat]
    BY <1>1, <2>1, TopicsDiffer DEF BaseInv, EntriesOK
  <2>7. EntriesOK'
    BY <1>2, <2>1, <2>4, <2>5, <2>6 DEF BaseInv, EntriesOK, registry
  <2> QED
    BY <2>4, <2>5, <2>7 DEF BaseInv
<1>5. CASE AnnounceRefused(c, s)
  BY <1>2, <1>5, BaseRefused DEF AnnounceRefused
<1> QED
  BY <1>3, <1>4, <1>5 DEF AnnounceService

\* A service that has its reader.
LEMMA BaseServiceAnnounced ==
    ASSUME BaseInv, NEW c \in Callers, NEW s \in PlainServices, ServiceAnnounced(c, s)
    PROVE  BaseInv'
<1>1. s \in Services /\ s \in Names
  BY DEF Services, Names
<1>2. /\ call[c].topic = RequestOf(s) /\ RequestOf(s) \in readers
      /\ services' = [services EXCEPT ![s] = AnnouncedService(c)]
      /\ lost' = lost \cup Forgotten({s})
      /\ call' = [call EXCEPT ![c] = Idle]
      /\ announced' = announced \cup {s}
      /\ UNCHANGED <<actions, readers, endpoints, calls, asked, told>>
  BY DEF ServiceAnnounced
<1>3. \A z \in Services :
          /\ Idle.topic # RequestOf(z)
          /\ endpoints'[RequestOf(z)] =
                 endpoints[RequestOf(z)] + (IF Idle.topic = RequestOf(z) THEN 1 ELSE 0)
  BY <1>2, TopicsDiffer DEF BaseInv, EntriesOK
<1>4. /\ services' \in [Services -> ServiceDiscovered \cup {NoEntry}]
      /\ lost' \subseteq Topics
      /\ ServiceInv' /\ CountInv'
  <2>1. UNCHANGED readers
    BY <1>2
  <2> QED
    BY <1>1, <1>2, <1>3, <2>1, BaseInsert
<1>5. call' \in [Callers -> {Idle} \cup [name : Names, topic : Topics]] /\ CallInv'
  BY <1>2, CallMoves
<1>6. EntriesOK'
  BY <1>1, <1>2, <1>4, <1>5 DEF BaseInv, EntriesOK
<1> QED
  BY <1>4, <1>5, <1>6 DEF BaseInv

\* A wait that ends by its timeout.
LEMMA BaseTimesOut ==
    ASSUME BaseInv, NEW c \in Callers, WaitTimesOut(c)
    PROVE  BaseInv'
<1>1. /\ call[c] # Idle
      /\ lost' = lost \cup {call[c].topic}
      /\ call' = [call EXCEPT ![c] = Idle]
      /\ UNCHANGED <<registry, readers, endpoints, calls, announced, asked, told>>
  BY DEF WaitTimesOut
<1>2. call[c].topic \in Topics
  BY <1>1 DEF BaseInv, EntriesOK
<1>3. \A z \in Services :
          /\ endpoints'[RequestOf(z)] = endpoints[RequestOf(z)]
                 + (IF Idle.topic = RequestOf(z) /\ call[c].topic # Idle.topic THEN 1 ELSE 0)
          /\ call[c].topic = RequestOf(z) => RequestOf(z) \in lost'
  BY <1>1, TopicsDiffer DEF BaseInv, EntriesOK
<1>4. services' \in [Services -> ServiceDiscovered \cup {NoEntry}] /\ ServiceInv' /\ CountInv'
  <2>1. services' = [z \in Services |-> IF z \in {} THEN NoEntry ELSE services[z]]
    BY <1>1 DEF registry, BaseInv, EntriesOK
  <2>2. lost \cup Forgotten({}) \subseteq lost' /\ {} \in SUBSET Services
    BY <1>1 DEF Forgotten
  <2>3. UNCHANGED readers
    BY <1>1
  <2> QED
    BY <1>1, <1>3, <2>1, <2>2, <2>3, BaseWait
<1>5. call' \in [Callers -> {Idle} \cup [name : Names, topic : Topics]] /\ CallInv'
  BY <1>1, CallMoves
<1>6. EntriesOK'
  BY <1>1, <1>2, <1>4, <1>5 DEF BaseInv, EntriesOK, registry
<1> QED
  BY <1>4, <1>5, <1>6 DEF BaseInv

\* Revoking a service.
LEMMA BaseRevokeService ==
    ASSUME BaseInv, NEW c \in Callers, NEW s \in PlainServices, RevokeService(c, s)
    PROVE  BaseInv'
<1>1. s \in Services
  BY DEF Services
<1>2. calls' \in 0..MaxCalls
  BY CallCounts DEF RevokeService, RevokeRefused
<1>3. CASE RevokeRefused(c, s)
  <2>1. asked' \subseteq Names /\ UNCHANGED <<registry, readers, endpoints, call, announced, told, lost>>
    BY <1>3 DEF RevokeRefused, ghosts, BaseInv, EntriesOK
  <2> QED
    BY <1>2, <2>1, BaseRefused
<1>4. CASE Revocable(s) /\ RevokeServices({s}) /\ announced' = announced \ {s}
           /\ UNCHANGED <<actions, call, asked, told, lost>>
  <2>1. /\ services' \in [Services -> ServiceDiscovered \cup {NoEntry}]
        /\ readers' \subseteq Topics
        /\ endpoints' \in [Topics -> Nat]
        /\ ServiceInv' /\ CountInv' /\ CallInv'
    <3>1. {s} \in SUBSET Services /\ \A z \in {s} : Revocable(z)
      BY <1>1, <1>4
    <3> QED
      BY <1>4, <3>1, BaseRevoked
  <2>2. EntriesOK'
    BY <1>2, <1>4, <2>1 DEF BaseInv, EntriesOK
  <2> QED
    BY <2>1, <2>2 DEF BaseInv
<1> QED
  BY <1>3, <1>4 DEF RevokeService

\* The services that revoke_action withdraws each have an endpoint, and they
\* are all three or none if all have one or none has.
LEMMA RevokedPartsLemma ==
    ASSUME NEW a \in Actions
    PROVE  /\ RevokedParts(a) \subseteq {a} \X ActionServices
           /\ \A s \in RevokedParts(a) : Revocable(s)
           /\ ( /\ actions[a].services = ActionServices
                /\ \A k \in ActionServices : Revocable(<<a, k>>) )
                  => RevokedParts(a) = {a} \X ActionServices
           /\ RevokedParts(a) # {} =>
                 /\ actions[a].services = ActionServices
                 /\ \E k \in ActionServices : Revocable(<<a, k>>)
<1> DEFINE order == <<"GOAL", "RESULT", "CANCEL">>
           revoked(i) == /\ actions[a].services = ActionServices
                         /\ \A h \in 1..i : Revocable(<<a, order[h]>>)
<1>1. /\ \A i \in 1..3 : order[i] \in ActionServices
      /\ \A k \in ActionServices : \E i \in 1..3 : order[i] = k
  <2>1. order[1] = "GOAL" /\ order[2] = "RESULT" /\ order[3] = "CANCEL"
    OBVIOUS
  <2>2. \A i \in 1..3 : i = 1 \/ i = 2 \/ i = 3
    OBVIOUS
  <2>3. 1 \in 1..3 /\ 2 \in 1..3 /\ 3 \in 1..3
    OBVIOUS
  <2> HIDE DEF order
  <2> QED
    BY <2>1, <2>2, <2>3 DEF ActionServices
<1> HIDE DEF order
<1>2. RevokedParts(a) = {<<a, order[i]>> : i \in {j \in 1..3 : revoked(j)}}
  BY DEF RevokedParts, order
<1>3. \A i \in 1..3 : i \in 1..i /\ 1..i \subseteq 1..3
  OBVIOUS
<1>4. \A s \in RevokedParts(a) : Revocable(s)
  BY <1>2, <1>3
<1>5. RevokedParts(a) \subseteq {a} \X ActionServices
  BY <1>1, <1>2
<1>6. ASSUME actions[a].services = ActionServices,
             \A k \in ActionServices : Revocable(<<a, k>>)
      PROVE  RevokedParts(a) = {a} \X ActionServices
  <2>1. \A i \in 1..3 : revoked(i)
    BY <1>1, <1>3, <1>6
  <2> QED
    BY <1>1, <1>2, <2>1
<1>7. ASSUME RevokedParts(a) # {}
      PROVE  /\ actions[a].services = ActionServices
             /\ \E k \in ActionServices : Revocable(<<a, k>>)
  <2>1. actions[a].services = ActionServices
    BY <1>2, <1>7
  <2>2. PICK s : s \in RevokedParts(a)
    BY <1>7
  <2> QED
    BY <1>4, <1>5, <2>1, <2>2
<1> QED
  BY <1>4, <1>5, <1>6, <1>7

\* Revoking an action.
LEMMA BaseRevokeAction ==
    ASSUME BaseInv, NEW c \in Callers, NEW a \in Actions, RevokeAction(c, a)
    PROVE  BaseInv'
<1>1. calls' \in 0..MaxCalls
  BY CallCounts DEF RevokeAction, RevokeRefused
<1>2. CASE RevokeRefused(c, a)
  <2>1. asked' \subseteq Names /\ UNCHANGED <<registry, readers, endpoints, call, announced, told, lost>>
    BY <1>2 DEF RevokeRefused, ghosts, BaseInv, EntriesOK
  <2> QED
    BY <1>1, <2>1, BaseRefused
<1>3. ASSUME actions[a] # NoEntry, UNCHANGED <<call, asked, told, lost>>, RevocationIsFlag(a)
      PROVE  BaseInv'
  <2>1. /\ actions' = [actions EXCEPT ![a].enabler_as_server = FALSE]
        /\ announced' = announced \ {a}
        /\ UNCHANGED <<services, readers, endpoints>>
    BY <1>3 DEF RevocationIsFlag
  <2>2. actions' \in [Actions -> ActionDiscovered \cup {NoEntry}]
    BY <1>3, <2>1 DEF BaseInv, EntriesOK, ActionDiscovered
  <2>3. EntriesOK'
    BY <1>1, <1>3, <2>1, <2>2 DEF BaseInv, EntriesOK
  <2> QED
    BY <1>3, <2>1, <2>3
       DEF BaseInv, ServiceInv, HasEndpoint, CountInv, W, Waiting, Own, CallInv
<1>4. ASSUME actions[a] # NoEntry, UNCHANGED <<call, asked, told, lost>>, RevocationOfServices(a)
      PROVE  BaseInv'
  <2>1. /\ services' \in [Services -> ServiceDiscovered \cup {NoEntry}]
        /\ readers' \subseteq Topics
        /\ endpoints' \in [Topics -> Nat]
        /\ ServiceInv' /\ CountInv' /\ CallInv'
    <3>1. RevokedParts(a) \in SUBSET Services
      BY RevokedPartsLemma DEF Services
    <3>2. RevokeServices(RevokedParts(a)) /\ UNCHANGED <<call, lost>>
      BY <1>4 DEF RevocationOfServices
    <3> QED
      BY <3>1, <3>2, RevokedPartsLemma, BaseRevoked
  <2>2. actions' \in [Actions -> ActionDiscovered \cup {NoEntry}]
    <3>1. actions \in [Actions -> ActionDiscovered \cup {NoEntry}]
      BY DEF BaseInv, EntriesOK
    <3>2. \/ actions' = [actions EXCEPT ![a].enabler_as_server = FALSE]
          \/ actions' = actions
      BY <1>4 DEF RevocationOfServices
    <3>3. [actions[a] EXCEPT !.enabler_as_server = FALSE] \in ActionDiscovered
      BY <1>4, <3>1 DEF ActionDiscovered
    <3> QED
      BY <3>1, <3>2, <3>3
  <2>3. announced' \subseteq Names
    BY <1>4 DEF RevocationOfServices, BaseInv, EntriesOK
  <2>4. EntriesOK'
    BY <1>1, <1>4, <2>1, <2>2, <2>3 DEF BaseInv, EntriesOK
  <2> QED
    BY <2>1, <2>4 DEF BaseInv
<1> QED
  BY <1>2, <1>3, <1>4 DEF RevokeAction

\* Announcing an action by its flags.
LEMMA BaseKnownAction ==
    ASSUME BaseInv, NEW c \in Callers, NEW a \in Actions, AnnounceKnownAction(c, a),
           \A k \in actions[a].services : services[<<a, k>>] # NoEntry
    PROVE  BaseInv'
<1> DEFINE parts == {a} \X ActionServices
<1>1. /\ ServicesKnown(a)
      /\ actions' = [actions EXCEPT ![a].enabler_as_server = TRUE]
      /\ services' = [s \in Services |->
                         IF s \in parts THEN [services[s] EXCEPT !.enabler_as_server = TRUE]
                                        ELSE services[s]]
      /\ announced' = announced \cup {a}
      /\ asked' = asked \cup {a}
      /\ UNCHANGED <<readers, endpoints, call, told, lost>>
  BY DEF AnnounceKnownAction, Announces
<1>2. parts \in SUBSET Services /\ \A s \in parts : services[s] # NoEntry
  BY <1>1 DEF ServicesKnown, Services
<1> HIDE DEF parts
<1>3. /\ services' \in [Services -> ServiceDiscovered \cup {NoEntry}]
      /\ ServiceInv' /\ CountInv' /\ CallInv'
  <2>1. UNCHANGED <<readers, endpoints, call, lost>>
    BY <1>1
  <2> QED
    BY <1>1, <1>2, <2>1, BaseFlags
<1>4. actions' \in [Actions -> ActionDiscovered \cup {NoEntry}]
  BY <1>1 DEF BaseInv, EntriesOK, ActionDiscovered, ServicesKnown
<1>5. calls' \in 0..MaxCalls
  BY CallCounts DEF AnnounceKnownAction, Announces
<1>6. EntriesOK'
  BY <1>1, <1>3, <1>4, <1>5 DEF BaseInv, EntriesOK, Names
<1> QED
  BY <1>3, <1>6 DEF BaseInv

\* Announcing an action anew, up to the wait for its goal service.
LEMMA BaseNewAction ==
    ASSUME BaseInv, NEW c \in Callers, NEW a \in Actions, AnnounceNewAction(c, a)
    PROVE  BaseInv'
<1> DEFINE parts == {a} \X ActionServices
           goal == RequestOf(<<a, "GOAL">>)
           new == [name |-> a, topic |-> goal]
<1>1. /\ MakesCall(c, a)
      /\ asked' = asked \cup {a}
      /\ actions' = [actions EXCEPT ![a] = NoEntry]
      /\ UNCHANGED <<readers, announced, told>>
  BY DEF AnnounceNewAction, Announces
<1>2. /\ call[c] = Idle
      /\ c \in CallersOf[a]
      /\ calls' \in 0..MaxCalls
  BY <1>1, CallCounts DEF MakesCall
<1>3. \/ UNCHANGED <<services, endpoints, call, lost>>
      \/ /\ services' = [s \in Services |-> IF s \in parts THEN NoEntry ELSE services[s]]
         /\ lost' = lost \cup Forgotten(parts)
         /\ WaitsFor(c, a, goal) \/ UNCHANGED <<endpoints, call>>
  BY DEF AnnounceNewAction
<1>4. /\ parts \in SUBSET Services
      /\ <<a, "GOAL">> \in Services
      /\ goal \in Topics
      /\ new.name = a /\ new.topic = goal
      /\ a \in Names
  BY TopicsDiffer DEF Services, ActionServices, Names
<1>5. actions' \in [Actions -> ActionDiscovered \cup {NoEntry}] /\ asked' \subseteq Names
  BY <1>1, <1>4 DEF BaseInv, EntriesOK
<1>6. CASE UNCHANGED <<services, endpoints, call, lost>>
  <2>1. EntriesOK'
    BY <1>1, <1>2, <1>5, <1>6 DEF BaseInv, EntriesOK
  <2> QED
    BY <1>1, <1>6, <2>1
       DEF BaseInv, ServiceInv, HasEndpoint, CountInv, W, Waiting, Own, CallInv
<1>7. ASSUME NEW w, w = Idle \/ w = new,
             services' = [s \in Services |-> IF s \in parts THEN NoEntry ELSE services[s]],
             lost' = lost \cup Forgotten(parts),
             call' = [call EXCEPT ![c] = w],
             w = Idle => UNCHANGED endpoints,
             w = new => endpoints' = [endpoints EXCEPT ![goal] = @ + 1]
      PROVE  BaseInv'
  <2> HIDE DEF parts
  <2>1. \A z \in Services :
            /\ call[c].topic # RequestOf(z)
            /\ endpoints'[RequestOf(z)] = endpoints[RequestOf(z)]
                   + (IF w.topic = RequestOf(z) /\ call[c].topic # w.topic THEN 1 ELSE 0)
    <3> HIDE DEF new, goal
    <3>1. \A z \in Services : Idle.topic # RequestOf(z) /\ RequestOf(z) \in Topics
      BY TopicsDiffer
    <3>2. CASE w = Idle
      BY <1>2, <1>7, <3>1, <3>2 DEF BaseInv, EntriesOK
    <3>3. CASE w = new
      <4>1. Idle.topic # goal
        BY <1>4, <3>1 DEF goal
      <4> QED
        BY <1>2, <1>4, <1>7, <3>1, <3>3, <4>1 DEF BaseInv, EntriesOK
    <3> QED
      BY <1>7, <3>2, <3>3
  <2>2. services' \in [Services -> ServiceDiscovered \cup {NoEntry}] /\ ServiceInv' /\ CountInv'
    <3>1. lost \cup Forgotten(parts) \subseteq lost'
      BY <1>7
    <3>2. UNCHANGED readers
      BY <1>1
    <3>3. \A z \in Services :
              call[c].topic = RequestOf(z) /\ w.topic # RequestOf(z) => RequestOf(z) \in lost'
      BY <2>1
    <3>4. parts \in SUBSET Services
      BY <1>4
    <3>5. /\ services' = [s \in Services |-> IF s \in parts THEN NoEntry ELSE services[s]]
          /\ call' = [call EXCEPT ![c] = w]
      BY <1>7
    <3> HIDE DEF new, goal
    <3> QED
      BY <2>1, <3>1, <3>2, <3>3, <3>4, <3>5, BaseWait
  <2>3. call' \in [Callers -> {Idle} \cup [name : Names, topic : Topics]] /\ CallInv'
    <3>1. w = new => /\ w.name \in Names
                     /\ w = [name |-> w.name, topic |-> w.topic]
                     /\ c \in CallersOf[w.name]
                     /\ w.name \in Actions
                     /\ \E k \in ActionServices : w.topic = RequestOf(<<w.name, k>>)
      BY <1>2, <1>4 DEF ActionServices
    <3> HIDE DEF new
    <3> QED
      BY <1>7, <3>1, CallMoves
  <2>4. endpoints' \in [Topics -> Nat]
    BY <1>4, <1>7 DEF BaseInv, EntriesOK
  <2>5. lost' \subseteq Topics
    BY <1>4, <1>7, TopicsDiffer DEF BaseInv, EntriesOK, Forgotten
  <2>6. EntriesOK'
    BY <1>1, <1>2, <1>5, <2>2, <2>3, <2>4, <2>5 DEF BaseInv, EntriesOK
  <2> QED
    BY <2>2, <2>3, <2>6 DEF BaseInv
<1>8. CASE /\ services' = [s \in Services |-> IF s \in parts THEN NoEntry ELSE services[s]]
           /\ lost' = lost \cup Forgotten(parts)
           /\ WaitsFor(c, a, goal)
  <2>1. new # Idle
    BY <1>4, TopicsDiffer
  <2>2. call' = [call EXCEPT ![c] = new] /\ endpoints' = [endpoints EXCEPT ![goal] = @ + 1]
    BY <1>8 DEF WaitsFor
  <2> HIDE DEF new, goal, parts
  <2> QED
    BY <1>7, <1>8, <2>1, <2>2
<1>9. CASE /\ services' = [s \in Services |-> IF s \in parts THEN NoEntry ELSE services[s]]
           /\ lost' = lost \cup Forgotten(parts)
           /\ UNCHANGED <<endpoints, call>>
  <2>1. new # Idle
    BY <1>4, TopicsDiffer
  <2>2. call' = [call EXCEPT ![c] = Idle]
    BY <1>2, <1>9 DEF BaseInv, EntriesOK
  <2> HIDE DEF new, goal, parts
  <2> QED
    BY <1>7, <1>9, <2>1, <2>2
<1> QED
  BY <1>3, <1>6, <1>8, <1>9

\* An action whose next topic has its reader: what the entries of services,
\* of actions and of calls become, whichever topic it is.
LEMMA BaseServiceInserted ==
    ASSUME BaseInv, NEW c \in Callers, NEW a \in Actions,
           NEW k \in ActionServices, NEW next \in ActionServices, next # k,
           ServiceInserted(c, a, k, next)
    PROVE  BaseInv'
<1> DEFINE this == RequestOf(<<a, k>>)
           then == RequestOf(<<a, next>>)
           new == [name |-> a, topic |-> then]
<1>1. /\ call[c] = [name |-> a, topic |-> this]
      /\ this \in readers
      /\ Insert(c, a, k)
      /\ actions' = Unlinked(a, k)
      /\ WaitsFor(c, a, then) \/ Fails(c)
      /\ UNCHANGED <<readers, calls, announced, asked, told>>
  BY DEF ServiceInserted
<1>2. /\ <<a, k>> \in Services /\ <<a, next>> \in Services
      /\ then \in Topics /\ then # this
      /\ \A z \in Services : RequestOf(z) \in Topics /\ Idle.topic # RequestOf(z)
      /\ a \in Names
  BY TopicsDiffer DEF Names
<1>3. c \in CallersOf[a]
  <2>1. call[c] # Idle /\ call[c].name = a
    BY <1>1, <1>2
  <2> QED
    BY <2>1 DEF BaseInv, CallInv
<1>4. PICK w : /\ w = Idle \/ w = new
               /\ call' = [call EXCEPT ![c] = w]
               /\ w = Idle => UNCHANGED endpoints
               /\ w = new => endpoints' = [endpoints EXCEPT ![then] = @ + 1]
  <2>1. new # Idle
    BY <1>2
  <2>2. CASE WaitsFor(c, a, then)
    <3> HIDE DEF then
    <3> QED
      BY <2>1, <2>2 DEF WaitsFor
  <2>3. CASE Fails(c)
    <3> HIDE DEF new
    <3> QED
      BY <2>1, <2>3 DEF Fails
  <2> QED
    BY <1>1, <2>2, <2>3
<1>5. w.topic # this /\ \A z \in Services :
          endpoints'[RequestOf(z)] =
              endpoints[RequestOf(z)] + (IF w.topic = RequestOf(z) THEN 1 ELSE 0)
  <2>1. CASE w = Idle
    BY <1>2, <1>4, <2>1 DEF BaseInv, EntriesOK
  <2>2. CASE w = new
    <3>1. w.topic = then
      BY <2>2
    <3> HIDE DEF then, new
    <3> QED
      BY <1>2, <1>4, <2>2, <3>1 DEF BaseInv, EntriesOK
  <2> QED
    BY <1>4, <2>1, <2>2
<1>6. /\ services' \in [Services -> ServiceDiscovered \cup {NoEntry}]
      /\ lost' \subseteq Topics
      /\ ServiceInv' /\ CountInv'
  <2>1. /\ services' = [services EXCEPT ![<<a, k>>] = AnnouncedService(c)]
        /\ lost' = lost \cup Forgotten({<<a, k>>})
        /\ call[c].topic = this
        /\ UNCHANGED readers
    BY <1>1 DEF Insert
  <2> QED
    BY <1>1, <1>2, <1>4, <1>5, <2>1, BaseInsert
<1>7. call' \in [Callers -> {Idle} \cup [name : Names, topic : Topics]] /\ CallInv'
  <2>1. w = new => /\ w.name \in Names
                   /\ w = [name |-> w.name, topic |-> w.topic]
                   /\ c \in CallersOf[w.name]
                   /\ w.name \in Actions
                   /\ \E j \in ActionServices : w.topic = RequestOf(<<w.name, j>>)
    BY <1>2, <1>3
  <2> HIDE DEF new
  <2> QED
    BY <1>4, <2>1, CallMoves
<1>8. endpoints' \in [Topics -> Nat]
  BY <1>2, <1>4 DEF BaseInv, EntriesOK
<1>9. actions' \in [Actions -> ActionDiscovered \cup {NoEntry}]
  BY <1>1, ActionTypes DEF BaseInv
<1>10. EntriesOK'
  BY <1>1, <1>6, <1>7, <1>8, <1>9 DEF BaseInv, EntriesOK
<1> QED
  BY <1>6, <1>7, <1>10 DEF BaseInv

\* Once its services are inserted, an announcement waits for a topic of the
\* action or ends: no endpoint of a service is taken.
TopicsOnly(c, a) ==
    /\ \E w : /\ \/ w = Idle
                 \/ \E kind \in ActionTopics : w = [name |-> a, topic |-> <<a, kind>>]
              /\ call' = [call EXCEPT ![c] = w]
    /\ endpoints' \in [Topics -> Nat]
    /\ \A z \in Services : endpoints'[RequestOf(z)] = endpoints[RequestOf(z)]
    /\ actions' \in [Actions -> ActionDiscovered \cup {NoEntry}]
    /\ announced' \subseteq Names

\* An endpoint on a topic of an action is on no topic of a service.
LEMMA TopicEndpoint ==
    ASSUME EntriesOK, NEW a \in Actions, NEW kind \in ActionTopics,
           endpoints' = [endpoints EXCEPT ![<<a, kind>>] = @ + 1]
    PROVE  /\ endpoints' \in [Topics -> Nat]
           /\ \A z \in Services : endpoints'[RequestOf(z)] = endpoints[RequestOf(z)]
<1>1. <<a, kind>> \in Topics /\ \A z \in Services : RequestOf(z) # <<a, kind>>
                                                  /\ RequestOf(z) \in Topics
  BY TopicsDiffer
<1> HIDE DEF RequestOf
<1>2. endpoints' \in [Topics -> Nat]
  BY <1>1 DEF EntriesOK
<1>3. \A z \in Services : endpoints'[RequestOf(z)] = endpoints[RequestOf(z)]
  BY <1>1 DEF EntriesOK
<1> QED
  BY <1>2, <1>3

\* The end of an announcement, with or without a wait for the status topic.
LEMMA StatusTopicsOnly ==
    ASSUME BaseInv, NEW c \in Callers, NEW a \in Actions,
           NEW f \in [Actions -> ActionDiscovered \cup {NoEntry}], StatusAndEnd(c, a, f)
    PROVE  TopicsOnly(c, a)
<1>1. /\ endpoints' \in [Topics -> Nat]
      /\ \A z \in Services : endpoints'[RequestOf(z)] = endpoints[RequestOf(z)]
  BY TopicEndpoint DEF StatusAndEnd, BaseInv, ActionTopics
<1>2. \/ call' = [call EXCEPT ![c] = Idle]
      \/ call' = [call EXCEPT ![c] = [name |-> a, topic |-> <<a, "STATUS">>]]
  BY DEF StatusAndEnd
<1>3. \/ actions' = f
      \/ actions' = [f EXCEPT ![a] = AnnouncedAction(c, a, services')]
  BY DEF StatusAndEnd
<1>4. actions' \in [Actions -> ActionDiscovered \cup {NoEntry}]
  BY <1>3, ActionTypes DEF BaseInv
<1>5. announced' \subseteq Names
  BY DEF StatusAndEnd, BaseInv, EntriesOK, Names
<1>6. "STATUS" \in ActionTopics
  BY DEF ActionTopics
<1> QED
  BY <1>1, <1>2, <1>4, <1>5, <1>6 DEF TopicsOnly

\* A call of TopicsOnly keeps its type, and waits for no service.
LEMMA TopicsOnlyCall ==
    ASSUME BaseInv, NEW c \in Callers, NEW a \in Actions, c \in CallersOf[a], NEW w,
           w = Idle \/ \E kind \in ActionTopics : w = [name |-> a, topic |-> <<a, kind>>],
           call' = [call EXCEPT ![c] = w]
    PROVE  /\ call' \in [Callers -> {Idle} \cup [name : Names, topic : Topics]]
           /\ CallInv'
           /\ \A z \in Services : w.topic # RequestOf(z)
<1>1. CASE w = Idle
  BY <1>1, CallMoves, TopicsDiffer
<1>2. ASSUME NEW kind \in ActionTopics, w = [name |-> a, topic |-> <<a, kind>>]
      PROVE  /\ call' \in [Callers -> {Idle} \cup [name : Names, topic : Topics]]
             /\ CallInv'
             /\ \A z \in Services : w.topic # RequestOf(z)
  <2>1. /\ w.name = a /\ w.topic = <<a, kind>>
        /\ w = [name |-> w.name, topic |-> w.topic]
        /\ a \in Names
    BY <1>2 DEF Names
  <2>2. \A z \in Services : w.topic # RequestOf(z)
    BY <2>1, TopicsDiffer
  <2>3. \E k \in ActionTopics : w.topic = <<w.name, k>>
    BY <2>1
  <2> QED
    BY <2>1, <2>2, <2>3, CallMoves
<1> QED
  BY <1>1, <1>2

\* The result service is inserted.
LEMMA BaseResultInserted ==
    ASSUME BaseInv, NEW c \in Callers, NEW a \in Actions, ResultInserted(c, a)
    PROVE  BaseInv'
<1> DEFINE result == RequestOf(<<a, "RESULT">>)
           f == Unlinked(a, "RESULT")
<1>1. /\ call[c] = [name |-> a, topic |-> result]
      /\ result \in readers
      /\ Insert(c, a, "RESULT")
      /\ UNCHANGED <<readers, calls, asked, told>>
  BY DEF ResultInserted
<1>2. <<a, "RESULT">> \in Services /\ Idle.topic # result
  BY TopicsDiffer DEF ActionServices
<1>3. c \in CallersOf[a]
  <2>1. call[c] # Idle /\ call[c].name = a
    BY <1>1, <1>2
  <2> QED
    BY <2>1 DEF BaseInv, CallInv
<1>4. f \in [Actions -> ActionDiscovered \cup {NoEntry}]
  BY ActionTypes DEF BaseInv, ActionServices
<1>5. TopicsOnly(c, a)
  <2>1. CASE Fails(c) /\ actions' = f /\ UNCHANGED announced
    <3> HIDE DEF f
    <3> QED
      BY <1>4, <2>1 DEF Fails, TopicsOnly, BaseInv, EntriesOK
  <2>2. CASE WaitsFor(c, a, <<a, "FEEDBACK">>) /\ actions' = f /\ UNCHANGED announced
    <3>1. "FEEDBACK" \in ActionTopics
      BY DEF ActionTopics
    <3>2. /\ endpoints' = [endpoints EXCEPT ![<<a, "FEEDBACK">>] = @ + 1]
          /\ call' = [call EXCEPT ![c] = [name |-> a, topic |-> <<a, "FEEDBACK">>]]
      BY <2>2 DEF WaitsFor
    <3>3. /\ endpoints' \in [Topics -> Nat]
          /\ \A z \in Services : endpoints'[RequestOf(z)] = endpoints[RequestOf(z)]
      BY <3>1, <3>2, TopicEndpoint DEF BaseInv
    <3>4. announced' \subseteq Names
      BY <2>2 DEF BaseInv, EntriesOK
    <3> HIDE DEF f
    <3> QED
      BY <1>4, <2>2, <3>1, <3>2, <3>3, <3>4 DEF TopicsOnly
  <2>3. CASE StatusAndEnd(c, a, f)
    BY <1>4, <2>3, StatusTopicsOnly
  <2> QED
    BY <2>1, <2>2, <2>3 DEF ResultInserted
<1>6. PICK w : /\ w = Idle \/ \E kind \in ActionTopics : w = [name |-> a, topic |-> <<a, kind>>]
               /\ call' = [call EXCEPT ![c] = w]
  BY <1>5 DEF TopicsOnly
<1>7. /\ call' \in [Callers -> {Idle} \cup [name : Names, topic : Topics]]
      /\ CallInv'
      /\ \A z \in Services : w.topic # RequestOf(z)
  BY <1>3, <1>6, TopicsOnlyCall
<1>8. /\ services' \in [Services -> ServiceDiscovered \cup {NoEntry}]
      /\ lost' \subseteq Topics
      /\ ServiceInv' /\ CountInv'
  <2>1. /\ services' = [services EXCEPT ![<<a, "RESULT">>] = AnnouncedService(c)]
        /\ lost' = lost \cup Forgotten({<<a, "RESULT">>})
        /\ call[c].topic = result
        /\ UNCHANGED readers
    BY <1>1 DEF Insert
  <2>2. \A z \in Services : endpoints'[RequestOf(z)] =
            endpoints[RequestOf(z)] + (IF w.topic = RequestOf(z) THEN 1 ELSE 0)
    <3>1. \A z \in Services : endpoints[RequestOf(z)] \in Nat
      BY TopicsDiffer DEF BaseInv, EntriesOK
    <3> QED
      BY <1>5, <1>7, <3>1 DEF TopicsOnly
  <2> HIDE DEF f
  <2> QED
    BY <1>1, <1>2, <1>6, <1>7, <2>1, <2>2, BaseInsert
<1>9. EntriesOK'
  BY <1>1, <1>5, <1>7, <1>8 DEF BaseInv, EntriesOK, TopicsOnly
<1> QED
  BY <1>7, <1>8, <1>9 DEF BaseInv

\* The topics of the action.
LEMMA BaseTopicsReady ==
    ASSUME BaseInv, NEW c \in Callers, NEW a \in Actions, FeedbackReady(c, a) \/ StatusReady(c, a)
    PROVE  BaseInv'
<1>1. PICK k \in ActionTopics : call[c] = [name |-> a, topic |-> <<a, k>>]
  BY DEF FeedbackReady, StatusReady, ActionTopics
<1>2. c \in CallersOf[a]
  <2>1. call[c] # Idle /\ call[c].name = a
    BY <1>1 DEF Idle
  <2> QED
    BY <2>1 DEF BaseInv, CallInv
<1>3. UNCHANGED <<services, readers, calls, asked, told, lost>>
  BY DEF FeedbackReady, StatusReady
<1>4. TopicsOnly(c, a)
  <2>1. CASE Fails(c) /\ UNCHANGED <<actions, announced>>
    BY <2>1 DEF Fails, TopicsOnly, BaseInv, EntriesOK
  <2>2. CASE StatusAndEnd(c, a, actions)
    BY <2>2, StatusTopicsOnly DEF BaseInv, EntriesOK
  <2>3. CASE StatusReady(c, a)
    <3>1. announced' \subseteq Names
      BY <2>3 DEF StatusReady, BaseInv, EntriesOK, Names
    <3>2. actions' \in [Actions -> ActionDiscovered \cup {NoEntry}]
      BY <2>3, ActionTypes DEF StatusReady, BaseInv, EntriesOK
    <3> QED
      BY <2>3, <3>1, <3>2 DEF StatusReady, TopicsOnly, BaseInv, EntriesOK
  <2> QED
    BY <2>1, <2>2, <2>3 DEF FeedbackReady
<1>5. PICK w : /\ w = Idle \/ \E kind \in ActionTopics : w = [name |-> a, topic |-> <<a, kind>>]
               /\ call' = [call EXCEPT ![c] = w]
  BY <1>4 DEF TopicsOnly
<1>6. /\ call' \in [Callers -> {Idle} \cup [name : Names, topic : Topics]]
      /\ CallInv'
      /\ \A z \in Services : w.topic # RequestOf(z)
  BY <1>2, <1>5, TopicsOnlyCall
<1>7. services' \in [Services -> ServiceDiscovered \cup {NoEntry}] /\ ServiceInv' /\ CountInv'
  <2>1. services' = [z \in Services |-> IF z \in {} THEN NoEntry ELSE services[z]]
    BY <1>3 DEF BaseInv, EntriesOK
  <2>2. lost \cup Forgotten({}) \subseteq lost' /\ {} \in SUBSET Services /\ UNCHANGED readers
    BY <1>3 DEF Forgotten
  <2>3. \A z \in Services :
            /\ call[c].topic # RequestOf(z)
            /\ endpoints'[RequestOf(z)] = endpoints[RequestOf(z)]
                   + (IF w.topic = RequestOf(z) /\ call[c].topic # w.topic THEN 1 ELSE 0)
    <3>1. \A z \in Services : endpoints[RequestOf(z)] \in Nat
      BY TopicsDiffer DEF BaseInv, EntriesOK
    <3>2. \A z \in Services : call[c].topic # RequestOf(z)
      BY <1>1, TopicsDiffer
    <3> QED
      BY <1>4, <1>6, <3>1, <3>2 DEF TopicsOnly
  <2>4. \A z \in Services :
            call[c].topic = RequestOf(z) /\ w.topic # RequestOf(z) => RequestOf(z) \in lost'
    BY <2>3
  <2>5. \A z \in Services : endpoints'[RequestOf(z)] =
            endpoints[RequestOf(z)]
                + (IF w.topic = RequestOf(z) /\ call[c].topic # w.topic THEN 1 ELSE 0)
    BY <2>3
  <2>6. call' = [call EXCEPT ![c] = w]
    BY <1>5
  <2> QED
    BY <2>1, <2>2, <2>4, <2>5, <2>6, BaseWait
<1>8. EntriesOK'
  <2>1. /\ readers' \subseteq Topics /\ calls' \in 0..MaxCalls
        /\ asked' \subseteq Names /\ told' \subseteq Names /\ lost' \subseteq Topics
    BY <1>3 DEF BaseInv, EntriesOK
  <2>2. /\ actions' \in [Actions -> ActionDiscovered \cup {NoEntry}]
        /\ announced' \subseteq Names
        /\ endpoints' \in [Topics -> Nat]
    BY <1>4 DEF TopicsOnly
  <2> QED
    BY <1>6, <1>7, <2>1, <2>2 DEF EntriesOK
<1> QED
  BY <1>6, <1>7, <1>8 DEF BaseInv

-----------------------------------------------------------------------------
(* The services of an action.                                              *)

Linked(a) == IF actions[a] = NoEntry THEN {} ELSE actions[a].services
Serves(a) == actions[a] # NoEntry /\ actions[a].enabler_as_server
WithEndpoint(a) == {k \in ActionServices : HasEndpoint(<<a, k>>)}

\* The services that an announcement has inserted when it waits for t.
Inserted(a, t) ==
    CASE t = RequestOf(<<a, "GOAL">>) -> {}
      [] t = RequestOf(<<a, "CANCEL">>) -> {"GOAL"}
      [] t = RequestOf(<<a, "RESULT">>) -> {"GOAL", "CANCEL"}
      [] OTHER -> ActionServices

\* The entry of a service of a that thread c has made.
MadeBy(a, k, c) == services[<<a, k>>] # NoEntry /\ services[<<a, k>>].maker = c

\* An action that leads to services with an endpoint and to others without
\* was served once; if it leads to all three, discovery has completed it.
Completed(a) ==
    /\ actions[a].topics = ActionTopics
    /\ \A k \in Linked(a) : FullyDiscovered(services, <<a, k>>)
    /\ \/ Linked(a) # ActionServices
       \/ Linked(a) \subseteq WithEndpoint(a)
       \/ actions[a].external_server

\* However many threads announce it, an action leads to services that are
\* known, and to none that an announcement in a wait has inserted.
Knit(a) ==
    /\ \A k \in Linked(a) : services[<<a, k>>] # NoEntry
    /\ a \in announced => Serves(a)
    /\ \A c \in Callers, k \in ActionServices :
          ( call[c].name = a /\ k \in Inserted(a, call[c].topic) /\ MadeBy(a, k, c) )
              => k \in WithEndpoint(a) /\ k \notin Linked(a)
    /\ Linked(a) \cap WithEndpoint(a) = {} \/ Completed(a)

\* One that no two threads announce at once leads to all of its services
\* with their endpoints, or to none that has one.
ActionOK(a) ==
    /\ Serves(a) => Linked(a) = ActionServices
    /\ \/ Linked(a) \cap WithEndpoint(a) = {}
       \/ Linked(a) = ActionServices /\ WithEndpoint(a) = ActionServices
    /\ \A c \in Callers : call[c].name = a =>
          /\ WithEndpoint(a) = Inserted(a, call[c].topic)
          /\ \A k \in WithEndpoint(a) : MadeBy(a, k, c)
          /\ Linked(a) \cap WithEndpoint(a) = {}
          /\ ~Serves(a)
          /\ \A d \in Callers \ {c} : call[d].name # a

Fits(a) == Knit(a) /\ (a \notin contended => ActionOK(a))

IInv == BaseInv /\ \A a \in Actions : Fits(a)

\* What an action leads to are its services.
LEMMA LinkedType ==
    ASSUME EntriesOK, NEW a \in Actions
    PROVE  Linked(a) \subseteq ActionServices
BY DEF EntriesOK, Linked, ActionDiscovered

\* A step that is not about an action.
Still(a) ==
    /\ actions'[a] = actions[a]
    /\ \A k \in ActionServices : services'[<<a, k>>] = services[<<a, k>>]
    /\ \A c \in Callers : call'[c].name = a => call'[c] = call[c]
    /\ a \in announced' => a \in announced

\* Such a step leaves the action as it is.
LEMMA StillFits ==
    ASSUME NEW a \in Actions, EntriesOK, Still(a), Knit(a)
    PROVE  Knit(a)' /\ (ActionOK(a) => ActionOK(a)')
<1>1. Linked(a)' = Linked(a) /\ Serves(a)' = Serves(a)
  BY DEF Linked, Serves, Still
<1>2. WithEndpoint(a)' = WithEndpoint(a)
  BY DEF WithEndpoint, HasEndpoint, Still
<1>3. \A t : Inserted(a, t)' = Inserted(a, t)
  BY DEF Inserted
<1>4. /\ \A k \in ActionServices : \A c : MadeBy(a, k, c)' = MadeBy(a, k, c)
      /\ \A k \in ActionServices :
            FullyDiscovered(services, <<a, k>>)' = FullyDiscovered(services, <<a, k>>)
  BY DEF MadeBy, FullyDiscovered, Still
<1>5. Linked(a) \subseteq ActionServices /\ WithEndpoint(a) \subseteq ActionServices
  BY LinkedType DEF WithEndpoint
<1>6. \A c \in Callers : call'[c].name = a => call'[c] = call[c] /\ call[c].name = a
  BY DEF Still
<1>7. Completed(a)' = Completed(a)
  BY <1>1, <1>2, <1>4, <1>5 DEF Completed, Still
<1>8. \A k \in Linked(a) : services'[<<a, k>>] = services[<<a, k>>]
  BY <1>5 DEF Still
<1>9. Knit(a)'
  BY <1>1, <1>2, <1>3, <1>4, <1>6, <1>7, <1>8 DEF Knit, Still
<1>10. ASSUME ActionOK(a) PROVE ActionOK(a)'
  BY <1>1, <1>2, <1>3, <1>4, <1>5, <1>6, <1>10 DEF ActionOK
<1> QED
  BY <1>9, <1>10

\* How the insertions follow one another.
LEMMA InsertedOrder ==
    ASSUME NEW a
    PROVE  /\ Inserted(a, RequestOf(<<a, "GOAL">>)) = {}
           /\ Inserted(a, RequestOf(<<a, "CANCEL">>)) = {"GOAL"}
           /\ Inserted(a, RequestOf(<<a, "RESULT">>)) = {"GOAL", "CANCEL"}
           /\ \A kind \in ActionTopics : Inserted(a, <<a, kind>>) = ActionServices
BY TopicsDiffer DEF Inserted

-----------------------------------------------------------------------------
(* Discovery and the actions.                                              *)

\* The end of action_discovered_nts_ leaves an entry as it is, but for
\* external_server, which it sets if the action is complete.
LEMMA CheckedEntry ==
    ASSUME EntriesOK, NEW b \in Actions, NEW f, NEW entry \in ActionDiscovered,
           Checked(f, b, entry)
    PROVE  /\ actions'[b] \in ActionDiscovered
           /\ actions'[b].services = entry.services
           /\ actions'[b].topics = entry.topics
           /\ actions'[b].enabler_as_server = entry.enabler_as_server
           /\ ( entry.external_server \/ ActionComplete(f, b, entry) )
                  => actions'[b].external_server
           /\ \A a \in Actions \ {b} : actions'[a] = actions[a]
<1>1. CASE ActionComplete(f, b, entry)
  <2> DEFINE e == [entry EXCEPT !.external_server = TRUE]
  <2>1. /\ e \in ActionDiscovered
        /\ e.services = entry.services
        /\ e.topics = entry.topics
        /\ e.enabler_as_server = entry.enabler_as_server
        /\ e.external_server
    BY DEF ActionDiscovered
  <2>2. actions' = [actions EXCEPT ![b] = e]
    BY <1>1 DEF Checked
  <2> HIDE DEF e
  <2> QED
    BY <2>1, <2>2 DEF EntriesOK
<1>2. CASE ~ActionComplete(f, b, entry)
  BY <1>2 DEF Checked, EntriesOK
<1> QED
  BY <1>1, <1>2

\* The entry that a topic of an action finds or makes.
LEMMA EntryLemma ==
    ASSUME EntriesOK, NEW a \in Actions
    PROVE  /\ ActionEntry(a) \in ActionDiscovered
           /\ ActionEntry(a).services = Linked(a)
           /\ ActionEntry(a).enabler_as_server = Serves(a)
           /\ actions[a] # NoEntry => ActionEntry(a) = actions[a]
<1>1. actions \in [Actions -> ActionDiscovered \cup {NoEntry}] /\ NoEntry \notin ActionDiscovered
  BY RegistryAssumption DEF EntriesOK
<1>2. CASE actions[a] = NoEntry
  BY <1>2 DEF ActionEntry, NewAction, ActionDiscovered, Linked, Serves
<1>3. CASE actions[a] # NoEntry
  BY <1>1, <1>3 DEF ActionEntry, ActionDiscovered, Linked, Serves
<1> QED
  BY <1>2, <1>3

\* A step that leaves an action's services as they are, or adds one that has
\* just been completed and has no endpoint; what it leads to is checked.
Grows(a) ==
    /\ actions'[a] \in ActionDiscovered
    /\ Serves(a)' = Serves(a)
    /\ Linked(a) \subseteq Linked(a)'
    /\ \A k \in Linked(a)' \ Linked(a) :
          ~HasEndpoint(<<a, k>>) /\ FullyDiscovered(services', <<a, k>>)
    /\ actions[a] # NoEntry =>
          /\ actions[a].topics \subseteq actions'[a].topics
          /\ actions[a].external_server => actions'[a].external_server
    /\ ( /\ Linked(a)' = ActionServices
         /\ \A k \in ActionServices : FullyDiscovered(services', <<a, k>>)
         /\ actions'[a].topics = ActionTopics )
             => actions'[a].external_server

\* A discovery leads an action to a service without an endpoint at most.
LEMMA DiscoveryLinks ==
    ASSUME BaseInv, NEW t \in Topics, CreateReader(t), NEW a \in Actions
    PROVE  Still(a) \/ Grows(a)
<1>1. EntriesOK /\ NoEntry \notin ActionDiscovered /\ UNCHANGED <<call, announced>>
  BY RegistryAssumption DEF BaseInv, CreateReader
<1>2. \A k \in ActionServices : <<a, k>> \in Services
  BY TopicsDiffer
<1>3. CASE UNCHANGED <<services, actions>>
  BY <1>1, <1>3 DEF Still
<1>4. ASSUME NEW s \in PlainServices, NEW kind \in ServiceTopics, NEW odd,
             DiscoverPlain(s, kind, odd)
      PROVE  Still(a)
  <2>1. \A k \in ActionServices : <<a, k>> # s
    BY RegistryAssumption
  <2> QED
    BY <1>1, <1>2, <1>4, <2>1 DEF DiscoverPlain, Still, EntriesOK
<1>5. ASSUME NEW b \in Actions, NEW k \in ActionServices, NEW kind \in ServiceTopics,
             DiscoverActionService(b, k, kind)
      PROVE  Still(a) \/ Grows(a)
  <2> DEFINE found == IF Completes(<<b, k>>, kind) THEN {k} ELSE {}
             entry == [ActionEntry(b) EXCEPT !.services = @ \cup found]
  <2>1. /\ entry \in ActionDiscovered
        /\ entry.services = ActionEntry(b).services \cup found
        /\ entry.topics = ActionEntry(b).topics
        /\ entry.enabler_as_server = ActionEntry(b).enabler_as_server
        /\ entry.external_server = ActionEntry(b).external_server
    BY <1>1, EntryLemma DEF ActionDiscovered
  <2>2. /\ Checked(services', b, entry)
        /\ services' = [services EXCEPT ![<<b, k>>] = ServiceWithTopic(<<b, k>>, kind, {})]
    BY <1>5 DEF DiscoverActionService
  <2> HIDE DEF entry
  <2>3. CASE b # a
    <3>1. actions'[a] = actions[a]
      BY <1>1, <2>1, <2>2, <2>3, CheckedEntry
    <3>2. \A j \in ActionServices : services'[<<a, j>>] = services[<<a, j>>]
      BY <1>1, <1>2, <2>2, <2>3 DEF EntriesOK
    <3> QED
      BY <1>1, <3>1, <3>2 DEF Still
  <2>4. CASE b = a
    <3>1. /\ actions'[a] \in ActionDiscovered
          /\ actions'[a].services = Linked(a) \cup found
          /\ actions'[a].topics = ActionEntry(a).topics
          /\ actions'[a].enabler_as_server = Serves(a)
          /\ ( ActionEntry(a).external_server \/ ActionComplete(services', a, entry) )
                  => actions'[a].external_server
      BY <1>1, <2>1, <2>2, <2>4, CheckedEntry, EntryLemma
    <3>2. Linked(a)' = Linked(a) \cup found /\ Serves(a)' = Serves(a)
      BY <1>1, <3>1 DEF Linked, Serves
    <3>3. ASSUME Completes(<<a, k>>, kind)
          PROVE  ~HasEndpoint(<<a, k>>) /\ FullyDiscovered(services', <<a, k>>)
      <4>1. <<a, k>> \in Services
        BY TopicsDiffer
      <4>2. ~HasEndpoint(<<a, k>>)
        BY <3>3, <4>1 DEF BaseInv, ServiceInv, Completes, ServiceEntry, HasEndpoint
      <4>3. services'[<<a, k>>] = ServiceWithTopic(<<a, k>>, kind, {})
        BY <2>2, <2>4, <4>1 DEF BaseInv, EntriesOK
      <4>4. /\ ServiceWithTopic(<<a, k>>, kind, {}) \in ServiceDiscovered
            /\ ServiceWithTopic(<<a, k>>, kind, {}).topics
                   = ServiceEntry(<<a, k>>).topics \cup {kind}
        BY <4>1, WithTopicLemma DEF BaseInv
      <4> QED
        BY <3>3, <4>2, <4>3, <4>4, RegistryAssumption DEF FullyDiscovered, Completes
    <3>4. ( /\ Linked(a)' = ActionServices
            /\ \A j \in ActionServices : FullyDiscovered(services', <<a, j>>)
            /\ actions'[a].topics = ActionTopics )
                => ActionComplete(services', a, entry)
      BY <1>1, <2>1, <2>4, <3>1, <3>2, EntryLemma DEF ActionComplete
    <3>5. actions[a] # NoEntry => ActionEntry(a) = actions[a]
      BY <1>1, EntryLemma
    <3> QED
      BY <2>4, <3>1, <3>2, <3>3, <3>4, <3>5 DEF Grows
  <2> QED
    BY <2>3, <2>4
<1>6. ASSUME NEW b \in Actions, NEW kind \in ActionTopics, DiscoverActionTopic(b, kind)
      PROVE  Still(a) \/ Grows(a)
  <2> DEFINE entry == [ActionEntry(b) EXCEPT !.topics = @ \cup {kind}]
  <2>1. /\ entry \in ActionDiscovered
        /\ entry.services = ActionEntry(b).services
        /\ entry.topics = ActionEntry(b).topics \cup {kind}
        /\ entry.enabler_as_server = ActionEntry(b).enabler_as_server
        /\ entry.external_server = ActionEntry(b).external_server
    BY <1>1, EntryLemma DEF ActionDiscovered
  <2>2. Checked(services, b, entry) /\ services' = services
    BY <1>6 DEF DiscoverActionTopic
  <2> HIDE DEF entry
  <2>3. CASE b # a
    <3>1. actions'[a] = actions[a]
      BY <1>1, <2>1, <2>2, <2>3, CheckedEntry
    <3> QED
      BY <1>1, <2>2, <3>1 DEF Still
  <2>4. CASE b = a
    <3>1. /\ actions'[a] \in ActionDiscovered
          /\ actions'[a].services = Linked(a)
          /\ actions'[a].topics = ActionEntry(a).topics \cup {kind}
          /\ actions'[a].enabler_as_server = Serves(a)
          /\ ( ActionEntry(a).external_server \/ ActionComplete(services, a, entry) )
                  => actions'[a].external_server
      BY <1>1, <2>1, <2>2, <2>4, CheckedEntry, EntryLemma
    <3>2. Linked(a)' = Linked(a) /\ Serves(a)' = Serves(a)
      BY <1>1, <3>1 DEF Linked, Serves
    <3>3. ( /\ Linked(a)' = ActionServices
            /\ \A j \in ActionServices : FullyDiscovered(services', <<a, j>>)
            /\ actions'[a].topics = ActionTopics )
                => ActionComplete(services, a, entry)
      BY <1>1, <2>1, <2>2, <2>4, <3>1, <3>2, EntryLemma DEF ActionComplete
    <3>4. actions[a] # NoEntry => ActionEntry(a) = actions[a]
      BY <1>1, EntryLemma
    <3> QED
      BY <2>4, <3>1, <3>2, <3>3, <3>4 DEF Grows
  <2> QED
    BY <2>3, <2>4
<1> QED
  BY <1>3, <1>4, <1>5, <1>6 DEF CreateReader, registry

\* Discovery.
LEMMA ActionsCreateReader ==
    ASSUME IInv, NEW t \in Topics, CreateReader(t), NEW a \in Actions
    PROVE  Knit(a)' /\ (ActionOK(a) => ActionOK(a)')
<1>1. CASE Still(a)
  BY <1>1, StillFits DEF IInv, Fits, BaseInv
<1>2. ASSUME Grows(a) PROVE Knit(a)' /\ (ActionOK(a) => ActionOK(a)')
  <2>1. \A k \in ActionServices :
            /\ HasEndpoint(<<a, k>>)' = HasEndpoint(<<a, k>>)
            /\ HasEndpoint(<<a, k>>) => services'[<<a, k>>] = services[<<a, k>>]
            /\ services[<<a, k>>] # NoEntry => services'[<<a, k>>] # NoEntry
            /\ \A c \in Callers : MadeBy(a, k, c)' => MadeBy(a, k, c)
            /\ FullyDiscovered(services, <<a, k>>) => FullyDiscovered(services', <<a, k>>)
    <3>1. \A k \in ActionServices : <<a, k>> \in Services
      BY TopicsDiffer
    <3>2. \A k \in ActionServices, c \in Callers : MadeBy(a, k, c)' => MadeBy(a, k, c)
      BY <3>1, DiscoveryMakers DEF MadeBy, IInv, BaseInv
    <3> QED
      BY <3>1, <3>2, DiscoveryEndpoints, DiscoveryMakers DEF IInv, BaseInv
  <2>2. WithEndpoint(a)' = WithEndpoint(a)
    BY <2>1 DEF WithEndpoint
  <2>3. UNCHANGED <<call, announced>>
    BY DEF CreateReader
  <2>4. /\ Linked(a) \subseteq ActionServices /\ Linked(a)' \subseteq ActionServices
        /\ WithEndpoint(a) \subseteq ActionServices
        /\ Knit(a)
    <3>1. Linked(a)' = actions'[a].services
      BY <1>2, RegistryAssumption DEF Grows, Linked
    <3> QED
      BY <1>2, <3>1, LinkedType DEF IInv, Fits, BaseInv, Grows, ActionDiscovered, WithEndpoint
  <2>5. \A k \in Linked(a)' : services'[<<a, k>>] # NoEntry
    BY <1>2, <2>1, <2>4 DEF Knit, Grows, FullyDiscovered
  <2>6. Linked(a)' \cap WithEndpoint(a)' = Linked(a) \cap WithEndpoint(a)
    BY <1>2, <2>2 DEF WithEndpoint, Grows
  <2>7. \A c : Inserted(a, call[c].topic)' = Inserted(a, call[c].topic)
    BY <2>3 DEF Inserted
  <2>8. \A c \in Callers, k \in ActionServices :
            ( call'[c].name = a /\ k \in Inserted(a, call[c].topic)' /\ MadeBy(a, k, c)' )
                => k \in WithEndpoint(a)' /\ k \notin Linked(a)'
    <3> SUFFICES ASSUME NEW c \in Callers, NEW k \in ActionServices, call'[c].name = a,
                        k \in Inserted(a, call[c].topic)', MadeBy(a, k, c)'
                 PROVE  k \in WithEndpoint(a)' /\ k \notin Linked(a)'
      OBVIOUS
    <3>1. call[c].name = a /\ k \in Inserted(a, call[c].topic) /\ MadeBy(a, k, c)
      BY <2>1, <2>3, <2>7
    <3>2. k \in WithEndpoint(a) /\ k \notin Linked(a)
      BY <2>4, <3>1 DEF Knit
    <3> QED
      BY <2>2, <2>6, <3>2
  <2>9. ASSUME Linked(a) \cap WithEndpoint(a) # {} PROVE Completed(a)'
    <3>1. Completed(a) /\ actions[a] # NoEntry
      BY <2>4, <2>9 DEF Knit, Linked
    <3>2. actions'[a].topics = ActionTopics
      BY <1>2, <3>1 DEF Grows, Completed, ActionDiscovered
    <3>3. \A k \in Linked(a)' : FullyDiscovered(services', <<a, k>>)
      BY <1>2, <2>1, <2>4, <3>1 DEF Grows, Completed
    <3>4. Linked(a)' = ActionServices => actions'[a].external_server
      BY <1>2, <3>2, <3>3 DEF Grows
    <3> QED
      BY <3>2, <3>3, <3>4 DEF Completed
  <2>10. Knit(a)'
    <3>1. a \in announced' => Serves(a)'
      BY <1>2, <2>3, <2>4 DEF Knit, Grows
    <3> QED
      BY <2>5, <2>6, <2>8, <2>9, <3>1 DEF Knit
  <2>11. ASSUME ActionOK(a) PROVE ActionOK(a)'
    <3>1. \A c, k : MadeBy(a, k, c) /\ k \in WithEndpoint(a) => MadeBy(a, k, c)'
      BY <2>1 DEF MadeBy, WithEndpoint
    <3>2. Serves(a)' = Serves(a) /\ Linked(a) \subseteq Linked(a)'
      BY <1>2 DEF Grows
    <3> QED
      BY <2>2, <2>3, <2>4, <2>6, <2>7, <2>11, <3>1, <3>2 DEF ActionOK
  <2> QED
    BY <2>10, <2>11
<1> QED
  BY <1>1, <1>2, DiscoveryLinks DEF IInv

-----------------------------------------------------------------------------
(* Steps that are about something else.                                    *)

\* A step about plain services changes no service of an action.
LEMMA PlainIsNoPart ==
    ASSUME NEW s \in PlainServices, NEW a \in Actions, NEW k \in ActionServices
    PROVE  s # <<a, k>> /\ s # a /\ <<a, k>> \in Services
BY RegistryAssumption, TopicsDiffer

\* Calls about plain services.
LEMMA ActionsServiceCall ==
    ASSUME EntriesOK, NEW c \in Callers, NEW s \in PlainServices,
           AnnounceService(c, s) \/ ServiceAnnounced(c, s) \/ RevokeService(c, s),
           NEW a \in Actions
    PROVE  Still(a)
<1>1. UNCHANGED actions
  BY DEF AnnounceService, AnnounceRefused, AnnounceKnownService, AnnounceNewService,
         ServiceAnnounced, RevokeService, RevokeRefused, registry
<1>2. \A k \in ActionServices : services'[<<a, k>>] = services[<<a, k>>]
  <2> SUFFICES ASSUME NEW k \in ActionServices PROVE services'[<<a, k>>] = services[<<a, k>>]
    OBVIOUS
  <2>1. s # <<a, k>> /\ <<a, k>> \in Services
    BY PlainIsNoPart
  <2>2. CASE \E e : services' = [services EXCEPT ![s] = e]
    BY <2>1, <2>2 DEF EntriesOK
  <2>3. CASE services' = services
    BY <2>3
  <2>4. CASE RevokeServices({s})
    BY <2>1, <2>4 DEF RevokeServices
  <2> QED
    BY <2>2, <2>3, <2>4
       DEF AnnounceService, AnnounceRefused, AnnounceKnownService, AnnounceNewService,
           ServiceAnnounced, RevokeService, RevokeRefused, registry
<1>3. \A d \in Callers : call'[d].name = a => call'[d] = call[d]
  <2>1. CASE call' = call
    BY <2>1
  <2>2. ASSUME NEW w, w.name # a, call' = [call EXCEPT ![c] = w]
        PROVE  \A d \in Callers : call'[d].name = a => call'[d] = call[d]
    BY <2>2 DEF EntriesOK
  <2>3. Idle.name # a /\ [name |-> s, topic |-> RequestOf(s)].name # a
    BY RegistryAssumption DEF Idle, Names
  <2>4. CASE AnnounceNewService(c, s)
    BY <2>2, <2>3, <2>4 DEF AnnounceNewService, WaitsFor
  <2>5. CASE ServiceAnnounced(c, s)
    BY <2>2, <2>3, <2>5 DEF ServiceAnnounced
  <2> QED
    BY <2>1, <2>4, <2>5
       DEF AnnounceService, AnnounceRefused, AnnounceKnownService, RevokeService, RevokeRefused
<1>4. a \in announced' => a \in announced
  BY RegistryAssumption
     DEF AnnounceService, AnnounceRefused, AnnounceKnownService, AnnounceNewService,
         ServiceAnnounced, RevokeService, RevokeRefused, ghosts
<1> QED
  BY <1>1, <1>2, <1>3, <1>4 DEF Still

\* A timeout.
LEMMA ActionsTimesOut ==
    ASSUME EntriesOK, NEW c \in Callers, WaitTimesOut(c), NEW a \in Actions
    PROVE  Still(a)
<1>1. UNCHANGED <<services, actions, announced>> /\ call' = [call EXCEPT ![c] = Idle]
  BY DEF WaitTimesOut, registry
<1>2. Idle.name # a
  BY RegistryAssumption DEF Idle, Names
<1>3. \A d \in Callers : call'[d].name = a => call'[d] = call[d]
  BY <1>1, <1>2 DEF EntriesOK
<1> QED
  BY <1>1, <1>3 DEF Still

\* What an insertion makes of an action and its services.
LEMMA ActionInsert ==
    ASSUME EntriesOK, NEW c \in Callers, NEW a \in Actions, NEW k \in ActionServices, NEW f,
           Insert(c, a, k), f = Unlinked(a, k)
    PROVE  /\ WithEndpoint(a)' = WithEndpoint(a) \cup {k}
           /\ MadeBy(a, k, c)' /\ \A d : d # c => ~MadeBy(a, k, d)'
           /\ \A j \in ActionServices \ {k} : services'[<<a, j>>] = services[<<a, j>>]
           /\ f[a] # NoEntry <=> actions[a] # NoEntry
           /\ f[a] # NoEntry => /\ f[a].services = Linked(a) \ {k}
                               /\ f[a].topics = actions[a].topics
                               /\ f[a].enabler_as_server = actions[a].enabler_as_server
                               /\ f[a].external_server = actions[a].external_server
           /\ \A b \in Actions \ {a} : f[b] = actions[b]
           /\ \A b \in Actions \ {a}, j \in ActionServices :
                 services'[<<b, j>>] = services[<<b, j>>]
<1>1. /\ services' = [services EXCEPT ![<<a, k>>] = AnnouncedService(c)]
      /\ <<a, k>> \in Services
  BY TopicsDiffer DEF Insert
<1>2. /\ services'[<<a, k>>] = AnnouncedService(c)
      /\ \A z \in Services : z # <<a, k>> => services'[z] = services[z]
  BY <1>1 DEF EntriesOK
<1>3. \A b \in Actions, j \in ActionServices :
          (b # a \/ j # k) => services'[<<b, j>>] = services[<<b, j>>]
  BY <1>2, TopicsDiffer
<1>4. /\ HasEndpoint(<<a, k>>)'
      /\ \A j \in ActionServices \ {k} : HasEndpoint(<<a, j>>)' = HasEndpoint(<<a, j>>)
  BY <1>2, <1>3, AnnouncedServiceType DEF HasEndpoint
<1>5. WithEndpoint(a)' = WithEndpoint(a) \cup {k}
  BY <1>4 DEF WithEndpoint
<1>6. MadeBy(a, k, c)' /\ \A d : d # c => ~MadeBy(a, k, d)'
  BY <1>2, AnnouncedServiceType DEF MadeBy, AnnouncedService
<1>7. /\ f[a] # NoEntry <=> actions[a] # NoEntry
      /\ f[a] # NoEntry => /\ f[a].services = Linked(a) \ {k}
                          /\ f[a].topics = actions[a].topics
                          /\ f[a].enabler_as_server = actions[a].enabler_as_server
                          /\ f[a].external_server = actions[a].external_server
  <2>1. CASE actions[a] = NoEntry
    BY <2>1 DEF Unlinked
  <2>2. CASE actions[a] # NoEntry
    <3>1. actions[a] \in ActionDiscovered
      BY <2>2 DEF EntriesOK
    <3>2. f[a] = [actions[a] EXCEPT !.services = @ \ {k}]
      BY <2>2 DEF Unlinked, EntriesOK
    <3>3. f[a] \in ActionDiscovered
      BY <3>1, <3>2 DEF ActionDiscovered
    <3> QED
      BY <2>2, <3>1, <3>2, <3>3, RegistryAssumption DEF Linked, ActionDiscovered
  <2> QED
    BY <2>1, <2>2
<1>8. \A b \in Actions \ {a} : f[b] = actions[b]
  BY DEF Unlinked, EntriesOK
<1> QED
  BY <1>2, <1>3, <1>5, <1>6, <1>7, <1>8

\* A step about one action leaves the others as they are.
LEMMA OtherActions ==
    ASSUME EntriesOK, NEW c \in Callers, NEW a \in Actions,
           AnnounceAction(c, a) \/ ContinueAction(c, a) \/ RevokeAction(c, a),
           NEW b \in Actions, b # a
    PROVE  Still(b)
<1>1. /\ \A k \in ActionServices : <<b, k>> \in Services
      /\ \A k, j : <<b, k>> # <<a, j>>
  BY TopicsDiffer
<1>2. ASSUME NEW w, w = Idle \/ (\E t : w = [name |-> a, topic |-> t]),
             call' = [call EXCEPT ![c] = w]
      PROVE  \A d \in Callers : call'[d].name = b => call'[d] = call[d]
  <2>1. w.name # b
    <3>1. Idle.name # b
      BY RegistryAssumption DEF Idle, Names
    <3> QED
      BY <1>2, <3>1
  <2> QED
    BY <1>1, <1>2, <2>1 DEF EntriesOK
<1>3. ASSUME AnnounceRefused(c, a) \/ RevokeRefused(c, a) PROVE Still(b)
  BY <1>3 DEF AnnounceRefused, RevokeRefused, registry, ghosts, Still
<1>4. ASSUME AnnounceKnownAction(c, a) PROVE Still(b)
  BY <1>1, <1>4 DEF AnnounceKnownAction, EntriesOK, Still
<1>5. ASSUME AnnounceNewAction(c, a) PROVE Still(b)
  <2>1. actions'[b] = actions[b] /\ UNCHANGED announced
    BY <1>1, <1>5 DEF AnnounceNewAction, EntriesOK
  <2>2. \A k \in ActionServices : services'[<<b, k>>] = services[<<b, k>>]
    BY <1>1, <1>5 DEF AnnounceNewAction
  <2>3. \A d \in Callers : call'[d].name = b => call'[d] = call[d]
    BY <1>2, <1>5 DEF AnnounceNewAction, WaitsFor
  <2> QED
    BY <2>1, <2>2, <2>3 DEF Still
<1>6. ASSUME NEW k \in ActionServices, NEW next \in ActionServices, ServiceInserted(c, a, k, next)
      PROVE  Still(b)
  <2>1. /\ actions'[b] = actions[b]
        /\ \A j \in ActionServices : services'[<<b, j>>] = services[<<b, j>>]
    BY <1>6, ActionInsert DEF ServiceInserted
  <2>2. \A d \in Callers : call'[d].name = b => call'[d] = call[d]
    BY <1>2, <1>6 DEF ServiceInserted, WaitsFor, Fails
  <2> QED
    BY <1>6, <2>1, <2>2 DEF ServiceInserted, Still
<1>7. ASSUME ResultInserted(c, a) PROVE Still(b)
  <2>1. "RESULT" \in ActionServices
    BY DEF ActionServices
  <2>2. /\ Unlinked(a, "RESULT")[b] = actions[b]
        /\ \A j \in ActionServices : services'[<<b, j>>] = services[<<b, j>>]
    BY <1>7, <2>1, ActionInsert DEF ResultInserted
  <2>3. Unlinked(a, "RESULT") \in [Actions -> ActionDiscovered \cup {NoEntry}]
    BY <2>1, ActionTypes
  <2>4. actions'[b] = actions[b]
    BY <1>7, <2>2, <2>3 DEF ResultInserted, StatusAndEnd
  <2>5. \A d \in Callers : call'[d].name = b => call'[d] = call[d]
    BY <1>2, <1>7 DEF ResultInserted, WaitsFor, Fails, StatusAndEnd
  <2>6. b \in announced' => b \in announced
    BY <1>7 DEF ResultInserted, StatusAndEnd
  <2> QED
    BY <2>2, <2>4, <2>5, <2>6 DEF Still
<1>8. ASSUME FeedbackReady(c, a) \/ StatusReady(c, a) PROVE Still(b)
  <2>1. actions'[b] = actions[b] /\ UNCHANGED services /\ (b \in announced' => b \in announced)
    BY <1>1, <1>8 DEF FeedbackReady, StatusReady, Fails, StatusAndEnd, EntriesOK
  <2>2. \A d \in Callers : call'[d].name = b => call'[d] = call[d]
    BY <1>2, <1>8 DEF FeedbackReady, StatusReady, Fails, StatusAndEnd
  <2> QED
    BY <2>1, <2>2 DEF Still
<1>9. ASSUME RevocationIsFlag(a) \/ RevocationOfServices(a), UNCHANGED call
      PROVE  Still(b)
  <2>1. RevokedParts(a) \subseteq {a} \X ActionServices
    BY RevokedPartsLemma
  <2>2. \A k \in ActionServices : services'[<<b, k>>] = services[<<b, k>>]
    BY <1>1, <1>9, <2>1 DEF RevocationIsFlag, RevocationOfServices, RevokeServices
  <2>3. actions'[b] = actions[b] /\ (b \in announced' => b \in announced)
    BY <1>1, <1>9 DEF RevocationIsFlag, RevocationOfServices, EntriesOK
  <2> QED
    BY <1>9, <2>2, <2>3 DEF Still
<1>10. "GOAL" \in ActionServices /\ "CANCEL" \in ActionServices /\ "RESULT" \in ActionServices
  BY DEF ActionServices
<1>11. CASE AnnounceAction(c, a)
  BY <1>3, <1>4, <1>5, <1>11 DEF AnnounceAction
<1>12. CASE ContinueAction(c, a)
  BY <1>6, <1>7, <1>8, <1>10, <1>12 DEF ContinueAction
<1>13. CASE RevokeAction(c, a)
  BY <1>3, <1>9, <1>13 DEF RevokeAction
<1> QED
  BY <1>11, <1>12, <1>13

-----------------------------------------------------------------------------
(* Announcing an action.                                                   *)

\* A thread that announces an action that it does not leave contended is
\* the only one.
LEMMA OnlyThread ==
    ASSUME NEW c \in Callers, NEW a \in Actions, Announces(c, a), a \notin contended'
    PROVE  \A d \in Callers : call[d].name # a
<1>1. call[c] = Idle /\ Idle.name # a
  BY RegistryAssumption DEF Announces, MakesCall, Idle, Names
<1>2. Others(c, a) = {}
  BY DEF Announces
<1> QED
  BY <1>1, <1>2 DEF Others

\* Announcing an action by its flags.
LEMMA ActionsKnownAction ==
    ASSUME IInv, NEW c \in Callers, NEW a \in Actions, AnnounceKnownAction(c, a)
    PROVE  Knit(a)' /\ (a \notin contended' => ActionOK(a)')
<1>1. /\ ServicesKnown(a) /\ Announces(c, a)
      /\ actions' = [actions EXCEPT ![a].enabler_as_server = TRUE]
      /\ UNCHANGED call
  BY DEF AnnounceKnownAction
<1>2. Knit(a) /\ EntriesOK /\ Linked(a) = ActionServices
  BY <1>1 DEF IInv, Fits, BaseInv, Linked, ServicesKnown
<1>3. actions[a] \in ActionDiscovered
  BY <1>1, <1>2 DEF EntriesOK, ServicesKnown
<1>4. actions'[a] = [actions[a] EXCEPT !.enabler_as_server = TRUE]
  BY <1>1, <1>2, <1>3 DEF EntriesOK
<1>5. /\ actions'[a] \in ActionDiscovered
      /\ actions'[a].services = ActionServices
      /\ actions'[a].topics = actions[a].topics
      /\ actions'[a].external_server = actions[a].external_server
      /\ actions'[a].enabler_as_server
  BY <1>1, <1>3, <1>4 DEF ActionDiscovered, ServicesKnown
<1>6. Linked(a)' = ActionServices /\ Serves(a)'
  BY <1>5, RegistryAssumption DEF Linked, Serves
<1>7. \A k \in ActionServices :
          /\ services[<<a, k>>] # NoEntry /\ services'[<<a, k>>] # NoEntry
          /\ services'[<<a, k>>].endpoint_request = services[<<a, k>>].endpoint_request
          /\ services'[<<a, k>>].topics = services[<<a, k>>].topics
          /\ services'[<<a, k>>].maker = services[<<a, k>>].maker
  <2> SUFFICES ASSUME NEW k \in ActionServices
               PROVE  /\ services[<<a, k>>] # NoEntry /\ services'[<<a, k>>] # NoEntry
                      /\ services'[<<a, k>>].endpoint_request = services[<<a, k>>].endpoint_request
                      /\ services'[<<a, k>>].topics = services[<<a, k>>].topics
                      /\ services'[<<a, k>>].maker = services[<<a, k>>].maker
    OBVIOUS
  <2>1. <<a, k>> \in Services /\ services[<<a, k>>] # NoEntry
    BY <1>2, TopicsDiffer DEF Knit
  <2>2. services'[<<a, k>>] = [services[<<a, k>>] EXCEPT !.enabler_as_server = TRUE]
    BY <2>1 DEF AnnounceKnownAction
  <2>3. services[<<a, k>>] \in ServiceDiscovered
    BY <1>2, <2>1 DEF EntriesOK
  <2>4. services'[<<a, k>>] \in ServiceDiscovered
    BY <2>2, <2>3 DEF ServiceDiscovered
  <2> QED
    BY <2>1, <2>2, <2>3, <2>4, RegistryAssumption DEF ServiceDiscovered
<1>8. /\ WithEndpoint(a)' = WithEndpoint(a)
      /\ \A k \in ActionServices :
            /\ \A d : MadeBy(a, k, d)' <=> MadeBy(a, k, d)
            /\ FullyDiscovered(services', <<a, k>>) <=> FullyDiscovered(services, <<a, k>>)
  BY <1>7 DEF WithEndpoint, HasEndpoint, MadeBy, FullyDiscovered
<1>9. \A d \in Callers : Inserted(a, call[d].topic)' = Inserted(a, call[d].topic)
  BY <1>1 DEF Inserted
<1>10. Completed(a) => Completed(a)'
  BY <1>2, <1>5, <1>6, <1>8 DEF Completed
<1>11. Knit(a)'
  BY <1>1, <1>2, <1>6, <1>7, <1>8, <1>9, <1>10 DEF Knit
<1>12. ASSUME a \notin contended' PROVE ActionOK(a)'
  <2>1. \A d \in Callers : call'[d].name # a
    BY <1>1, <1>12, OnlyThread
  <2>2. ActionOK(a)
    BY <1>1, <1>12 DEF IInv, Fits, Announces
  <2>3. WithEndpoint(a) = {} \/ WithEndpoint(a) = ActionServices
    BY <1>2, <2>2 DEF ActionOK, WithEndpoint
  <2> QED
    BY <1>6, <1>8, <2>1, <2>3 DEF ActionOK
<1> QED
  BY <1>11, <1>12

\* Announcing an action anew: what was inserted before is erased.
LEMMA ActionsNewAction ==
    ASSUME IInv, NEW c \in Callers, NEW a \in Actions, AnnounceNewAction(c, a)
    PROVE  Knit(a)' /\ (a \notin contended' => ActionOK(a)')
<1> DEFINE parts == {a} \X ActionServices
           goal == RequestOf(<<a, "GOAL">>)
           new == [name |-> a, topic |-> goal]
<1>1. /\ Announces(c, a)
      /\ actions[a] # NoEntry => ~actions[a].enabler_as_server
      /\ actions' = [actions EXCEPT ![a] = NoEntry]
      /\ \/ UNCHANGED <<services, call>>
         \/ /\ services' = [s \in Services |-> IF s \in parts THEN NoEntry ELSE services[s]]
            /\ call' = [call EXCEPT ![c] = new] \/ UNCHANGED call
      /\ UNCHANGED announced
  BY DEF AnnounceNewAction, WaitsFor
<1>2. Knit(a) /\ EntriesOK /\ ~Serves(a) /\ a \notin announced
  BY <1>1 DEF Serves, IInv, Fits, BaseInv, Knit
<1>3. Linked(a)' = {} /\ ~Serves(a)'
  BY <1>1, <1>2 DEF Linked, Serves, EntriesOK
<1>4. ASSUME services' = [s \in Services |-> IF s \in parts THEN NoEntry ELSE services[s]]
      PROVE  WithEndpoint(a)' = {} /\ \A k \in ActionServices : \A d : ~MadeBy(a, k, d)'
  <2>1. \A k \in ActionServices : services'[<<a, k>>] = NoEntry
    BY <1>4, TopicsDiffer
  <2> QED
    BY <2>1 DEF WithEndpoint, HasEndpoint, MadeBy
<1>5. Knit(a)'
  <2>1. CASE UNCHANGED <<services, call>>
    <3>1. /\ WithEndpoint(a)' = WithEndpoint(a)
          /\ \A k, d : MadeBy(a, k, d)' = MadeBy(a, k, d)
          /\ \A d : Inserted(a, call[d].topic)' = Inserted(a, call[d].topic)
      BY <2>1 DEF WithEndpoint, HasEndpoint, MadeBy, Inserted
    <3> QED
      BY <1>1, <1>2, <1>3, <2>1, <3>1 DEF Knit
  <2>2. CASE services' = [s \in Services |-> IF s \in parts THEN NoEntry ELSE services[s]]
    BY <1>1, <1>2, <1>3, <1>4, <2>2 DEF Knit
  <2> QED
    BY <1>1, <2>1, <2>2
<1>6. ASSUME a \notin contended' PROVE ActionOK(a)'
  <2>1. \A d \in Callers : call[d].name # a
    BY <1>1, <1>6, OnlyThread
  <2>2. CASE UNCHANGED call
    BY <1>3, <2>1, <2>2 DEF ActionOK
  <2>3. CASE /\ services' = [s \in Services |-> IF s \in parts THEN NoEntry ELSE services[s]]
             /\ call' = [call EXCEPT ![c] = new]
    <3>1. WithEndpoint(a)' = {}
      BY <1>4, <2>3
    <3>2. Inserted(a, goal) = {}
      BY InsertedOrder
    <3>3. new.topic = goal
      OBVIOUS
    <3>4. \A d \in Callers : call'[d] = IF d = c THEN new ELSE call[d]
      BY <1>2, <2>3 DEF EntriesOK
    <3> HIDE DEF new, goal
    <3>5. \A d \in Callers : call'[d].name = a => d = c /\ call'[d].topic = goal
      BY <2>1, <3>3, <3>4
    <3>6. \A d \in Callers : Inserted(a, call[d].topic)' = Inserted(a, call'[d].topic)
      BY DEF Inserted
    <3> QED
      BY <1>3, <3>1, <3>2, <3>5, <3>6 DEF ActionOK
  <2> QED
    BY <1>1, <2>2, <2>3
<1> QED
  BY <1>5, <1>6

\* The announcement goes on, or ends with nothing done, once service k is
\* inserted.
LEMMA KnitInserted ==
    ASSUME IInv, NEW c \in Callers, NEW a \in Actions, NEW k \in ActionServices, NEW w,
           call[c].name = a, Insert(c, a, k), call' = [call EXCEPT ![c] = w],
           w.name = a => Inserted(a, w.topic) \subseteq Inserted(a, call[c].topic) \cup {k},
           actions'[a] = Unlinked(a, k)[a],
           a \in announced' => a \in announced
    PROVE  Knit(a)'
<1>1. Knit(a) /\ EntriesOK /\ Linked(a) \subseteq ActionServices
  BY LinkedType DEF IInv, Fits, BaseInv
<1>2. /\ WithEndpoint(a)' = WithEndpoint(a) \cup {k}
      /\ \A d : d # c => ~MadeBy(a, k, d)'
      /\ \A j \in ActionServices \ {k} : services'[<<a, j>>] = services[<<a, j>>]
      /\ actions'[a] # NoEntry <=> actions[a] # NoEntry
      /\ actions[a] # NoEntry =>
            /\ actions'[a].services = Linked(a) \ {k}
            /\ actions'[a].topics = actions[a].topics
            /\ actions'[a].enabler_as_server = actions[a].enabler_as_server
  BY <1>1, ActionInsert
<1>3. Linked(a)' = Linked(a) \ {k} /\ (Serves(a) => Serves(a)')
  BY <1>2 DEF Linked, Serves
<1>4. \A j \in ActionServices \ {k} : \A d :
          /\ MadeBy(a, j, d)' => MadeBy(a, j, d)
          /\ FullyDiscovered(services, <<a, j>>) => FullyDiscovered(services', <<a, j>>)
  BY <1>2 DEF MadeBy, FullyDiscovered
<1>5. \A j \in Linked(a)' : services'[<<a, j>>] # NoEntry
  BY <1>1, <1>2, <1>3 DEF Knit
<1>6. ASSUME NEW d \in Callers, NEW j \in ActionServices, call'[d].name = a,
             j \in Inserted(a, call'[d].topic), MadeBy(a, j, d)'
      PROVE  j \in WithEndpoint(a)' /\ j \notin Linked(a)'
  <2>1. CASE j = k
    BY <1>2, <1>3, <2>1
  <2>2. CASE j # k
    <3>1. call[d].name = a /\ j \in Inserted(a, call[d].topic)
      BY <1>1, <1>6, <2>2 DEF EntriesOK
    <3>2. j \in WithEndpoint(a) /\ j \notin Linked(a)
      BY <1>1, <1>4, <1>6, <2>2, <3>1 DEF Knit
    <3> QED
      BY <1>2, <1>3, <3>2
  <2> QED
    BY <2>1, <2>2
<1>7. \A d : Inserted(a, call[d].topic)' = Inserted(a, call'[d].topic)
  BY DEF Inserted
<1>8. ASSUME Linked(a)' \cap WithEndpoint(a)' # {} PROVE Completed(a)'
  <2>1. Completed(a) /\ actions[a] # NoEntry
    BY <1>1, <1>2, <1>3, <1>8 DEF Knit, Linked
  <2>2. \A j \in Linked(a)' : FullyDiscovered(services', <<a, j>>)
    BY <1>1, <1>3, <1>4, <2>1 DEF Completed
  <2> QED
    BY <1>2, <1>3, <2>1, <2>2 DEF Completed
<1>9. a \in announced' => Serves(a)'
  BY <1>1, <1>3 DEF Knit
<1> QED
  BY <1>5, <1>6, <1>7, <1>8, <1>9 DEF Knit

\* The announcement is over: the action leads to what its thread has made.
LEMMA KnitAnnounced ==
    ASSUME EntriesOK, ServiceInv', NEW c \in Callers, NEW a \in Actions,
           actions'[a] = AnnouncedAction(c, a, services'),
           call' = [call EXCEPT ![c] = Idle], call[c].name = a,
           \A d \in Callers, k \in ActionServices :
               ( /\ call[d].name = a
                 /\ d = c \/ k \in Inserted(a, call[d].topic)
                 /\ MadeBy(a, k, d)' )
                    => k \in WithEndpoint(a)'
    PROVE  Knit(a)'
<1>1. Idle.name # a
  BY RegistryAssumption DEF Idle, Names
<1>2. actions'[a] # NoEntry
  BY ActionTypes
<1>3. /\ actions'[a].services = {k \in ActionServices : MadeBy(a, k, c)'}
      /\ actions'[a].topics = ActionTopics
      /\ actions'[a].enabler_as_server
  BY DEF AnnouncedAction, MadeBy
<1>4. Linked(a)' = {k \in ActionServices : MadeBy(a, k, c)'} /\ Serves(a)'
  BY <1>2, <1>3 DEF Linked, Serves
<1>5. Linked(a)' \subseteq WithEndpoint(a)'
  BY <1>4
<1>6. \A k \in Linked(a)' : services'[<<a, k>>] # NoEntry
  BY <1>4 DEF MadeBy
<1>7. \A k \in Linked(a)' : FullyDiscovered(services', <<a, k>>)
  BY <1>4, <1>5, TopicsDiffer DEF ServiceInv, FullyDiscovered, WithEndpoint, HasEndpoint
<1>8. \A d \in Callers : call'[d] = IF d = c THEN Idle ELSE call[d]
  BY DEF EntriesOK
<1>9. \A d : Inserted(a, call[d].topic)' = Inserted(a, call'[d].topic)
  BY DEF Inserted
<1>10. ASSUME NEW d \in Callers, NEW k \in ActionServices, call'[d].name = a,
              k \in Inserted(a, call'[d].topic), MadeBy(a, k, d)'
       PROVE  k \in WithEndpoint(a)' /\ k \notin Linked(a)'
  <2>1. d # c /\ call'[d] = call[d]
    BY <1>1, <1>8, <1>10
  <2>2. ~MadeBy(a, k, c)'
    BY <1>10, <2>1 DEF MadeBy
  <2> QED
    BY <1>4, <1>10, <2>1, <2>2
<1> QED
  BY <1>3, <1>4, <1>5, <1>6, <1>7, <1>9, <1>10 DEF Knit, Completed

\* The goal or the cancel service of an action is inserted.
LEMMA ActionsServiceInserted ==
    ASSUME IInv, NEW c \in Callers, NEW a \in Actions,
           NEW k \in ActionServices, NEW next \in ActionServices,
           Inserted(a, RequestOf(<<a, next>>)) = Inserted(a, RequestOf(<<a, k>>)) \cup {k},
           ServiceInserted(c, a, k, next)
    PROVE  Knit(a)' /\ (ActionOK(a) => ActionOK(a)')
<1> DEFINE this == RequestOf(<<a, k>>)
           then == RequestOf(<<a, next>>)
           new == [name |-> a, topic |-> then]
<1>1. /\ call[c] = [name |-> a, topic |-> this]
      /\ Insert(c, a, k)
      /\ actions' = Unlinked(a, k)
      /\ UNCHANGED announced
  BY DEF ServiceInserted
<1>2. call[c].name = a /\ call[c].topic = this /\ EntriesOK
  BY <1>1 DEF IInv, BaseInv
<1>3. new.topic = then /\ new.name = a /\ Idle.name # a
  BY RegistryAssumption DEF Idle, Names
<1>4. Inserted(a, then) = Inserted(a, this) \cup {k}
  OBVIOUS
<1>5. PICK w : w \in {new, Idle} /\ call' = [call EXCEPT ![c] = w]
  BY DEF ServiceInserted, WaitsFor, Fails
<1> HIDE DEF this, then, new
<1>6. w.name = a => w.topic = then
  BY <1>3, <1>5
<1>7. Knit(a)'
  BY <1>1, <1>2, <1>4, <1>5, <1>6, KnitInserted
<1>8. ASSUME ActionOK(a) PROVE ActionOK(a)'
  <2>1. /\ WithEndpoint(a)' = WithEndpoint(a) \cup {k}
        /\ MadeBy(a, k, c)'
        /\ \A j \in ActionServices \ {k} : services'[<<a, j>>] = services[<<a, j>>]
        /\ actions'[a] # NoEntry => /\ actions'[a].services = Linked(a) \ {k}
                                   /\ actions'[a].enabler_as_server = actions[a].enabler_as_server
        /\ actions'[a] # NoEntry <=> actions[a] # NoEntry
    BY <1>1, <1>2, ActionInsert
  <2>2. /\ WithEndpoint(a) = Inserted(a, this)
        /\ \A j \in WithEndpoint(a) : MadeBy(a, j, c)
        /\ Linked(a) \cap WithEndpoint(a) = {}
        /\ ~Serves(a)
        /\ \A d \in Callers \ {c} : call[d].name # a
    BY <1>2, <1>8 DEF ActionOK
  <2>3. Linked(a)' \cap WithEndpoint(a)' = {} /\ ~Serves(a)'
    BY <2>1, <2>2 DEF Linked, Serves
  <2>4. \A j \in WithEndpoint(a)' : MadeBy(a, j, c)'
    BY <2>1, <2>2 DEF MadeBy, WithEndpoint
  <2>5. \A d \in Callers : call'[d].name = a => d = c /\ call'[d].topic = then
    BY <1>2, <1>5, <1>6, <2>2 DEF EntriesOK
  <2>6. \A d \in Callers : Inserted(a, call[d].topic)' = Inserted(a, call'[d].topic)
    BY DEF Inserted
  <2> QED
    BY <1>4, <2>1, <2>2, <2>3, <2>4, <2>5, <2>6 DEF ActionOK
<1> QED
  BY <1>7, <1>8

\* What the end of an announcement makes of the call, and of the action of
\* which g were the entries.
Ends(c, a, g) ==
    \E w :
        /\ call' = [call EXCEPT ![c] = w]
        /\ \/ /\ w = Idle
              /\ actions'[a] = AnnouncedAction(c, a, services')
              /\ announced' = announced \cup {a}
           \/ /\ w = Idle \/ \E kind \in ActionTopics : w = [name |-> a, topic |-> <<a, kind>>]
              /\ actions'[a] = g[a]
              /\ UNCHANGED announced

\* The result service inserted, or a topic with its reader, is the end.
LEMMA TopicsEnd ==
    ASSUME EntriesOK, NEW c \in Callers, NEW a \in Actions
    PROVE  /\ ResultInserted(c, a) => Ends(c, a, Unlinked(a, "RESULT"))
           /\ FeedbackReady(c, a) \/ StatusReady(c, a) =>
                 UNCHANGED services /\ Ends(c, a, actions)
<1> DEFINE f == Unlinked(a, "RESULT")
<1>1. f \in [Actions -> ActionDiscovered \cup {NoEntry}]
  BY ActionTypes DEF ActionServices
<1>2. "FEEDBACK" \in ActionTopics /\ "STATUS" \in ActionTopics
  BY DEF ActionTopics
<1>3. ASSUME NEW g \in [Actions -> ActionDiscovered \cup {NoEntry}], StatusAndEnd(c, a, g)
      PROVE  Ends(c, a, g)
  <2>1. CASE /\ call' = [call EXCEPT ![c] = Idle]
             /\ actions' = [g EXCEPT ![a] = AnnouncedAction(c, a, services')]
             /\ announced' = announced \cup {a}
    <3>1. actions'[a] = AnnouncedAction(c, a, services')
      BY <2>1
    <3> QED
      BY <2>1, <3>1 DEF Ends
  <2>2. CASE /\ call' = [call EXCEPT ![c] = [name |-> a, topic |-> <<a, "STATUS">>]]
             /\ actions' = g
             /\ UNCHANGED announced
    BY <1>2, <2>2 DEF Ends
  <2> QED
    BY <1>3, <2>1, <2>2 DEF StatusAndEnd
<1> HIDE DEF f
<1>4. ASSUME ResultInserted(c, a) PROVE Ends(c, a, f)
  <2>1. CASE Fails(c) /\ actions' = f /\ UNCHANGED announced
    BY <2>1 DEF Fails, Ends
  <2>2. CASE WaitsFor(c, a, <<a, "FEEDBACK">>) /\ actions' = f /\ UNCHANGED announced
    BY <1>2, <2>2 DEF WaitsFor, Ends
  <2>3. CASE StatusAndEnd(c, a, f)
    BY <1>1, <1>3, <2>3
  <2> QED
    BY <1>4, <2>1, <2>2, <2>3 DEF ResultInserted, f
<1>5. ASSUME FeedbackReady(c, a) PROVE UNCHANGED services /\ Ends(c, a, actions)
  <2>1. CASE Fails(c) /\ UNCHANGED <<actions, announced>>
    BY <1>5, <2>1 DEF Fails, Ends, FeedbackReady
  <2>2. CASE StatusAndEnd(c, a, actions)
    BY <1>3, <1>5, <2>2 DEF FeedbackReady, EntriesOK
  <2> QED
    BY <1>5, <2>1, <2>2 DEF FeedbackReady
<1>6. ASSUME StatusReady(c, a) PROVE UNCHANGED services /\ Ends(c, a, actions)
  <2>1. /\ UNCHANGED services
        /\ call' = [call EXCEPT ![c] = Idle]
        /\ actions' = [actions EXCEPT ![a] = AnnouncedAction(c, a, services)]
        /\ announced' = announced \cup {a}
    BY <1>6 DEF StatusReady
  <2>2. actions'[a] = AnnouncedAction(c, a, services')
    BY <2>1 DEF EntriesOK
  <2> QED
    BY <2>1, <2>2 DEF Ends
<1> QED
  BY <1>4, <1>5, <1>6 DEF f

\* Once its three services are inserted, an action leads to none of them
\* until its announcement ends, and then to all.
LEMMA ActionsEnds ==
    ASSUME NEW c \in Callers, NEW a \in Actions, EntriesOK, NEW g, Ends(c, a, g),
           WithEndpoint(a)' = ActionServices,
           \A k \in ActionServices : MadeBy(a, k, c)',
           \A d \in Callers \ {c} : call[d].name # a,
           g[a] # NoEntry => /\ g[a].services \cap ActionServices = {}
                             /\ ~g[a].enabler_as_server
    PROVE  ActionOK(a)'
<1>1. PICK w :
        /\ call' = [call EXCEPT ![c] = w]
        /\ \/ w = Idle /\ actions'[a] = AnnouncedAction(c, a, services')
           \/ /\ w = Idle \/ \E kind \in ActionTopics : w = [name |-> a, topic |-> <<a, kind>>]
              /\ actions'[a] = g[a]
  BY DEF Ends
<1>2. \A d \in Callers : call'[d] = IF d = c THEN w ELSE call[d]
  BY <1>1 DEF EntriesOK
<1>3. Idle.name # a
  BY RegistryAssumption DEF Idle, Names
<1>4. \A kind \in ActionTopics : Inserted(a, <<a, kind>>) = ActionServices
  BY InsertedOrder
<1>5. \A d \in Callers : Inserted(a, call[d].topic)' = Inserted(a, call'[d].topic)
  BY DEF Inserted
<1>6. \A k \in ActionServices : services'[<<a, k>>] # NoEntry
  BY DEF MadeBy
<1>7. CASE w = Idle /\ actions'[a] = AnnouncedAction(c, a, services')
  <2>1. actions'[a].services = ActionServices
    BY <1>7 DEF AnnouncedAction, MadeBy
  <2>2. Linked(a)' = ActionServices /\ Serves(a)'
    <3>1. actions'[a] # NoEntry
      BY <1>7, ActionTypes
    <3>2. actions'[a].enabler_as_server
      BY <1>7 DEF AnnouncedAction
    <3> QED
      BY <2>1, <3>1, <3>2 DEF Linked, Serves
  <2>3. \A d \in Callers : call'[d].name # a
    BY <1>2, <1>3, <1>7
  <2> QED
    BY <2>2, <2>3 DEF ActionOK
<1>8. CASE /\ w = Idle \/ \E kind \in ActionTopics : w = [name |-> a, topic |-> <<a, kind>>]
           /\ actions'[a] = g[a]
  <2>1. Linked(a)' \cap WithEndpoint(a)' = {} /\ ~Serves(a)'
    BY <1>8 DEF Linked, Serves
  <2>2. \A d \in Callers : call'[d].name = a =>
            d = c /\ \E kind \in ActionTopics : call'[d].topic = <<a, kind>>
    BY <1>2, <1>3, <1>8
  <2>3. \A d \in Callers : call'[d].name = a => Inserted(a, call'[d].topic) = ActionServices
    BY <1>4, <2>2
  <2> QED
    BY <1>5, <2>1, <2>2, <2>3 DEF ActionOK
<1> QED
  BY <1>1, <1>7, <1>8

\* The result service of an action is inserted.
LEMMA ActionsResultInserted ==
    ASSUME IInv, ServiceInv', NEW c \in Callers, NEW a \in Actions, ResultInserted(c, a)
    PROVE  Knit(a)' /\ (ActionOK(a) => ActionOK(a)')
<1> DEFINE result == RequestOf(<<a, "RESULT">>)
           f == Unlinked(a, "RESULT")
<1>1. call[c] = [name |-> a, topic |-> result] /\ Insert(c, a, "RESULT")
  BY DEF ResultInserted
<1>2. /\ call[c].name = a /\ call[c].topic = result /\ "RESULT" \in ActionServices
      /\ Knit(a) /\ EntriesOK /\ Idle.name # a
  BY <1>1, RegistryAssumption DEF ActionServices, IInv, Fits, BaseInv, Idle, Names
<1>3. Inserted(a, call[c].topic) \cup {"RESULT"} = ActionServices
  BY <1>2, InsertedOrder DEF ActionServices
<1>4. Ends(c, a, f)
  BY <1>2, TopicsEnd
<1>5. /\ WithEndpoint(a)' = WithEndpoint(a) \cup {"RESULT"}
      /\ MadeBy(a, "RESULT", c)' /\ \A d : d # c => ~MadeBy(a, "RESULT", d)'
      /\ \A j \in ActionServices \ {"RESULT"} : services'[<<a, j>>] = services[<<a, j>>]
      /\ f[a] # NoEntry <=> actions[a] # NoEntry
      /\ f[a] # NoEntry => /\ f[a].services = Linked(a) \ {"RESULT"}
                          /\ f[a].enabler_as_server = actions[a].enabler_as_server
  BY <1>1, <1>2, ActionInsert
<1> HIDE DEF f, result
<1>6. Knit(a)'
  <2>1. PICK w :
          /\ call' = [call EXCEPT ![c] = w]
          /\ \/ /\ w = Idle
                /\ actions'[a] = AnnouncedAction(c, a, services')
             \/ /\ w = Idle \/ \E kind \in ActionTopics : w = [name |-> a, topic |-> <<a, kind>>]
                /\ actions'[a] = f[a]
                /\ UNCHANGED announced
    BY <1>4 DEF Ends
  <2>2. CASE w = Idle /\ actions'[a] = AnnouncedAction(c, a, services')
    <3>1. ASSUME NEW d \in Callers, NEW k \in ActionServices, call[d].name = a,
                 d = c \/ k \in Inserted(a, call[d].topic), MadeBy(a, k, d)'
          PROVE  k \in WithEndpoint(a)'
      <4>1. CASE k = "RESULT"
        BY <1>5, <4>1
      <4>2. CASE k # "RESULT"
        <5>1. MadeBy(a, k, d) /\ k \in Inserted(a, call[d].topic)
          BY <1>3, <1>5, <3>1, <4>2 DEF MadeBy
        <5> QED
          BY <1>2, <1>5, <3>1, <5>1 DEF Knit
      <4> QED
        BY <4>1, <4>2
    <3> QED
      BY <1>2, <2>1, <2>2, <3>1, KnitAnnounced
  <2>3. CASE /\ w = Idle \/ \E kind \in ActionTopics : w = [name |-> a, topic |-> <<a, kind>>]
             /\ actions'[a] = f[a]
             /\ UNCHANGED announced
    <3>1. w.name = a => \E kind \in ActionTopics : w.topic = <<a, kind>>
      BY <1>2, <2>3
    <3>2. w.name = a => Inserted(a, w.topic) = ActionServices
      BY <3>1, InsertedOrder
    <3> QED
      BY <1>1, <1>2, <1>3, <2>1, <2>3, <3>2, KnitInserted DEF f
  <2> QED
    BY <2>1, <2>2, <2>3
<1>7. ASSUME ActionOK(a) PROVE ActionOK(a)'
  <2>1. /\ WithEndpoint(a) = Inserted(a, call[c].topic)
        /\ \A j \in WithEndpoint(a) : MadeBy(a, j, c)
        /\ Linked(a) \cap WithEndpoint(a) = {}
        /\ ~Serves(a)
        /\ \A d \in Callers \ {c} : call[d].name # a
    BY <1>2, <1>7 DEF ActionOK
  <2>2. WithEndpoint(a)' = ActionServices
    BY <1>3, <1>5, <2>1
  <2>3. \A k \in ActionServices : MadeBy(a, k, c)'
    BY <1>3, <1>5, <2>1 DEF MadeBy
  <2>4. f[a] # NoEntry => /\ f[a].services \cap ActionServices = {}
                         /\ ~f[a].enabler_as_server
    BY <1>3, <1>5, <2>1 DEF Serves
  <2> QED
    BY <1>2, <1>4, <2>1, <2>2, <2>3, <2>4, ActionsEnds
<1> QED
  BY <1>6, <1>7

\* The topics of an action have their readers.
LEMMA ActionsTopicsReady ==
    ASSUME IInv, NEW c \in Callers, NEW a \in Actions, FeedbackReady(c, a) \/ StatusReady(c, a)
    PROVE  Knit(a)' /\ (ActionOK(a) => ActionOK(a)')
<1>1. PICK k \in ActionTopics : call[c] = [name |-> a, topic |-> <<a, k>>]
  BY DEF FeedbackReady, StatusReady, ActionTopics
<1>2. /\ call[c].name = a /\ call[c].topic = <<a, k>>
      /\ Knit(a) /\ EntriesOK /\ ServiceInv /\ Idle.name # a
  BY <1>1, RegistryAssumption DEF IInv, Fits, BaseInv, Idle, Names
<1>3. Inserted(a, call[c].topic) = ActionServices
  BY <1>2, InsertedOrder
<1>4. UNCHANGED <<services, readers>> /\ Ends(c, a, actions)
  BY <1>2, TopicsEnd DEF FeedbackReady, StatusReady
<1>5. /\ WithEndpoint(a)' = WithEndpoint(a)
      /\ \A j, d : MadeBy(a, j, d)' = MadeBy(a, j, d)
      /\ ServiceInv'
  BY <1>2, <1>4 DEF WithEndpoint, HasEndpoint, MadeBy, ServiceInv
<1>6. Knit(a)'
  <2>1. PICK w :
          /\ call' = [call EXCEPT ![c] = w]
          /\ \/ /\ w = Idle
                /\ actions'[a] = AnnouncedAction(c, a, services')
             \/ /\ w = Idle \/ \E kind \in ActionTopics : w = [name |-> a, topic |-> <<a, kind>>]
                /\ actions'[a] = actions[a]
                /\ UNCHANGED announced
    BY <1>4 DEF Ends
  <2>2. CASE w = Idle /\ actions'[a] = AnnouncedAction(c, a, services')
    <3>1. \A d \in Callers, j \in ActionServices :
              ( /\ call[d].name = a
                /\ d = c \/ j \in Inserted(a, call[d].topic)
                /\ MadeBy(a, j, d)' )
                   => j \in WithEndpoint(a)'
      BY <1>2, <1>3, <1>5 DEF Knit
    <3> QED
      BY <1>2, <1>5, <2>1, <2>2, <3>1, KnitAnnounced
  <2>3. CASE /\ w = Idle \/ \E kind \in ActionTopics : w = [name |-> a, topic |-> <<a, kind>>]
             /\ actions'[a] = actions[a]
             /\ UNCHANGED announced
    <3>1. Linked(a)' = Linked(a) /\ Serves(a)' = Serves(a)
      BY <2>3 DEF Linked, Serves
    <3>2. Completed(a)' <=> Completed(a)
      BY <1>4, <1>5, <2>3, <3>1 DEF Completed
    <3>3. \A d \in Callers, j \in ActionServices :
              call'[d].name = a /\ j \in Inserted(a, call'[d].topic) /\ MadeBy(a, j, d)
                  => j \in WithEndpoint(a) /\ j \notin Linked(a)
      <4>1. \A d \in Callers : call'[d] = IF d = c THEN w ELSE call[d]
        BY <1>2, <2>1 DEF EntriesOK
      <4> QED
        BY <1>2, <1>3, <4>1 DEF Knit
    <3>4. \A d : Inserted(a, call[d].topic)' = Inserted(a, call'[d].topic)
      BY DEF Inserted
    <3> QED
      BY <1>2, <1>4, <1>5, <2>3, <3>1, <3>2, <3>3, <3>4 DEF Knit
  <2> QED
    BY <2>1, <2>2, <2>3
<1>7. ASSUME ActionOK(a) PROVE ActionOK(a)'
  <2>1. /\ WithEndpoint(a) = ActionServices
        /\ \A j \in WithEndpoint(a) : MadeBy(a, j, c)
        /\ Linked(a) \cap WithEndpoint(a) = {}
        /\ ~Serves(a)
        /\ \A d \in Callers \ {c} : call[d].name # a
    BY <1>2, <1>3, <1>7 DEF ActionOK
  <2>2. actions[a] # NoEntry => /\ actions[a].services \cap ActionServices = {}
                               /\ ~actions[a].enabler_as_server
    BY <2>1 DEF Linked, Serves
  <2> QED
    BY <1>2, <1>4, <1>5, <2>1, <2>2, ActionsEnds
<1> QED
  BY <1>6, <1>7

-----------------------------------------------------------------------------
(* Revoking an action.                                                     *)

\* A flag that is set in the entry of an action changes nothing else.
LEMMA ActionFlag ==
    ASSUME EntriesOK, NEW a \in Actions, actions[a] # NoEntry, NEW flag \in BOOLEAN,
           actions' = [actions EXCEPT ![a].enabler_as_server = flag]
    PROVE  /\ Linked(a)' = Linked(a)
           /\ Serves(a)' = flag
           /\ actions'[a].topics = actions[a].topics
           /\ actions'[a].external_server = actions[a].external_server
<1>1. actions[a] \in ActionDiscovered /\ NoEntry \notin ActionDiscovered
  BY RegistryAssumption DEF EntriesOK
<1>2. actions'[a] = [actions[a] EXCEPT !.enabler_as_server = flag]
  BY DEF EntriesOK
<1>3. /\ actions'[a] \in ActionDiscovered
      /\ actions'[a].services = actions[a].services
      /\ actions'[a].topics = actions[a].topics
      /\ actions'[a].external_server = actions[a].external_server
      /\ actions'[a].enabler_as_server = flag
  BY <1>1, <1>2 DEF ActionDiscovered
<1> QED
  BY <1>1, <1>3 DEF Linked, Serves

\* By its flag, or all of its services or none.
LEMMA ActionsRevokeAction ==
    ASSUME IInv, NEW c \in Callers, NEW a \in Actions, RevokeAction(c, a)
    PROVE  /\ Knit(a)' /\ (ActionOK(a) => ActionOK(a)')
           /\ a \in announced' =>
                 \A k \in ActionServices : services'[<<a, k>>] = services[<<a, k>>]
<1>1. /\ Knit(a) /\ EntriesOK /\ Linked(a) \subseteq ActionServices
      /\ UNCHANGED <<call, lost>>
  BY LinkedType DEF IInv, Fits, BaseInv, RevokeAction, RevokeRefused, ghosts
<1>2. \A d : Inserted(a, call[d].topic)' = Inserted(a, call[d].topic)
  BY <1>1 DEF Inserted
<1>3. CASE UNCHANGED <<services, actions, announced>>
  <2>1. Still(a)
    BY <1>1, <1>3 DEF Still
  <2> QED
    BY <1>1, <1>3, <2>1, StillFits
<1>4. ASSUME actions[a] # NoEntry, actions[a].enabler_as_server, ActionOK(a)
      PROVE  \A d \in Callers : call[d].name # a
  BY <1>4 DEF ActionOK, Serves
<1>5. ASSUME actions[a] # NoEntry, actions[a].enabler_as_server, RevocationIsFlag(a)
      PROVE  Knit(a)' /\ (ActionOK(a) => ActionOK(a)') /\ a \notin announced'
  <2>1. /\ actions' = [actions EXCEPT ![a].enabler_as_server = FALSE]
        /\ a \notin announced'
        /\ UNCHANGED services
    BY <1>5 DEF RevocationIsFlag
  <2>2. /\ Linked(a)' = Linked(a) /\ ~Serves(a)'
        /\ actions'[a].topics = actions[a].topics
        /\ actions'[a].external_server = actions[a].external_server
    BY <1>1, <1>5, <2>1, ActionFlag
  <2>3. WithEndpoint(a)' = WithEndpoint(a) /\ \A k, d : MadeBy(a, k, d)' = MadeBy(a, k, d)
    BY <2>1 DEF WithEndpoint, HasEndpoint, MadeBy
  <2>4. Completed(a)' <=> Completed(a)
    BY <2>1, <2>2, <2>3 DEF Completed
  <2>5. Knit(a)'
    BY <1>1, <1>2, <2>1, <2>2, <2>3, <2>4 DEF Knit
  <2>6. ActionOK(a) => ActionOK(a)'
    BY <1>1, <1>4, <1>5, <2>2, <2>3 DEF ActionOK
  <2> QED
    BY <2>1, <2>5, <2>6
<1>6. ASSUME actions[a] # NoEntry, actions[a].enabler_as_server, RevocationOfServices(a)
      PROVE  /\ Knit(a)' /\ (ActionOK(a) => ActionOK(a)')
             /\ UNCHANGED <<services, actions, announced>> \/ a \notin announced'
  <2>1. /\ \A k \in ActionServices : Revocable(<<a, k>>) <=> HasEndpoint(<<a, k>>)
        /\ \A k \in ActionServices : <<a, k>> \in Services
    BY TopicsDiffer DEF IInv, BaseInv, ServiceInv, Revocable, HasEndpoint
  <2>2. RevokedParts(a) = {} \/ RevokedParts(a) = {a} \X ActionServices
    <3> SUFFICES ASSUME RevokedParts(a) # {} PROVE RevokedParts(a) = {a} \X ActionServices
      OBVIOUS
    <3>1. Linked(a) = ActionServices /\ actions[a].services = ActionServices
      BY <1>6, RevokedPartsLemma DEF Linked
    <3>2. Linked(a) \cap WithEndpoint(a) # {}
      BY <2>1, <3>1, RevokedPartsLemma DEF WithEndpoint
    <3>3. Completed(a) /\ ~actions[a].external_server
      BY <1>1, <1>6, <3>2 DEF Knit, RevocationOfServices
    <3>4. ActionServices \subseteq WithEndpoint(a)
      BY <3>1, <3>3 DEF Completed
    <3>5. \A k \in ActionServices : Revocable(<<a, k>>)
      BY <2>1, <3>4 DEF WithEndpoint
    <3> QED
      BY <3>1, <3>5, RevokedPartsLemma
  <2>3. CASE RevokedParts(a) = {}
    <3>1. UNCHANGED <<actions, announced>>
      <4>1. <<a, "GOAL">> \in {a} \X ActionServices
        BY DEF ActionServices
      <4> QED
        BY <1>6, <2>3, <4>1 DEF RevocationOfServices
    <3>2. UNCHANGED services
      BY <1>1, <1>6, <2>3 DEF RevocationOfServices, RevokeServices, EntriesOK
    <3> QED
      BY <1>3, <3>1, <3>2
  <2>4. CASE RevokedParts(a) = {a} \X ActionServices
    <3>1. actions[a].services = ActionServices /\ Linked(a) = ActionServices
      <4>1. <<a, "GOAL">> \in RevokedParts(a)
        BY <2>4 DEF ActionServices
      <4> QED
        BY <1>6, <4>1, RevokedPartsLemma DEF Linked
    <3>2. actions' = [actions EXCEPT ![a].enabler_as_server = FALSE] /\ a \notin announced'
      BY <1>6, <2>4 DEF RevocationOfServices
    <3>3. Linked(a)' = ActionServices /\ ~Serves(a)'
      BY <1>1, <1>6, <3>1, <3>2, ActionFlag
    <3>4. WithEndpoint(a)' = {}
      <4>1. RevokedParts(a) \in SUBSET Services
        BY RevokedPartsLemma DEF Services
      <4>2. RevokeServices(RevokedParts(a))
        BY <1>6 DEF RevocationOfServices
      <4>3. \A s \in RevokedParts(a) : ~HasEndpoint(s)'
        BY <1>1, <4>1, <4>2, RevokedPartsLemma, BaseRevoked DEF IInv
      <4> QED
        BY <2>4, <4>3 DEF WithEndpoint
    <3>5. \A k \in ActionServices :
              services'[<<a, k>>] # NoEntry /\ \A d : MadeBy(a, k, d)' => MadeBy(a, k, d)
      <4> SUFFICES ASSUME NEW k \in ActionServices
                   PROVE  services'[<<a, k>>] # NoEntry
                          /\ \A d : MadeBy(a, k, d)' => MadeBy(a, k, d)
        OBVIOUS
      <4>1. services[<<a, k>>] # NoEntry /\ <<a, k>> \in Services
        BY <1>1, <2>1, <3>1 DEF Knit
      <4>2. services[<<a, k>>] \in ServiceDiscovered
        BY <1>1, <4>1 DEF EntriesOK
      <4>3. services'[<<a, k>>] = RevokedService(services[<<a, k>>])
        BY <1>6, <2>4, <4>1 DEF RevocationOfServices, RevokeServices
      <4>4. \A e \in ServiceDiscovered :
                RevokedService(e) \in ServiceDiscovered /\ RevokedService(e).maker = e.maker
        BY DEF RevokedService, ServiceDiscovered
      <4> QED
        BY <4>1, <4>2, <4>3, <4>4, RegistryAssumption DEF MadeBy
    <3>6. \A d \in Callers, k \in ActionServices :
              ~(call[d].name = a /\ k \in Inserted(a, call[d].topic) /\ MadeBy(a, k, d)')
      BY <1>1, <3>1, <3>5 DEF Knit
    <3>7. Knit(a)'
      BY <1>1, <1>2, <3>2, <3>3, <3>4, <3>5, <3>6 DEF Knit
    <3>8. ActionOK(a) => ActionOK(a)'
      BY <1>1, <1>4, <1>6, <3>3, <3>4 DEF ActionOK
    <3> QED
      BY <3>2, <3>7, <3>8
  <2> QED
    BY <2>2, <2>3, <2>4
<1> QED
  BY <1>3, <1>5, <1>6 DEF RevokeAction, RevokeRefused, registry, ghosts

-----------------------------------------------------------------------------
(* The invariant and its consequences.                                     *)

\* Nothing is known at the start.
LEMMA InitIInv == Init => IInv
<1> SUFFICES ASSUME Init PROVE IInv
  OBVIOUS
<1>1. EntriesOK
  BY RegistryAssumption DEF Init, EntriesOK
<1>2. \A s \in Services : ~HasEndpoint(s)
  BY DEF Init, HasEndpoint
<1>3. ServiceInv
  BY <1>2 DEF ServiceInv
<1>4. CountInv
  <2> SUFFICES ASSUME NEW s \in Services
               PROVE  W(RequestOf(s)) = 0 /\ Own(s) = 0 /\ endpoints[RequestOf(s)] = 0
    BY DEF CountInv
  <2>1. Waiting(RequestOf(s)) = {}
    BY TopicsDiffer DEF Init, Waiting
  <2> QED
    BY <1>2, <2>1, FS_EmptySet, TopicsDiffer DEF W, Own, Init
<1>5. CallInv
  BY DEF Init, CallInv
<1>6. ASSUME NEW a \in Actions PROVE Fits(a)
  <2>1. Linked(a) = {} /\ ~Serves(a)
    BY DEF Init, Linked, Serves
  <2>2. \A d \in Callers : call[d].name # a
    BY RegistryAssumption DEF Init, Idle, Names
  <2> QED
    BY <2>1, <2>2 DEF Fits, Knit, ActionOK, Init
<1> QED
  BY <1>1, <1>3, <1>4, <1>5, <1>6 DEF IInv, BaseInv

\* What two threads have once announced at once stays marked.
LEMMA ContendedGrows ==
    ASSUME [Next]_vars
    PROVE  contended \subseteq contended'
<1>1. ASSUME NEW c \in Callers, NEW s \in PlainServices,
             AnnounceService(c, s) \/ ServiceAnnounced(c, s) \/ RevokeService(c, s)
      PROVE  contended \subseteq contended'
  BY <1>1 DEF AnnounceService, AnnounceRefused, AnnounceKnownService, AnnounceNewService,
              Announces, ServiceAnnounced, RevokeService, RevokeRefused, ghosts
<1>2. ASSUME NEW c \in Callers, NEW a \in Actions, AnnounceAction(c, a)
      PROVE  contended \subseteq contended'
  BY <1>2 DEF AnnounceAction, AnnounceRefused, AnnounceKnownAction, AnnounceNewAction, Announces
<1>3. ASSUME NEW c \in Callers, NEW a \in Actions, ContinueAction(c, a)
      PROVE  contended \subseteq contended'
  BY <1>3 DEF ContinueAction, ServiceInserted, ResultInserted, FeedbackReady, StatusReady
<1>4. ASSUME NEW c \in Callers, NEW a \in Actions, RevokeAction(c, a)
      PROVE  contended \subseteq contended'
  BY <1>4 DEF RevokeAction, RevokeRefused, ghosts
<1> QED
  BY <1>1, <1>2, <1>3, <1>4
     DEF Next, ServiceCall, ActionCall, CreateReader, WaitTimesOut, vars

\* An action's own step.
LEMMA ActionsActionCall ==
    ASSUME IInv, NEW c \in Callers, NEW a \in Actions,
           AnnounceAction(c, a) \/ ContinueAction(c, a) \/ RevokeAction(c, a)
    PROVE  BaseInv' /\ Fits(a)'
<1>1. /\ Knit(a) /\ EntriesOK /\ Linked(a) \subseteq ActionServices
      /\ a \notin contended' => ActionOK(a)
  <2>1. contended \subseteq contended'
    BY ContendedGrows DEF Next, ActionCall
  <2> QED
    BY <2>1, LinkedType DEF IInv, Fits, BaseInv
<1>2. CASE AnnounceRefused(c, a)
  <2>1. Still(a)
    BY <1>2 DEF AnnounceRefused, registry, Still
  <2>2. Fits(a)'
    BY <1>1, <2>1, StillFits DEF Fits
  <2>3. calls' \in 0..MaxCalls /\ asked' \subseteq Names
    BY <1>2, CallCounts DEF AnnounceRefused, Announces, IInv, BaseInv, EntriesOK, Names
  <2>4. BaseInv'
    BY <1>2, <2>3, BaseRefused DEF AnnounceRefused, IInv
  <2> QED
    BY <2>2, <2>4
<1>3. CASE AnnounceKnownAction(c, a)
  <2>1. \A k \in actions[a].services : services[<<a, k>>] # NoEntry
    BY <1>1, <1>3 DEF Knit, Linked, AnnounceKnownAction, ServicesKnown
  <2> QED
    BY <1>3, <2>1, BaseKnownAction, ActionsKnownAction DEF IInv, Fits
<1>4. CASE AnnounceNewAction(c, a)
  BY <1>4, BaseNewAction, ActionsNewAction DEF IInv, Fits
<1>5. CASE ServiceInserted(c, a, "GOAL", "CANCEL")
  <2>1. /\ "GOAL" \in ActionServices /\ "CANCEL" \in ActionServices
        /\ Inserted(a, RequestOf(<<a, "CANCEL">>))
               = Inserted(a, RequestOf(<<a, "GOAL">>)) \cup {"GOAL"}
    BY InsertedOrder DEF ActionServices
  <2> QED
    BY <1>1, <1>5, <2>1, BaseServiceInserted, ActionsServiceInserted DEF IInv, Fits
<1>6. CASE ServiceInserted(c, a, "CANCEL", "RESULT")
  <2>1. /\ "CANCEL" \in ActionServices /\ "RESULT" \in ActionServices
        /\ Inserted(a, RequestOf(<<a, "RESULT">>))
               = Inserted(a, RequestOf(<<a, "CANCEL">>)) \cup {"CANCEL"}
    BY InsertedOrder DEF ActionServices
  <2> QED
    BY <1>1, <1>6, <2>1, BaseServiceInserted, ActionsServiceInserted DEF IInv, Fits
<1>7. CASE ResultInserted(c, a)
  <2>1. BaseInv' /\ ServiceInv'
    BY <1>7, BaseResultInserted DEF IInv, BaseInv
  <2> QED
    BY <1>1, <1>7, <2>1, ActionsResultInserted DEF Fits
<1>8. CASE FeedbackReady(c, a) \/ StatusReady(c, a)
  BY <1>1, <1>8, BaseTopicsReady, ActionsTopicsReady DEF IInv, Fits
<1>9. CASE RevokeAction(c, a)
  BY <1>1, <1>9, BaseRevokeAction, ActionsRevokeAction DEF IInv, Fits
<1> QED
  BY <1>2, <1>3, <1>4, <1>5, <1>6, <1>7, <1>8, <1>9 DEF AnnounceAction, ContinueAction

\* Every step preserves the invariant.
LEMMA NextIInv == IInv /\ [Next]_vars => IInv'
<1> SUFFICES ASSUME IInv, [Next]_vars PROVE IInv'
  OBVIOUS
<1>1. EntriesOK /\ \A a \in Actions : Knit(a) /\ (a \notin contended' => ActionOK(a))
  BY ContendedGrows DEF IInv, BaseInv, Fits
<1>2. ASSUME NEW t \in Topics, CreateReader(t) PROVE IInv'
  BY <1>1, <1>2, BaseCreateReader, ActionsCreateReader DEF IInv, Fits
<1>3. ASSUME NEW c \in Callers, NEW s \in PlainServices,
             AnnounceService(c, s) \/ ServiceAnnounced(c, s) \/ RevokeService(c, s)
      PROVE  IInv'
  <2>1. BaseInv'
    BY <1>3, BaseAnnounceService, BaseServiceAnnounced, BaseRevokeService DEF IInv
  <2>2. \A a \in Actions : Still(a)
    BY <1>1, <1>3, ActionsServiceCall
  <2> QED
    BY <1>1, <2>1, <2>2, StillFits DEF IInv, Fits
<1>4. ASSUME NEW c \in Callers, NEW a \in Actions,
             AnnounceAction(c, a) \/ ContinueAction(c, a) \/ RevokeAction(c, a)
      PROVE  IInv'
  <2>1. BaseInv' /\ Fits(a)'
    BY <1>4, ActionsActionCall
  <2>2. \A b \in Actions \ {a} : Still(b)
    BY <1>1, <1>4, OtherActions
  <2> QED
    BY <1>1, <2>1, <2>2, StillFits DEF IInv, Fits
<1>5. ASSUME NEW c \in Callers, WaitTimesOut(c) PROVE IInv'
  <2>1. \A a \in Actions : Still(a)
    BY <1>1, <1>5, ActionsTimesOut
  <2> QED
    BY <1>1, <1>5, <2>1, BaseTimesOut, StillFits DEF IInv, Fits
<1>6. CASE UNCHANGED vars
  <2>1. \A a \in Actions : Still(a)
    BY <1>6 DEF vars, Still
  <2>2. BaseInv'
    BY <1>6 DEF vars, IInv, BaseInv, EntriesOK, ServiceInv, HasEndpoint, CountInv, W, Waiting,
                Own, CallInv
  <2> QED
    BY <1>1, <2>1, <2>2, StillFits DEF IInv, Fits
<1> QED
  BY <1>2, <1>3, <1>4, <1>5, <1>6 DEF Next, ServiceCall, ActionCall

\* The invariant holds in every reachable state.
LEMMA AlwaysIInv == Spec => []IInv
BY InitIInv, NextIInv, PTL DEF Spec

\* What is known of another type has a reader, and what two threads announce
\* at once has a name.
LEMMA MarkedTypes ==
    ASSUME IInv, foreign \subseteq readers, contended \subseteq Names, [Next]_vars
    PROVE  foreign' \subseteq readers' /\ contended' \subseteq Names
<1>1. ASSUME NEW t \in Topics, CreateReader(t)
      PROVE  foreign' \subseteq readers' /\ contended' \subseteq Names
  <2>1. CASE UNCHANGED foreign
    BY <1>1, <2>1 DEF CreateReader
  <2>2. ASSUME NEW s \in PlainServices, NEW kind \in ServiceTopics, t = <<s, kind>>,
               NEW odd \in SUBSET {kind}, DiscoverPlain(s, kind, odd)
        PROVE  foreign' \subseteq readers'
    BY <1>1, <2>2 DEF CreateReader, DiscoverPlain
  <2> QED
    BY <1>1, <2>1, <2>2 DEF CreateReader
<1>2. ASSUME NEW c \in Callers, NEW s \in PlainServices,
             AnnounceService(c, s) \/ ServiceAnnounced(c, s) \/ RevokeService(c, s)
      PROVE  foreign' \subseteq readers' /\ contended' \subseteq Names
  <2>1. s \in Names
    BY DEF Names
  <2> QED
    BY <1>2, <2>1
       DEF AnnounceService, AnnounceRefused, AnnounceKnownService, AnnounceNewService,
           Announces, ServiceAnnounced, RevokeService, RevokeRefused, RevokeServices, ghosts
<1>3. ASSUME NEW c \in Callers, NEW a \in Actions, AnnounceAction(c, a)
      PROVE  foreign' \subseteq readers' /\ contended' \subseteq Names
  <2>1. a \in Names
    BY DEF Names
  <2> QED
    BY <1>3, <2>1
       DEF AnnounceAction, AnnounceRefused, AnnounceKnownAction, AnnounceNewAction, Announces
<1>4. ASSUME NEW c \in Callers, NEW a \in Actions, ContinueAction(c, a)
      PROVE  foreign' \subseteq readers' /\ contended' \subseteq Names
  BY <1>4 DEF ContinueAction, ServiceInserted, ResultInserted, FeedbackReady, StatusReady
<1>5. ASSUME NEW c \in Callers, NEW a \in Actions, RevokeAction(c, a)
      PROVE  foreign' \subseteq readers' /\ contended' \subseteq Names
  BY <1>5 DEF RevokeAction, RevokeRefused, RevocationIsFlag, RevocationOfServices,
              RevokeServices, ghosts
<1> QED
  BY <1>1, <1>2, <1>3, <1>4, <1>5 DEF Next, ServiceCall, ActionCall, WaitTimesOut, vars

\* The variables keep their types: what is counted never goes below zero,
\* so that no endpoint is withdrawn twice from the discovery database.
THEOREM TypeCorrect == Spec => []TypeOK
<1> DEFINE Marked == foreign \subseteq readers /\ contended \subseteq Names
<1>1. Init => Marked
  BY DEF Init
<1>2. IInv /\ Marked /\ [Next]_vars => Marked'
  BY MarkedTypes
<1>3. IInv /\ Marked => TypeOK
  BY DEF IInv, BaseInv, EntriesOK, TypeOK
<1> QED
  BY <1>1, <1>2, <1>3, AlwaysIInv, PTL DEF Spec

\* EndpointIsComplete (create_reader, announce_service, revoke_service): a
\* service with an endpoint has its topics, its reader and its endpoint in
\* the database, and no external server.
THEOREM EndpointsComplete == Spec => []EndpointIsComplete
<1>1. IInv => EndpointIsComplete
  <2> SUFFICES ASSUME IInv, NEW s \in Services, HasEndpoint(s)
               PROVE  endpoints[RequestOf(s)] > 0
    BY DEF EndpointIsComplete, IInv, BaseInv, ServiceInv
  <2>1. W(RequestOf(s)) \in Nat /\ endpoints[RequestOf(s)] \in Nat
    BY WaitingFinite, TopicsDiffer DEF IInv, BaseInv, EntriesOK
  <2> QED
    BY <2>1 DEF IInv, BaseInv, CountInv, Own
<1> QED
  BY <1>1, AlwaysIInv, PTL

\* EndpointsAreOwned (create_topic_writer_nts_, revoke_service_nts_): the
\* endpoints in the database are those of entries and of calls that wait.
THEOREM EndpointsOwned == Spec => []EndpointsAreOwned
<1>1. IInv => EndpointsAreOwned
  BY DEF IInv, BaseInv, CountInv, EndpointsAreOwned, W, Own
<1> QED
  BY <1>1, AlwaysIInv, PTL

\* ServedActionIsWhole (announce_action, revoke_action, create_reader): an
\* action that is served has an endpoint for each of its services or for
\* none, unless two threads have announced it at once.
THEOREM ServedActionsWhole == Spec => []ServedActionIsWhole
<1>1. IInv => ServedActionIsWhole
  <2> SUFFICES ASSUME IInv, NEW a \in Actions \ contended,
                      actions[a] # NoEntry, actions[a].enabler_as_server
               PROVE  /\ actions[a].services = ActionServices
                      /\ \A j, k \in ActionServices : HasEndpoint(<<a, j>>) = HasEndpoint(<<a, k>>)
    BY DEF ServedActionIsWhole
  <2>1. ActionOK(a) /\ Linked(a) = ActionServices /\ actions[a].services = ActionServices
    BY DEF IInv, Fits, ActionOK, Serves, Linked
  <2>2. WithEndpoint(a) = {} \/ WithEndpoint(a) = ActionServices
    BY <2>1 DEF ActionOK, WithEndpoint
  <2>3. \A k \in ActionServices : HasEndpoint(<<a, k>>) <=> k \in WithEndpoint(a)
    BY DEF WithEndpoint
  <2>4. \A k \in ActionServices : HasEndpoint(<<a, k>>) \in BOOLEAN
    BY DEF HasEndpoint, IInv, BaseInv, EntriesOK, ServiceDiscovered
  <2> QED
    BY <2>1, <2>2, <2>3, <2>4
<1> QED
  BY <1>1, AlwaysIInv, PTL

-----------------------------------------------------------------------------
(* What is announced keeps its endpoints.                                  *)

\* A call about a service changes no other.
LEMMA ServiceCallServices ==
    ASSUME EntriesOK, NEW c \in Callers, NEW s \in PlainServices,
           AnnounceService(c, s) \/ ServiceAnnounced(c, s) \/ RevokeService(c, s),
           NEW z \in Services, z # s
    PROVE  services'[z] = services[z]
<1>1. CASE \E e : services' = [services EXCEPT ![s] = e]
  BY <1>1 DEF EntriesOK
<1>2. CASE services' = services
  BY <1>2
<1>3. CASE RevokeServices({s})
  BY <1>3 DEF RevokeServices
<1> QED
  BY <1>1, <1>2, <1>3
     DEF AnnounceService, AnnounceRefused, AnnounceKnownService, AnnounceNewService,
         ServiceAnnounced, RevokeService, RevokeRefused, registry

\* A call about an action changes no plain service.
LEMMA ActionCallPlain ==
    ASSUME EntriesOK, NEW c \in Callers, NEW a \in Actions,
           AnnounceAction(c, a) \/ ContinueAction(c, a) \/ RevokeAction(c, a),
           NEW s \in PlainServices
    PROVE  services'[s] = services[s]
<1>1. s \in Services /\ s \notin {a} \X ActionServices
  BY RegistryAssumption DEF Services
<1>2. CASE services' = services
  BY <1>2
<1>3. ASSUME NEW k \in ActionServices, Insert(c, a, k) PROVE services'[s] = services[s]
  BY <1>1, <1>3 DEF Insert, EntriesOK
<1>4. CASE RevokeServices(RevokedParts(a))
  BY <1>1, <1>4, RevokedPartsLemma DEF RevokeServices
<1>5. CASE AnnounceAction(c, a)
  BY <1>1, <1>2, <1>5
     DEF AnnounceAction, AnnounceRefused, AnnounceKnownAction, AnnounceNewAction, registry
<1>6. CASE ContinueAction(c, a)
  BY <1>2, <1>3, <1>6
     DEF ContinueAction, ServiceInserted, ResultInserted, FeedbackReady, StatusReady, ActionServices
<1>7. CASE RevokeAction(c, a)
  BY <1>2, <1>4, <1>7
     DEF RevokeAction, RevokeRefused, RevocationIsFlag, RevocationOfServices, registry
<1> QED
  BY <1>5, <1>6, <1>7

\* A call about an action that is announced, and stays so, takes none of its
\* endpoints.
LEMMA ActionCallOwn ==
    ASSUME IInv, NEW c \in Callers, NEW a \in Actions,
           AnnounceAction(c, a) \/ ContinueAction(c, a) \/ RevokeAction(c, a),
           a \in announced, a \in announced', NEW k \in ActionServices, HasEndpoint(<<a, k>>)
    PROVE  HasEndpoint(<<a, k>>)'
<1>1. Serves(a) /\ EntriesOK
  BY DEF IInv, BaseInv, Fits, Knit
<1>2. CASE services' = services
  BY <1>2 DEF HasEndpoint
<1>3. ~AnnounceKnownAction(c, a) /\ ~AnnounceNewAction(c, a)
  BY <1>1 DEF AnnounceKnownAction, AnnounceNewAction, Serves
<1>4. ASSUME NEW j \in ActionServices, Insert(c, a, j) PROVE HasEndpoint(<<a, k>>)'
  <2>1. WithEndpoint(a)' = WithEndpoint(a) \cup {j}
    BY <1>1, <1>4, ActionInsert
  <2> QED
    BY <2>1 DEF WithEndpoint
<1>5. CASE AnnounceAction(c, a)
  BY <1>2, <1>3, <1>5 DEF AnnounceAction, AnnounceRefused, registry
<1>6. CASE ContinueAction(c, a)
  BY <1>2, <1>4, <1>6
     DEF ContinueAction, ServiceInserted, ResultInserted, FeedbackReady, StatusReady, ActionServices
<1>7. CASE RevokeAction(c, a)
  BY <1>7, ActionsRevokeAction DEF HasEndpoint
<1> QED
  BY <1>5, <1>6, <1>7

\* A call about a service that is announced, and stays so, takes no endpoint.
LEMMA ServiceCallOwn ==
    ASSUME IInv, NEW c \in Callers, NEW s \in PlainServices,
           AnnounceService(c, s) \/ ServiceAnnounced(c, s) \/ RevokeService(c, s),
           s \in announced', HasEndpoint(s)
    PROVE  HasEndpoint(s)'
<1>1. s \in Services
  BY DEF Services
<1>2. CASE services' = services
  BY <1>2 DEF HasEndpoint
<1>3. CASE AnnounceKnownService(c, s)
  <2>1. services[s] \in ServiceDiscovered
    BY <1>1 DEF HasEndpoint, IInv, BaseInv, EntriesOK
  <2>2. services'[s] = [services[s] EXCEPT !.enabler_as_server = TRUE]
    BY <1>1, <1>3 DEF AnnounceKnownService, IInv, BaseInv, EntriesOK
  <2>3. services'[s] \in ServiceDiscovered /\ services'[s].endpoint_request
    BY <2>1, <2>2 DEF HasEndpoint, ServiceDiscovered
  <2> QED
    BY <2>3, RegistryAssumption DEF HasEndpoint
<1>4. CASE ServiceAnnounced(c, s)
  <2>1. services'[s] = AnnouncedService(c)
    BY <1>1, <1>4 DEF ServiceAnnounced, IInv, BaseInv, EntriesOK
  <2> QED
    BY <2>1, AnnouncedServiceType DEF HasEndpoint
<1> QED
  BY <1>2, <1>3, <1>4
     DEF AnnounceService, AnnounceRefused, AnnounceNewService, RevokeService, RevokeRefused, registry

\* AnnouncedKeepsEndpoint (announce_service, announce_action, create_reader):
\* no discovery and no other thread takes the endpoints of what is announced.
THEOREM AnnouncedKept == Spec => AnnouncedKeepsEndpoint
<1> DEFINE Kept ==
        /\ \A s \in announced \cap announced' \cap PlainServices :
              HasEndpoint(s) => HasEndpoint(s)'
        /\ \A a \in announced \cap announced' \cap Actions, k \in ActionServices :
              HasEndpoint(<<a, k>>) => HasEndpoint(<<a, k>>)'
<1>1. PlainServices \subseteq Services /\ \A a \in Actions, k \in ActionServices : <<a, k>> \in Services
  BY DEF Services
<1>2. IInv /\ [Next]_vars => Kept
  <2> SUFFICES ASSUME IInv, [Next]_vars PROVE Kept
    OBVIOUS
  <2>1. ASSUME NEW t \in Topics, CreateReader(t) PROVE Kept
    BY <1>1, <2>1, DiscoveryEndpoints DEF IInv, BaseInv
  <2>2. ASSUME NEW c \in Callers, NEW s \in PlainServices,
               AnnounceService(c, s) \/ ServiceAnnounced(c, s) \/ RevokeService(c, s)
        PROVE  Kept
    <3>1. \A z \in Services : z # s => services'[z] = services[z]
      BY <2>2, ServiceCallServices DEF IInv, BaseInv
    <3>2. \A z \in Services : z # s => HasEndpoint(z)' = HasEndpoint(z)
      BY <3>1 DEF HasEndpoint
    <3>3. s \in announced' /\ HasEndpoint(s) => HasEndpoint(s)'
      BY <2>2, ServiceCallOwn
    <3> QED
      BY <1>1, <3>2, <3>3, PlainIsNoPart
  <2>3. ASSUME NEW c \in Callers, NEW a \in Actions,
               AnnounceAction(c, a) \/ ContinueAction(c, a) \/ RevokeAction(c, a)
        PROVE  Kept
    <3>1. \A s \in PlainServices : HasEndpoint(s)' = HasEndpoint(s)
      BY <2>3, ActionCallPlain DEF HasEndpoint, IInv, BaseInv
    <3>2. \A b \in Actions \ {a}, k \in ActionServices :
              HasEndpoint(<<b, k>>)' = HasEndpoint(<<b, k>>)
      BY <2>3, OtherActions DEF Still, HasEndpoint, IInv, BaseInv
    <3>3. a \in announced /\ a \in announced' =>
              \A k \in ActionServices : HasEndpoint(<<a, k>>) => HasEndpoint(<<a, k>>)'
      BY <2>3, ActionCallOwn
    <3> QED
      BY <3>1, <3>2, <3>3
  <2>4. ASSUME NEW c \in Callers, WaitTimesOut(c) PROVE Kept
    BY <2>4 DEF WaitTimesOut, registry, HasEndpoint
  <2>5. CASE UNCHANGED vars
    BY <2>5 DEF vars, HasEndpoint
  <2> HIDE DEF Kept
  <2> QED
    BY <2>1, <2>2, <2>3, <2>4, <2>5 DEF Next, ServiceCall, ActionCall
<1>3. Spec => [][Kept]_vars
  BY <1>2, AlwaysIInv, PTL DEF Spec
<1> QED
  BY <1>3 DEF AnnouncedKeepsEndpoint

\* What is not announced any more was revoked, and has no endpoint left but
\* for an action that somebody's endpoint has made look external.
RevokedIsStopped ==
    [][/\ \A s \in PlainServices \cap (announced \ announced') : ~HasEndpoint(s)'
       /\ \A a \in Actions \cap (announced \ announced') :
             \/ actions[a].external_server /\ UNCHANGED <<services, endpoints>>
             \/ \A k \in ActionServices : ~HasEndpoint(<<a, k>>)']_vars

\* Only a revocation that succeeds takes a name off those announced.
LEMMA AnnouncedGrows ==
    ASSUME [Next]_vars,
           \A c \in Callers, s \in PlainServices : ~RevokeService(c, s),
           \A c \in Callers, a \in Actions : ~RevokeAction(c, a)
    PROVE  announced \subseteq announced'
<1>1. ASSUME NEW c \in Callers, NEW s \in PlainServices,
             AnnounceService(c, s) \/ ServiceAnnounced(c, s)
      PROVE  announced \subseteq announced'
  BY <1>1 DEF AnnounceService, AnnounceRefused, AnnounceKnownService, AnnounceNewService,
              ServiceAnnounced
<1>2. ASSUME NEW c \in Callers, NEW a \in Actions, AnnounceAction(c, a)
      PROVE  announced \subseteq announced'
  BY <1>2 DEF AnnounceAction, AnnounceRefused, AnnounceKnownAction, AnnounceNewAction
<1>3. ASSUME NEW c \in Callers, NEW a \in Actions, ContinueAction(c, a)
      PROVE  announced \subseteq announced'
  BY <1>3 DEF ContinueAction, ServiceInserted, ResultInserted, FeedbackReady, StatusReady,
              StatusAndEnd
<1> QED
  BY <1>1, <1>2, <1>3 DEF Next, ServiceCall, ActionCall, CreateReader, WaitTimesOut, vars

\* DDSEnabler.hpp: revoke_service and revoke_action revoke the server.  Once
\* the call has returned true there is no endpoint left, whatever has been
\* discovered; but revoke_action also does when it has found the action to be
\* external, and then has withdrawn nothing.
THEOREM RevokedStopped == Spec => RevokedIsStopped
<1> DEFINE Stops ==
        /\ \A s \in PlainServices \cap (announced \ announced') : ~HasEndpoint(s)'
        /\ \A a \in Actions \cap (announced \ announced') :
              \/ actions[a].external_server /\ UNCHANGED <<services, endpoints>>
              \/ \A k \in ActionServices : ~HasEndpoint(<<a, k>>)'
<1>1. IInv /\ [Next]_vars => Stops
  <2> SUFFICES ASSUME IInv, [Next]_vars PROVE Stops
    OBVIOUS
  <2>1. PlainServices \cap Actions = {}
    BY RegistryAssumption
  <2>2. ASSUME NEW c \in Callers, NEW s \in PlainServices, RevokeService(c, s)
        PROVE  Stops
    <3>1. CASE RevokeRefused(c, s)
      BY <3>1 DEF RevokeRefused, ghosts
    <3>2. CASE /\ Revocable(s) /\ RevokeServices({s}) /\ UNCHANGED <<call, lost>>
               /\ announced' = announced \ {s}
      <4>1. {s} \in SUBSET Services
        BY DEF Services
      <4>2. ~HasEndpoint(s)'
        BY <3>2, <4>1, BaseRevoked DEF IInv
      <4> QED
        BY <2>1, <3>2, <4>2
    <3> QED
      BY <2>2, <3>1, <3>2 DEF RevokeService
  <2>3. ASSUME NEW c \in Callers, NEW a \in Actions, RevokeAction(c, a)
        PROVE  Stops
    <3>1. CASE RevokeRefused(c, a)
      BY <3>1 DEF RevokeRefused, ghosts
    <3>2. CASE RevocationIsFlag(a)
      BY <2>1, <3>2 DEF RevocationIsFlag
    <3>3. CASE RevocationOfServices(a) /\ UNCHANGED <<call, lost>>
      <4>1. CASE announced' = announced
        BY <4>1
      <4>2. CASE RevokedParts(a) = {a} \X ActionServices /\ announced' = announced \ {a}
        <5>1. RevokedParts(a) \in SUBSET Services
          BY RevokedPartsLemma DEF Services
        <5>2. RevokeServices(RevokedParts(a))
          BY <3>3 DEF RevocationOfServices
        <5>3. \A s \in RevokedParts(a) : ~HasEndpoint(s)'
          BY <3>3, <5>1, <5>2, RevokedPartsLemma, BaseRevoked DEF IInv
        <5> QED
          BY <2>1, <4>2, <5>3
      <4> QED
        BY <3>3, <4>1, <4>2 DEF RevocationOfServices
    <3> QED
      BY <2>3, <3>1, <3>2, <3>3 DEF RevokeAction
  <2>4. CASE announced \subseteq announced'
    BY <2>4
  <2> HIDE DEF Stops
  <2> QED
    BY <2>2, <2>3, <2>4, AnnouncedGrows
<1>2. Spec => [][Stops]_vars
  BY <1>1, AlwaysIInv, PTL DEF Spec
<1> QED
  BY <1>2 DEF RevokedIsStopped

-----------------------------------------------------------------------------
(* What appears is notified, unless the application had a hand in it.      *)

\* The services of a name, its topics, and what has appeared of a service.
Parts(n) == IF n \in PlainServices THEN {n} ELSE {n} \X ActionServices
TopicsFor(n) == IF n \in PlainServices THEN {n} \X ServiceTopics ELSE TopicsOf(n)
SeenTopics(s) == IF services[s] = NoEntry THEN {} ELSE services[s].topics
SeenOf(a) == IF actions[a] = NoEntry THEN {} ELSE actions[a].topics
Appeared(x, kinds) == {kind \in kinds : <<x, kind>> \in readers}

\* Of what was never announced the enabler has no endpoint and is no server.
Unasked(n) ==
    /\ \A t \in TopicsFor(n) : endpoints[t] = 0
    /\ n \in PlainServices => (services[n] # NoEntry => ~services[n].enabler_as_server)
    /\ n \in Actions => ~Serves(n)

\* Its entries are made of the topics that have appeared.
Found(n) ==
    /\ \A s \in Parts(n) : SeenTopics(s) = Appeared(s, ServiceTopics)
    /\ n \in PlainServices =>
          (SeenTopics(n) = ServiceTopics => n \in told /\ services[n].external_server)
    /\ n \in Actions =>
          /\ Linked(n) = {k \in ActionServices : SeenTopics(<<n, k>>) = ServiceTopics}
          /\ SeenOf(n) = Appeared(n, ActionTopics)
          /\ Linked(n) = ActionServices /\ SeenOf(n) = ActionTopics =>
                n \in told /\ actions[n].external_server

FoundInv ==
    /\ \A c \in Callers : call[c] # Idle => call[c].name \in asked
    /\ \A n \in Names \ asked : Unasked(n) /\ Found(n)

\* Names have no part and no topic in common.
LEMMA NamesApart ==
    ASSUME NEW m \in Names, NEW n \in Names, m # n
    PROVE  Parts(m) \cap Parts(n) = {} /\ TopicsFor(m) \cap TopicsFor(n) = {}
<1>1. /\ PlainServices \cap (Actions \X ActionServices) = {}
      /\ PlainServices \cap Actions = {}
      /\ m \in PlainServices \cup Actions /\ n \in PlainServices \cup Actions
  BY RegistryAssumption DEF Names
<1>2. ServiceTopics \cap ActionTopics = {}
  BY DEF ServiceTopics, ActionTopics
<1>3. Parts(m) \cap Parts(n) = {}
  BY <1>1 DEF Parts
<1>4. \A t \in TopicsFor(m) : \/ \E s \in Parts(m), k \in ServiceTopics : t = <<s, k>>
                              \/ \E k \in ActionTopics : t = <<m, k>>
  BY DEF TopicsFor, TopicsOf, Parts
<1>5. \A t \in TopicsFor(n) : \/ \E s \in Parts(n), k \in ServiceTopics : t = <<s, k>>
                              \/ \E k \in ActionTopics : t = <<n, k>>
  BY DEF TopicsFor, TopicsOf, Parts
<1> QED
  BY <1>2, <1>3, <1>4, <1>5

\* What belongs to a name is a service or a topic.
LEMMA PartsLemma ==
    ASSUME NEW n \in Names
    PROVE  /\ Parts(n) \subseteq Services /\ TopicsFor(n) \subseteq Topics
           /\ \A s \in Parts(n), kind \in ServiceTopics : <<s, kind>> \in TopicsFor(n)
           /\ \A s \in Parts(n) : RequestOf(s) \in TopicsFor(n)
           /\ n \in PlainServices => n \notin Actions /\ Parts(n) = {n}
           /\ n \in Actions =>
                 /\ n \notin PlainServices
                 /\ \A k \in ActionServices : <<n, k>> \in Parts(n)
                 /\ \A s \in Parts(n) : \E k \in ActionServices : s = <<n, k>>
                 /\ \A kind \in ActionTopics : <<n, kind>> \in TopicsFor(n)
<1>1. n \in PlainServices \cup Actions /\ PlainServices \cap Actions = {}
  BY RegistryAssumption DEF Names
<1>2. CASE n \in PlainServices
  <2>1. Parts(n) = {n} /\ TopicsFor(n) = {n} \X ServiceTopics /\ n \notin Actions
    BY <1>1, <1>2 DEF Parts, TopicsFor
  <2> QED
    BY <1>2, <2>1 DEF Services, Topics, RequestOf, ServiceTopics
<1>3. CASE n \in Actions
  <2>1. n \notin PlainServices /\ Parts(n) = {n} \X ActionServices /\ TopicsFor(n) = TopicsOf(n)
    BY <1>1, <1>3 DEF Parts, TopicsFor
  <2>2. Parts(n) \subseteq Services /\ TopicsFor(n) \subseteq Topics
    BY <1>3, <2>1 DEF Services, Topics, TopicsOf
  <2>3. \A s \in Parts(n), kind \in ServiceTopics : <<s, kind>> \in TopicsFor(n)
    BY <2>1 DEF TopicsOf
  <2>4. \A s \in Parts(n) : RequestOf(s) \in TopicsFor(n)
    BY <2>3 DEF RequestOf, ServiceTopics
  <2>5. \A kind \in ActionTopics : <<n, kind>> \in TopicsFor(n)
    BY <2>1 DEF TopicsOf
  <2> QED
    BY <2>1, <2>2, <2>3, <2>4, <2>5
<1> QED
  BY <1>1, <1>2, <1>3

\* A step that leaves alone all that is known of a name.
Frame(n) ==
    /\ \A s \in Parts(n) : services'[s] = services[s]
    /\ n \in Actions => actions'[n] = actions[n]
    /\ \A t \in TopicsFor(n) : endpoints'[t] = endpoints[t] /\ (t \in readers' <=> t \in readers)
    /\ n \in told => n \in told'

\* Such a step keeps the invariant of the name.
LEMMA FrameLemma ==
    ASSUME NEW n \in Names, Frame(n), Unasked(n), Found(n)
    PROVE  Unasked(n)' /\ Found(n)'
<1>1. \A s \in Parts(n) : SeenTopics(s)' = SeenTopics(s)
  BY DEF Frame, SeenTopics
<1>2. \A s \in Parts(n) : Appeared(s, ServiceTopics)' = Appeared(s, ServiceTopics)
  BY PartsLemma DEF Frame, Appeared
<1>3. n \in Actions => Appeared(n, ActionTopics)' = Appeared(n, ActionTopics)
  BY PartsLemma DEF Frame, Appeared
<1>4. n \in Actions => Linked(n)' = Linked(n) /\ SeenOf(n)' = SeenOf(n) /\ Serves(n)' = Serves(n)
  BY DEF Frame, Linked, SeenOf, Serves
<1>5. Unasked(n)'
  BY <1>4, PartsLemma DEF Unasked, Frame
<1>6. n \in PlainServices =>
          (SeenTopics(n)' = ServiceTopics => n \in told' /\ services'[n].external_server)
  BY <1>1, PartsLemma DEF Found, Frame
<1>7. ASSUME n \in Actions
      PROVE  /\ Linked(n)' = {k \in ActionServices : SeenTopics(<<n, k>>)' = ServiceTopics}
             /\ SeenOf(n)' = Appeared(n, ActionTopics)'
             /\ Linked(n)' = ActionServices /\ SeenOf(n)' = ActionTopics =>
                    n \in told' /\ actions'[n].external_server
  <2>1. \A k \in ActionServices : SeenTopics(<<n, k>>)' = SeenTopics(<<n, k>>)
    BY <1>1, <1>7, PartsLemma
  <2> QED
    BY <1>3, <1>4, <1>7, <2>1 DEF Found, Frame
<1>8. \A s \in Parts(n) : SeenTopics(s)' = Appeared(s, ServiceTopics)'
  BY <1>1, <1>2 DEF Found
<1>9. Found(n)'
  BY <1>6, <1>7, <1>8 DEF Found
<1> QED
  BY <1>5, <1>9

\* The endpoints and the readers that a call about a name can change.
LEMMA TopicsFrame ==
    ASSUME EntriesOK, NEW m \in Names, NEW n \in Names, m # n,
           \/ endpoints' = endpoints /\ readers' = readers
           \/ /\ \E t \in TopicsFor(m) : endpoints' = [endpoints EXCEPT ![t] = @ + 1]
              /\ readers' = readers
           \/ \E ss \in SUBSET Parts(m) : RevokeServices(ss)
    PROVE  \A t \in TopicsFor(n) : endpoints'[t] = endpoints[t] /\ (t \in readers' <=> t \in readers)
<1>1. TopicsFor(m) \cap TopicsFor(n) = {} /\ TopicsFor(n) \subseteq Topics
  BY NamesApart, PartsLemma
<1>2. endpoints \in [Topics -> Nat]
  BY DEF EntriesOK
<1>3. ASSUME NEW u \in TopicsFor(m), endpoints' = [endpoints EXCEPT ![u] = @ + 1]
      PROVE  \A t \in TopicsFor(n) : endpoints'[t] = endpoints[t]
  BY <1>1, <1>2, <1>3
<1>4. ASSUME NEW ss \in SUBSET Parts(m), RevokeServices(ss)
      PROVE  \A t \in TopicsFor(n) : endpoints'[t] = endpoints[t] /\ (t \in readers' <=> t \in readers)
  <2> DEFINE gone == {RequestOf(s) : s \in Stopped(ss)}
  <2>1. gone \subseteq TopicsFor(m)
    BY PartsLemma DEF Stopped
  <2>2. /\ endpoints' = [t \in Topics |-> IF t \in gone THEN endpoints[t] - 1 ELSE endpoints[t]]
        /\ readers' = readers \ gone
    BY <1>4 DEF RevokeServices
  <2> HIDE DEF gone
  <2> QED
    BY <1>1, <2>1, <2>2
<1> QED
  BY <1>3, <1>4

\* A call about a service that was announced concerns no other name.
LEMMA FoundServiceCall ==
    ASSUME IInv, FoundInv, NEW c \in Callers, NEW s \in PlainServices,
           AnnounceService(c, s) \/ ServiceAnnounced(c, s) \/ RevokeService(c, s)
    PROVE  FoundInv'
<1>1. /\ s \in Names /\ s \in Parts(s) /\ RequestOf(s) \in TopicsFor(s) /\ s # NoEntry
      /\ EntriesOK /\ PlainServices \subseteq Services
  BY RegistryAssumption, PartsLemma DEF IInv, BaseInv, Names, Services
<1>2. CASE UNCHANGED <<registry, readers, endpoints, call, told>> /\ asked \subseteq asked'
  <2>1. \A n \in Names : Frame(n)
    BY <1>2 DEF Frame, registry
  <2> QED
    BY <1>2, <2>1, FrameLemma DEF FoundInv
<1>3. ASSUME s \in asked', asked \subseteq asked', UNCHANGED <<actions, told>>,
             \/ endpoints' = endpoints /\ readers' = readers
             \/ /\ \E t \in TopicsFor(s) : endpoints' = [endpoints EXCEPT ![t] = @ + 1]
                /\ readers' = readers
             \/ \E ss \in SUBSET Parts(s) : RevokeServices(ss),
             \A d \in Callers : call'[d] = call[d] \/ call'[d] = Idle \/ call'[d].name = s
      PROVE  FoundInv'
  <2>1. ASSUME NEW n \in Names \ asked' PROVE Unasked(n)' /\ Found(n)'
    <3>1. n \in Names /\ n # s /\ n \notin asked
      BY <1>3, <2>1
    <3>2. \A z \in Parts(n) : z # s /\ z \in Services
      BY <1>1, <3>1, NamesApart, PartsLemma
    <3>3. \A z \in Parts(n) : services'[z] = services[z]
      BY <1>1, <3>2, ServiceCallServices
    <3>4. \A t \in TopicsFor(n) : endpoints'[t] = endpoints[t] /\ (t \in readers' <=> t \in readers)
      BY <1>1, <1>3, <3>1, TopicsFrame
    <3>5. Frame(n)
      BY <1>3, <3>3, <3>4 DEF Frame
    <3> QED
      BY <3>1, <3>5, FrameLemma DEF FoundInv
  <2>2. \A d \in Callers : call'[d] # Idle => call'[d].name \in asked'
    BY <1>3 DEF FoundInv
  <2> QED
    BY <2>1, <2>2 DEF FoundInv
<1>4. ASSUME NEW w, w = Idle \/ w.name = s, call' = [call EXCEPT ![c] = w]
      PROVE  \A d \in Callers : call'[d] = call[d] \/ call'[d] = Idle \/ call'[d].name = s
  BY <1>1, <1>4 DEF EntriesOK
<1>5. CASE AnnounceRefused(c, s) \/ RevokeRefused(c, s)
  BY <1>2, <1>5 DEF AnnounceRefused, RevokeRefused, Announces, ghosts
<1>6. CASE AnnounceKnownService(c, s)
  BY <1>3, <1>6 DEF AnnounceKnownService, Announces
<1>7. CASE AnnounceNewService(c, s)
  <2>1. /\ endpoints' = [endpoints EXCEPT ![RequestOf(s)] = @ + 1]
        /\ call' = [call EXCEPT ![c] = [name |-> s, topic |-> RequestOf(s)]]
        /\ asked' = asked \cup {s} /\ UNCHANGED <<actions, told, readers>>
    BY <1>7 DEF AnnounceNewService, WaitsFor, Announces, registry
  <2> QED
    BY <1>1, <1>3, <1>4, <2>1
<1>8. CASE ServiceAnnounced(c, s)
  <2>1. call[c].topic = RequestOf(s) /\ call' = [call EXCEPT ![c] = Idle]
        /\ UNCHANGED <<actions, readers, endpoints, asked, told>>
    BY <1>8 DEF ServiceAnnounced
  <2>2. call[c] # Idle
    BY <2>1, TopicsDiffer
  <2>3. call[c].name = s
    <3> DEFINE n == call[c].name
    <3>1. \/ n \in PlainServices /\ call[c].topic = RequestOf(n)
          \/ /\ n \in Actions
             /\ \/ \E k \in ActionServices : call[c].topic = RequestOf(<<n, k>>)
                \/ \E k \in ActionTopics : call[c].topic = <<n, k>>
      BY <2>2 DEF IInv, BaseInv, CallInv
    <3> HIDE DEF n
    <3>2. n = s
      BY <2>1, <3>1, TopicsDiffer, PlainIsNoPart
    <3> QED
      BY <3>2 DEF n
  <2>4. s \in asked
    BY <2>2, <2>3 DEF FoundInv
  <2> QED
    BY <1>3, <1>4, <2>1, <2>4
<1>9. CASE RevokeService(c, s) /\ ~RevokeRefused(c, s)
  <2>1. Revocable(s) /\ RevokeServices({s}) /\ UNCHANGED <<actions, call, asked, told>>
    BY <1>9 DEF RevokeService
  <2>2. s \in asked
    BY <1>1, <2>1 DEF Revocable, FoundInv, Unasked
  <2>3. {s} \in SUBSET Parts(s)
    BY <1>1
  <2> QED
    BY <1>3, <2>1, <2>2, <2>3
<1> QED
  BY <1>5, <1>6, <1>7, <1>8, <1>9 DEF AnnounceService, RevokeService

\* A call about an action waits for topics of the action only.
LEMMA ActionCallTopics ==
    ASSUME IInv, FoundInv, NEW c \in Callers, NEW a \in Actions,
           AnnounceAction(c, a) \/ ContinueAction(c, a) \/ RevokeAction(c, a)
    PROVE  \/ UNCHANGED <<registry, readers, endpoints, call, told, asked>>
           \/ /\ a \in asked' /\ asked \subseteq asked' /\ told' = told
              /\ \/ endpoints' = endpoints /\ readers' = readers
                 \/ /\ \E t \in TopicsFor(a) : endpoints' = [endpoints EXCEPT ![t] = @ + 1]
                    /\ readers' = readers
                 \/ \E ss \in SUBSET Parts(a) : RevokeServices(ss)
              /\ \/ call' = call
                 \/ \E w : /\ w = Idle \/ w.name = a
                           /\ call' = [call EXCEPT ![c] = w]
<1> DEFINE Quiet == UNCHANGED <<registry, readers, endpoints, call, told, asked>>
           Asks == a \in asked' /\ asked \subseteq asked' /\ told' = told
           Topic == \/ endpoints' = endpoints /\ readers' = readers
                    \/ /\ \E t \in TopicsFor(a) : endpoints' = [endpoints EXCEPT ![t] = @ + 1]
                       /\ readers' = readers
                    \/ \E ss \in SUBSET Parts(a) : RevokeServices(ss)
           Moves == \/ call' = call
                    \/ \E w : /\ w = Idle \/ w.name = a
                              /\ call' = [call EXCEPT ![c] = w]
<1>1. /\ a \in Names /\ \A k \in ActionServices : RequestOf(<<a, k>>) \in TopicsFor(a)
      /\ \A kind \in ActionTopics : <<a, kind>> \in TopicsFor(a)
      /\ Parts(a) = {a} \X ActionServices
      /\ {"GOAL", "CANCEL", "RESULT"} \subseteq ActionServices
      /\ {"FEEDBACK", "STATUS"} \subseteq ActionTopics
  <2>1. a \in Names /\ a \notin PlainServices
    BY RegistryAssumption DEF Names
  <2>2. Parts(a) = {a} \X ActionServices
    BY <2>1 DEF Parts
  <2> QED
    BY <2>1, <2>2, PartsLemma DEF ActionServices, ActionTopics
<1>2. ASSUME NEW t \in TopicsFor(a), WaitsFor(c, a, t), readers' = readers
      PROVE  Topic /\ Moves
  <2>1. [name |-> a, topic |-> t].name = a
    OBVIOUS
  <2> QED
    BY <1>2, <2>1 DEF WaitsFor
<1>3. ASSUME Fails(c), readers' = readers PROVE Topic /\ Moves
  BY <1>3 DEF Fails
<1>4. ASSUME NEW f, StatusAndEnd(c, a, f), readers' = readers PROVE Topic /\ Moves
  <2>1. [name |-> a, topic |-> <<a, "STATUS">>].name = a
    OBVIOUS
  <2>2. <<a, "STATUS">> \in TopicsFor(a) /\ endpoints' = [endpoints EXCEPT ![<<a, "STATUS">>] = @ + 1]
    BY <1>1, <1>4 DEF StatusAndEnd
  <2>3. \/ call' = [call EXCEPT ![c] = Idle]
        \/ call' = [call EXCEPT ![c] = [name |-> a, topic |-> <<a, "STATUS">>]]
    BY <1>4 DEF StatusAndEnd
  <2>4. Moves
    BY <2>1, <2>3
  <2> QED
    BY <1>4, <2>2, <2>4
<1>5. ASSUME call[c].name = a PROVE a \in asked
  <2>1. call[c] # Idle
    BY <1>1, <1>5, RegistryAssumption DEF Idle
  <2> QED
    BY <1>5, <2>1 DEF FoundInv
<1>6. CASE AnnounceAction(c, a)
  <2>1. Asks
    BY <1>6 DEF AnnounceAction, AnnounceRefused, AnnounceKnownAction, AnnounceNewAction, Announces
  <2>2. CASE AnnounceRefused(c, a) \/ AnnounceKnownAction(c, a)
    BY <2>1, <2>2 DEF AnnounceRefused, AnnounceKnownAction
  <2>3. CASE AnnounceNewAction(c, a)
    <3>1. /\ readers' = readers
          /\ WaitsFor(c, a, RequestOf(<<a, "GOAL">>)) \/ UNCHANGED <<endpoints, call>>
      BY <2>3 DEF AnnounceNewAction
    <3>2. Topic /\ Moves
      BY <1>1, <1>2, <3>1
    <3> QED
      BY <2>1, <3>2
  <2> QED
    BY <1>6, <2>2, <2>3 DEF AnnounceAction
<1>7. CASE ContinueAction(c, a)
  <2>1. /\ call[c].name = a /\ readers' = readers /\ UNCHANGED <<asked, told>>
    BY <1>7 DEF ContinueAction, ServiceInserted, ResultInserted, FeedbackReady, StatusReady
  <2>2. Asks
    BY <1>5, <2>1
  <2>3. \/ \E t \in TopicsFor(a) : WaitsFor(c, a, t)
        \/ Fails(c)
        \/ \E f : StatusAndEnd(c, a, f)
        \/ endpoints' = endpoints /\ call' = [call EXCEPT ![c] = Idle]
    BY <1>1, <1>7 DEF ContinueAction, ServiceInserted, ResultInserted, FeedbackReady, StatusReady
  <2>4. Topic /\ Moves
    BY <1>2, <1>3, <1>4, <2>1, <2>3
  <2> QED
    BY <2>2, <2>4
<1>8. CASE RevokeAction(c, a)
  <2>1. CASE RevokeRefused(c, a)
    BY <2>1 DEF RevokeRefused, ghosts
  <2>2. CASE /\ Serves(a)
             /\ RevocationIsFlag(a) \/ RevocationOfServices(a)
             /\ UNCHANGED <<call, asked, told, lost>>
    <3>1. a \in asked
      BY <1>1, <2>2 DEF FoundInv, Unasked
    <3>2. RevokedParts(a) \in SUBSET Parts(a)
      BY <1>1, RevokedPartsLemma
    <3>3. Topic
      BY <2>2, <3>2 DEF RevocationIsFlag, RevocationOfServices
    <3> QED
      BY <2>2, <3>1, <3>3
  <2> QED
    BY <1>8, <2>1, <2>2 DEF RevokeAction, Serves
<1> QED
  BY <1>6, <1>7, <1>8

\* Nor does a call about an action concern any other name.
LEMMA FoundActionCall ==
    ASSUME IInv, FoundInv, NEW c \in Callers, NEW a \in Actions,
           AnnounceAction(c, a) \/ ContinueAction(c, a) \/ RevokeAction(c, a)
    PROVE  FoundInv'
<1>1. CASE UNCHANGED <<registry, readers, endpoints, call, told, asked>>
  <2>1. \A n \in Names : Frame(n)
    BY <1>1 DEF Frame, registry
  <2> QED
    BY <1>1, <2>1, FrameLemma DEF FoundInv
<1>2. CASE /\ a \in asked' /\ asked \subseteq asked' /\ told' = told
           /\ \/ endpoints' = endpoints /\ readers' = readers
              \/ /\ \E t \in TopicsFor(a) : endpoints' = [endpoints EXCEPT ![t] = @ + 1]
                 /\ readers' = readers
              \/ \E ss \in SUBSET Parts(a) : RevokeServices(ss)
           /\ \/ call' = call
              \/ \E w : (w = Idle \/ w.name = a) /\ call' = [call EXCEPT ![c] = w]
  <2>1. ASSUME NEW n \in Names \ asked' PROVE Unasked(n)' /\ Found(n)'
    <3>1. n \in Names /\ n # a /\ n \notin asked /\ a \in Names /\ EntriesOK
      BY <1>2, <2>1 DEF Names, IInv, BaseInv
    <3>2. \A s \in Parts(n) : services'[s] = services[s]
      <4>1. CASE n \in PlainServices
        BY <3>1, <4>1, ActionCallPlain, PartsLemma
      <4>2. CASE n \in Actions
        BY <3>1, <4>2, OtherActions, PartsLemma DEF Still
      <4> QED
        BY <3>1, <4>1, <4>2 DEF Names
    <3>3. n \in Actions => actions'[n] = actions[n]
      BY <3>1, OtherActions DEF Still
    <3>4. \A t \in TopicsFor(n) : endpoints'[t] = endpoints[t] /\ (t \in readers' <=> t \in readers)
      BY <1>2, <3>1, TopicsFrame
    <3>5. Frame(n)
      BY <1>2, <3>2, <3>3, <3>4 DEF Frame
    <3> QED
      BY <3>1, <3>5, FrameLemma DEF FoundInv
  <2>2. \A d \in Callers : call'[d] # Idle => call'[d].name \in asked'
    <3>1. call \in [Callers -> {Idle} \cup [name : Names, topic : Topics]]
      BY DEF IInv, BaseInv, EntriesOK
    <3> QED
      BY <1>2, <3>1 DEF FoundInv
  <2> QED
    BY <2>1, <2>2 DEF FoundInv
<1> QED
  BY <1>1, <1>2, ActionCallTopics

\* What a topic that appears adds to the entry of a service.
LEMMA SeenWithTopic ==
    ASSUME EntriesOK, NEW s \in Services, NEW kind \in ServiceTopics,
           NEW odd \in SUBSET {kind},
           <<s, kind>> \notin readers,
           services' = [services EXCEPT ![s] = ServiceWithTopic(s, kind, odd)],
           readers' = readers \cup {<<s, kind>>},
           SeenTopics(s) = Appeared(s, ServiceTopics)
    PROVE  /\ SeenTopics(s)' = SeenTopics(s) \cup {kind}
           /\ SeenTopics(s)' = Appeared(s, ServiceTopics)'
           /\ kind \notin SeenTopics(s)
           /\ Completes(s, kind) <=> SeenTopics(s)' = ServiceTopics
           /\ SeenTopics(s)' = ServiceTopics => services'[s].external_server
           /\ services'[s].enabler_as_server = ServiceEntry(s).enabler_as_server
           /\ services'[s] # NoEntry
<1>1. ServiceEntry(s) \in ServiceDiscovered /\ ServiceEntry(s).topics = SeenTopics(s)
  BY DEF EntriesOK, ServiceEntry, NewService, ServiceDiscovered, SeenTopics
<1>2. services'[s] = ServiceWithTopic(s, kind, odd)
  BY DEF EntriesOK
<1>3. Completes(s, kind) \in BOOLEAN
  BY DEF Completes
<1>4. /\ services'[s] \in ServiceDiscovered
      /\ services'[s].topics = SeenTopics(s) \cup {kind}
      /\ Completes(s, kind) => services'[s].external_server
      /\ services'[s].enabler_as_server = ServiceEntry(s).enabler_as_server
  <2> DEFINE new == ServiceWithTopic(s, kind, odd)
  <2>1. new \in ServiceDiscovered
    BY <1>1, <1>3 DEF ServiceWithTopic, ServiceDiscovered
  <2>2. /\ new.topics = ServiceEntry(s).topics \cup {kind}
        /\ new.enabler_as_server = ServiceEntry(s).enabler_as_server
    BY <1>1 DEF ServiceWithTopic, ServiceDiscovered
  <2>3. new.external_server = (ServiceEntry(s).external_server \/ Completes(s, kind))
    BY <1>1 DEF ServiceWithTopic, ServiceDiscovered
  <2> HIDE DEF new
  <2>4. Completes(s, kind) => new.external_server
    BY <2>1, <2>3, Zenon
  <2> QED
    BY <1>1, <1>2, <2>1, <2>2, <2>4 DEF new
<1>5. services'[s] # NoEntry
  BY <1>4, RegistryAssumption
<1>6. SeenTopics(s)' = SeenTopics(s) \cup {kind}
  BY <1>4, <1>5 DEF SeenTopics
<1>7. kind \notin SeenTopics(s)
  BY DEF Appeared
<1>8. Appeared(s, ServiceTopics)' = Appeared(s, ServiceTopics) \cup {kind}
  BY DEF Appeared
<1>9. Completes(s, kind) <=> SeenTopics(s)' = ServiceTopics
  BY <1>1, <1>6, <1>7 DEF Completes
<1> QED
  BY <1>4, <1>5, <1>6, <1>7, <1>8, <1>9

\* What the end of action_discovered_nts_ makes of an entry.
LEMMA CheckedLemma ==
    ASSUME EntriesOK, NEW f, NEW a \in Actions, NEW entry \in ActionDiscovered,
           Checked(f, a, entry)
    PROVE  /\ actions'[a] # NoEntry
           /\ actions'[a].services = entry.services
           /\ actions'[a].topics = entry.topics
           /\ actions'[a].enabler_as_server = entry.enabler_as_server
           /\ ActionComplete(f, a, entry) => a \in told' /\ actions'[a].external_server
           /\ told \subseteq told'
           /\ \A b \in Actions : b # a => actions'[b] = actions[b]
<1> DEFINE marked == [entry EXCEPT !.external_server = TRUE]
<1>1. /\ marked \in ActionDiscovered /\ marked.external_server
      /\ marked.services = entry.services /\ marked.topics = entry.topics
      /\ marked.enabler_as_server = entry.enabler_as_server
  BY DEF ActionDiscovered
<1>2. NoEntry \notin ActionDiscovered
  BY RegistryAssumption
<1> HIDE DEF marked
<1>3. CASE ActionComplete(f, a, entry)
  <2>1. actions' = [actions EXCEPT ![a] = marked] /\ told' = told \cup {a}
    BY <1>3 DEF Checked, marked
  <2> QED
    BY <1>1, <1>2, <2>1 DEF EntriesOK
<1>4. CASE ~ActionComplete(f, a, entry)
  <2>1. actions' = [actions EXCEPT ![a] = entry] /\ told' = told
    BY <1>4 DEF Checked
  <2> QED
    BY <1>2, <1>4, <2>1 DEF EntriesOK
<1> QED
  BY <1>3, <1>4

\* The topics of that entry.
LEMMA EntrySeen ==
    ASSUME EntriesOK, NEW a \in Actions
    PROVE  ActionEntry(a).topics = SeenOf(a)
<1>1. actions[a] \in ActionDiscovered \cup {NoEntry}
  BY DEF EntriesOK
<1>2. CASE actions[a] = NoEntry
  BY <1>2 DEF ActionEntry, NewAction, ActionDiscovered, SeenOf
<1>3. CASE actions[a] # NoEntry
  BY <1>1, <1>3 DEF ActionEntry, ActionDiscovered, SeenOf
<1> QED
  BY <1>2, <1>3

\* A topic of a plain service.
LEMMA FoundPlain ==
    ASSUME EntriesOK, NEW s \in PlainServices, NEW kind \in ServiceTopics,
           NEW odd \in SUBSET {kind}, DiscoverPlain(s, kind, odd), <<s, kind>> \notin readers,
           readers' = readers \cup {<<s, kind>>}, UNCHANGED endpoints,
           Unasked(s), Found(s)
    PROVE  Unasked(s)' /\ Found(s)'
<1>1. s \in Services /\ s \in Names /\ Parts(s) = {s} /\ s \notin Actions
  BY PartsLemma DEF Services, Names
<1>2. /\ SeenTopics(s)' = Appeared(s, ServiceTopics)'
      /\ Completes(s, kind) <=> SeenTopics(s)' = ServiceTopics
      /\ SeenTopics(s)' = ServiceTopics => services'[s].external_server
      /\ services'[s].enabler_as_server = ServiceEntry(s).enabler_as_server
  BY <1>1, SeenWithTopic DEF DiscoverPlain, Found
<1>3. SeenTopics(s)' = ServiceTopics => s \in told'
  BY <1>2 DEF DiscoverPlain
<1>4. ~ServiceEntry(s).enabler_as_server
  BY <1>1 DEF ServiceEntry, NewService, Unasked
<1>5. Unasked(s)'
  BY <1>1, <1>2, <1>4 DEF Unasked
<1>6. Found(s)'
  BY <1>1, <1>2, <1>3 DEF Found, Parts
<1> QED
  BY <1>5, <1>6

\* What of an action has to be shown once its entry has been checked.
LEMMA FoundChecked ==
    ASSUME EntriesOK, NEW a \in Actions, NEW entry \in ActionDiscovered,
           Checked(services', a, entry), UNCHANGED endpoints,
           Unasked(a), ~entry.enabler_as_server,
           \A k \in ActionServices : SeenTopics(<<a, k>>)' = Appeared(<<a, k>>, ServiceTopics)',
           entry.services = {k \in ActionServices : SeenTopics(<<a, k>>)' = ServiceTopics},
           entry.topics = Appeared(a, ActionTopics)'
    PROVE  Unasked(a)' /\ Found(a)'
<1>1. /\ actions'[a] # NoEntry
      /\ actions'[a].services = entry.services
      /\ actions'[a].topics = entry.topics
      /\ actions'[a].enabler_as_server = entry.enabler_as_server
      /\ ActionComplete(services', a, entry) => a \in told' /\ actions'[a].external_server
  BY CheckedLemma
<1>2. /\ a \in Names /\ a \notin PlainServices
      /\ \A s \in Parts(a) : \E k \in ActionServices : s = <<a, k>>
  BY PartsLemma DEF Names
<1>3. Linked(a)' = entry.services /\ SeenOf(a)' = entry.topics /\ ~Serves(a)'
  BY <1>1 DEF Linked, SeenOf, Serves
<1>4. entry.services = ActionServices /\ entry.topics = ActionTopics =>
          ActionComplete(services', a, entry)
  <2>1. \A k \in ActionServices :
            SeenTopics(<<a, k>>)' = ServiceTopics => FullyDiscovered(services', <<a, k>>)
    BY DEF SeenTopics, FullyDiscovered, ServiceTopics
  <2> QED
    BY <2>1 DEF ActionComplete
<1>5. Unasked(a)'
  BY <1>2, <1>3 DEF Unasked
<1>6. \A s \in Parts(a) : SeenTopics(s)' = Appeared(s, ServiceTopics)'
  BY <1>2
<1>7. Found(a)'
  BY <1>1, <1>2, <1>3, <1>4, <1>6 DEF Found
<1> QED
  BY <1>5, <1>7

\* A topic of a service of an action.
LEMMA FoundActionService ==
    ASSUME EntriesOK, NEW a \in Actions, NEW k \in ActionServices, NEW kind \in ServiceTopics,
           DiscoverActionService(a, k, kind), <<<<a, k>>, kind>> \notin readers,
           readers' = readers \cup {<<<<a, k>>, kind>>}, UNCHANGED endpoints,
           Unasked(a), Found(a)
    PROVE  Unasked(a)' /\ Found(a)'
<1> DEFINE s == <<a, k>>
           found == IF Completes(s, kind) THEN {k} ELSE {}
           entry == [ActionEntry(a) EXCEPT !.services = @ \cup found]
<1>1. /\ a \in Names /\ \A j \in ActionServices : <<a, j>> \in Parts(a) /\ <<a, j>> \in Services
  BY PartsLemma, TopicsDiffer DEF Names
<1>2. /\ services' = [services EXCEPT ![s] = ServiceWithTopic(s, kind, {})]
      /\ Checked(services', a, entry)
  BY DEF DiscoverActionService
<1>3. \A j \in ActionServices : SeenTopics(<<a, j>>) = Appeared(<<a, j>>, ServiceTopics)
  BY <1>1 DEF Found
<1>4. /\ SeenTopics(s)' = Appeared(s, ServiceTopics)'
      /\ kind \notin SeenTopics(s)
      /\ Completes(s, kind) <=> SeenTopics(s)' = ServiceTopics
  <2>1. {} \in SUBSET {kind} /\ s \in Services /\ SeenTopics(s) = Appeared(s, ServiceTopics)
    BY <1>1, <1>3
  <2> HIDE DEF s
  <2>2. <<s, kind>> \notin readers /\ readers' = readers \cup {<<s, kind>>}
    BY DEF s
  <2> QED
    BY <1>2, <2>1, <2>2, SeenWithTopic
<1>5. \A j \in ActionServices : j # k =>
          /\ SeenTopics(<<a, j>>)' = SeenTopics(<<a, j>>)
          /\ Appeared(<<a, j>>, ServiceTopics)' = Appeared(<<a, j>>, ServiceTopics)
  <2> SUFFICES ASSUME NEW j \in ActionServices, j # k
               PROVE  /\ SeenTopics(<<a, j>>)' = SeenTopics(<<a, j>>)
                      /\ Appeared(<<a, j>>, ServiceTopics)' = Appeared(<<a, j>>, ServiceTopics)
    OBVIOUS
  <2>1. services'[<<a, j>>] = services[<<a, j>>]
    BY <1>1, <1>2 DEF EntriesOK
  <2>2. \A q : <<<<a, j>>, q>> \in readers' <=> <<<<a, j>>, q>> \in readers
    OBVIOUS
  <2> QED
    BY <2>1, <2>2 DEF SeenTopics, Appeared
<1>6. \A j \in ActionServices : SeenTopics(<<a, j>>)' = Appeared(<<a, j>>, ServiceTopics)'
  BY <1>3, <1>4, <1>5
<1>7. /\ ActionEntry(a) \in ActionDiscovered
      /\ ActionEntry(a).services = Linked(a)
      /\ ActionEntry(a).topics = SeenOf(a)
      /\ ~ActionEntry(a).enabler_as_server
  BY <1>1, EntryLemma, EntrySeen DEF Unasked
<1>8. /\ entry \in ActionDiscovered
      /\ entry.services = Linked(a) \cup found
      /\ entry.topics = SeenOf(a)
      /\ ~entry.enabler_as_server
  BY <1>7 DEF ActionDiscovered
<1>9. Linked(a) = {j \in ActionServices : SeenTopics(<<a, j>>) = ServiceTopics}
      /\ SeenOf(a) = Appeared(a, ActionTopics)
  BY DEF Found
<1>10. entry.services = {j \in ActionServices : SeenTopics(<<a, j>>)' = ServiceTopics}
  <2>1. k \notin Linked(a)
    BY <1>4, <1>9
  <2> HIDE DEF entry
  <2> QED
    BY <1>4, <1>5, <1>8, <1>9, <2>1
<1>11. Appeared(a, ActionTopics)' = Appeared(a, ActionTopics)
  <2>1. \A q \in ActionTopics : <<a, q>> # <<s, kind>>
    BY DEF ServiceTopics, ActionTopics
  <2> HIDE DEF s
  <2>2. readers' = readers \cup {<<s, kind>>}
    BY DEF s
  <2> QED
    BY <2>1, <2>2 DEF Appeared
<1> HIDE DEF entry
<1> QED
  BY <1>2, <1>6, <1>8, <1>9, <1>10, <1>11, FoundChecked

\* A topic of an action.
LEMMA FoundActionTopic ==
    ASSUME EntriesOK, NEW a \in Actions, NEW kind \in ActionTopics,
           DiscoverActionTopic(a, kind), <<a, kind>> \notin readers,
           readers' = readers \cup {<<a, kind>>}, UNCHANGED endpoints,
           Unasked(a), Found(a)
    PROVE  Unasked(a)' /\ Found(a)'
<1> DEFINE entry == [ActionEntry(a) EXCEPT !.topics = @ \cup {kind}]
<1>1. a \in Names /\ \A j \in ActionServices : <<a, j>> \in Parts(a)
  BY PartsLemma DEF Names
<1>2. services' = services /\ Checked(services', a, entry)
  BY DEF DiscoverActionTopic
<1>3. \A j \in ActionServices :
          /\ SeenTopics(<<a, j>>)' = SeenTopics(<<a, j>>)
          /\ Appeared(<<a, j>>, ServiceTopics)' = Appeared(<<a, j>>, ServiceTopics)
  <2>1. \A x : \A q \in ServiceTopics : <<x, q>> # <<a, kind>>
    BY DEF ServiceTopics, ActionTopics
  <2> QED
    BY <1>2, <2>1 DEF SeenTopics, Appeared
<1>4. \A j \in ActionServices : SeenTopics(<<a, j>>)' = Appeared(<<a, j>>, ServiceTopics)'
  BY <1>1, <1>3 DEF Found
<1>5. /\ ActionEntry(a) \in ActionDiscovered
      /\ ActionEntry(a).services = Linked(a)
      /\ ActionEntry(a).topics = SeenOf(a)
      /\ ~ActionEntry(a).enabler_as_server
  BY <1>1, EntryLemma, EntrySeen DEF Unasked
<1>6. /\ entry \in ActionDiscovered
      /\ entry.services = Linked(a)
      /\ entry.topics = SeenOf(a) \cup {kind}
      /\ ~entry.enabler_as_server
  BY <1>5 DEF ActionDiscovered
<1>7. Linked(a) = {j \in ActionServices : SeenTopics(<<a, j>>) = ServiceTopics}
      /\ SeenOf(a) = Appeared(a, ActionTopics)
  BY DEF Found
<1>8. Appeared(a, ActionTopics)' = Appeared(a, ActionTopics) \cup {kind}
  BY DEF Appeared
<1> HIDE DEF entry
<1>9. entry.services = {j \in ActionServices : SeenTopics(<<a, j>>)' = ServiceTopics}
  BY <1>3, <1>6, <1>7
<1> QED
  BY <1>2, <1>4, <1>6, <1>7, <1>8, <1>9, FoundChecked

\* A topic concerns the name it is of and no other.
LEMMA FoundCreateReader ==
    ASSUME IInv, FoundInv, NEW t \in Topics, CreateReader(t)
    PROVE  FoundInv'
<1>0. /\ EntriesOK /\ t \notin readers /\ readers' = readers \cup {t}
      /\ UNCHANGED <<endpoints, call, asked>>
  BY DEF CreateReader, IInv, BaseInv
<1>1. ASSUME NEW n \in Names \ asked, NEW m \in Names, m # n, t \in TopicsFor(m),
             \A s \in Services \ Parts(m) : services'[s] = services[s],
             \A a \in Actions : a # m => actions'[a] = actions[a],
             told \subseteq told'
      PROVE  Unasked(n)' /\ Found(n)'
  <2>1. \A s \in Parts(n) : s \in Services \ Parts(m)
    BY <1>1, NamesApart, PartsLemma
  <2>2. \A u \in TopicsFor(n) : u # t
    BY <1>1, NamesApart
  <2>3. Frame(n)
    BY <1>0, <1>1, <2>1, <2>2 DEF Frame
  <2> QED
    BY <1>1, <2>3, FrameLemma DEF FoundInv
<1>2. ASSUME NEW n \in Names \ asked PROVE Unasked(n)' /\ Found(n)'
  <2>0. Unasked(n) /\ Found(n) /\ n \in Names
    BY <1>2 DEF FoundInv
  <2>1. CASE IsOwn(t) /\ UNCHANGED <<registry, told>>
    <3>1. t \notin TopicsFor(n)
      <4>1. ASSUME t \in TopicsFor(n), endpoints[t] > 0 PROVE FALSE
        BY <2>0, <4>1 DEF Unasked
      <4>2. ASSUME t \in TopicsFor(n), NEW s \in Services, t = <<s, "REPLY">>,
                   endpoints[RequestOf(s)] > 0
            PROVE  FALSE
        <5>1. "REPLY" \in ServiceTopics /\ "REPLY" \notin ActionTopics
          BY DEF ServiceTopics, ActionTopics
        <5>2. s \in Parts(n)
          BY <4>2, <5>1 DEF TopicsFor, TopicsOf, Parts
        <5>3. endpoints[RequestOf(s)] = 0
          BY <2>0, <5>2, PartsLemma DEF Unasked
        <5> QED
          BY <4>2, <5>3
      <4> QED
        BY <2>1, <4>1, <4>2 DEF IsOwn
    <3>2. Frame(n)
      BY <1>0, <2>1, <3>1 DEF Frame, registry
    <3> QED
      BY <2>0, <3>2, FrameLemma
  <2>2. ASSUME NEW s \in PlainServices, NEW kind \in ServiceTopics,
               NEW odd \in SUBSET {kind}, t = <<s, kind>>, DiscoverPlain(s, kind, odd)
        PROVE  Unasked(n)' /\ Found(n)'
    <3>1. s \in Names /\ Parts(s) = {s} /\ t \in TopicsFor(s)
      BY <2>2, PartsLemma DEF Names
    <3>2. CASE n = s
      BY <1>0, <2>0, <2>2, <3>2, FoundPlain
    <3>3. CASE n # s
      <4>1. /\ \A z \in Services \ Parts(s) : services'[z] = services[z]
            /\ actions' = actions /\ told \subseteq told'
        BY <1>0, <2>2, <3>1 DEF DiscoverPlain, EntriesOK
      <4> QED
        BY <1>1, <3>1, <3>3, <4>1
    <3> QED
      BY <3>2, <3>3
  <2>3. ASSUME NEW a \in Actions, NEW k \in ActionServices, NEW kind \in ServiceTopics,
               t = <<<<a, k>>, kind>>, DiscoverActionService(a, k, kind)
        PROVE  Unasked(n)' /\ Found(n)'
    <3>1. a \in Names /\ <<a, k>> \in Parts(a) /\ t \in TopicsFor(a)
      BY <2>3, PartsLemma DEF Names
    <3>2. CASE n = a
      BY <1>0, <2>0, <2>3, <3>2, FoundActionService
    <3>3. CASE n # a
      <4>1. \A z \in Services \ Parts(a) : services'[z] = services[z]
        BY <1>0, <2>3, <3>1 DEF DiscoverActionService, EntriesOK
      <4>2. (\A b \in Actions : b # a => actions'[b] = actions[b]) /\ told \subseteq told'
        <5> DEFINE found == IF Completes(<<a, k>>, kind) THEN {k} ELSE {}
                   entry == [ActionEntry(a) EXCEPT !.services = @ \cup found]
        <5>1. entry \in ActionDiscovered
          BY <1>0, EntryLemma DEF ActionDiscovered
        <5>2. Checked(services', a, entry)
          BY <2>3 DEF DiscoverActionService
        <5> HIDE DEF entry
        <5> QED
          BY <1>0, <5>1, <5>2, CheckedLemma
      <4> QED
        BY <1>1, <3>1, <3>3, <4>1, <4>2
    <3> QED
      BY <3>2, <3>3
  <2>4. ASSUME NEW a \in Actions, NEW kind \in ActionTopics,
               t = <<a, kind>>, DiscoverActionTopic(a, kind)
        PROVE  Unasked(n)' /\ Found(n)'
    <3>1. a \in Names /\ t \in TopicsFor(a)
      BY <2>4, PartsLemma DEF Names
    <3>2. CASE n = a
      BY <1>0, <2>0, <2>4, <3>2, FoundActionTopic
    <3>3. CASE n # a
      <4>1. services' = services
        BY <2>4 DEF DiscoverActionTopic
      <4>2. (\A b \in Actions : b # a => actions'[b] = actions[b]) /\ told \subseteq told'
        <5> DEFINE entry == [ActionEntry(a) EXCEPT !.topics = @ \cup {kind}]
        <5>1. entry \in ActionDiscovered
          BY <1>0, EntryLemma DEF ActionDiscovered
        <5>2. Checked(services, a, entry)
          BY <2>4 DEF DiscoverActionTopic
        <5> HIDE DEF entry
        <5> QED
          BY <1>0, <5>1, <5>2, CheckedLemma
      <4> QED
        BY <1>1, <3>1, <3>3, <4>1, <4>2
    <3> QED
      BY <3>2, <3>3
  <2> QED
    BY <2>1, <2>2, <2>3, <2>4 DEF CreateReader
<1> QED
  BY <1>0, <1>2 DEF FoundInv

\* Every step keeps the invariant of the names that were never announced.
LEMMA FoundStep == IInv /\ FoundInv /\ [Next]_vars => FoundInv'
<1> SUFFICES ASSUME IInv, FoundInv, [Next]_vars PROVE FoundInv'
  OBVIOUS
<1>1. CASE ServiceCall
  BY <1>1, FoundServiceCall DEF ServiceCall
<1>2. CASE ActionCall
  BY <1>2, FoundActionCall DEF ActionCall
<1>3. ASSUME NEW c \in Callers, WaitTimesOut(c) PROVE FoundInv'
  <2>1. \A n \in Names : Frame(n)
    BY <1>3 DEF WaitTimesOut, Frame, registry
  <2>2. asked' = asked /\ call' = [call EXCEPT ![c] = Idle]
    BY <1>3 DEF WaitTimesOut
  <2>3. \A d \in Callers : call'[d] # Idle => call'[d].name \in asked'
    BY <2>2 DEF FoundInv, IInv, BaseInv, EntriesOK
  <2> QED
    BY <2>1, <2>2, <2>3, FrameLemma DEF FoundInv
<1>4. CASE UNCHANGED vars
  <2>1. \A n \in Names : Frame(n)
    BY <1>4 DEF vars, Frame
  <2> QED
    BY <1>4, <2>1, FrameLemma DEF FoundInv, vars
<1> QED
  BY <1>1, <1>2, <1>3, <1>4, FoundCreateReader DEF Next

\* Nothing has appeared at the start.
LEMMA FoundInit == Init => FoundInv
<1> SUFFICES ASSUME Init PROVE FoundInv
  OBVIOUS
<1>1. \A c \in Callers : call[c] = Idle
  BY DEF Init
<1>2. ASSUME NEW n \in Names PROVE Unasked(n) /\ Found(n)
  <2>1. /\ \A s \in Parts(n) : services[s] = NoEntry
        /\ n \in Actions => actions[n] = NoEntry
        /\ \A t \in TopicsFor(n) : endpoints[t] = 0
        /\ readers = {}
    BY PartsLemma DEF Init
  <2>2. /\ \A s \in Parts(n) : SeenTopics(s) = {}
        /\ \A x, kinds : Appeared(x, kinds) = {}
        /\ ServiceTopics # {} /\ ActionTopics # {}
    BY <2>1 DEF SeenTopics, Appeared, ServiceTopics, ActionTopics
  <2>3. Unasked(n)
    BY <2>1, PartsLemma DEF Unasked, Serves
  <2>4. n \in Actions => Linked(n) = {} /\ SeenOf(n) = {}
    BY <2>1 DEF Linked, SeenOf
  <2>5. n \in Actions => {k \in ActionServices : SeenTopics(<<n, k>>) = ServiceTopics} = {}
    BY <2>2, PartsLemma
  <2>6. n \in PlainServices => SeenTopics(n) # ServiceTopics
    BY <2>2, PartsLemma
  <2>7. Found(n)
    BY <2>2, <2>4, <2>5, <2>6 DEF Found
  <2> QED
    BY <2>3, <2>7
<1> QED
  BY <1>1, <1>2 DEF FoundInv

\* DiscoveredIsNotified (create_reader, service_discovered_nts_,
\* action_discovered_nts_): a service or action whose topics have all
\* appeared is notified, in whatever order they did.
THEOREM DiscoveredNotified == Spec => []DiscoveredIsNotified
<1>1. FoundInv => DiscoveredIsNotified
  <2> SUFFICES ASSUME FoundInv PROVE DiscoveredIsNotified
    OBVIOUS
  <2>1. ASSUME NEW s \in PlainServices \ asked, ({s} \X ServiceTopics) \subseteq readers
        PROVE  s \in told /\ services[s].external_server
    <3>1. Found(s) /\ s \in Parts(s)
      BY <2>1, PartsLemma DEF FoundInv, Names
    <3>2. Appeared(s, ServiceTopics) = ServiceTopics
      BY <2>1 DEF Appeared
    <3> QED
      BY <3>1, <3>2 DEF Found
  <2>2. ASSUME NEW a \in Actions \ asked, TopicsOf(a) \subseteq readers
        PROVE  a \in told /\ actions[a].external_server
    <3>1. Found(a) /\ \A k \in ActionServices : <<a, k>> \in Parts(a)
      BY <2>2, PartsLemma DEF FoundInv, Names
    <3>2. \A k \in ActionServices : Appeared(<<a, k>>, ServiceTopics) = ServiceTopics
      BY <2>2 DEF Appeared, TopicsOf
    <3>3. Appeared(a, ActionTopics) = ActionTopics
      BY <2>2 DEF Appeared, TopicsOf
    <3> QED
      BY <3>1, <3>2, <3>3 DEF Found
  <2> QED
    BY <2>1, <2>2 DEF DiscoveredIsNotified
<1> QED
  BY <1>1, FoundInit, FoundStep, AlwaysIInv, PTL DEF Spec

-----------------------------------------------------------------------------
(* The requests and their replies.                                         *)

\* No identifier is beyond the counter.
CountedInv ==
    /\ \A r \in sent \cup refused \cup received : r.id <= requests_id
    /\ \A c \in Senders : sending[c] # NotSending => sending[c].id <= requests_id
    /\ answered \subseteq sent

\* The topic of the replies is known, will be once a call stops waiting, or
\* an endpoint was lost.
Answerable(s) ==
    \/ RequestOf(s) \in lost
    \/ Waiting(RequestOf(s)) # {}
    \/ services[s] # NoEntry /\ "REPLY" \in services[s].topics

AnswerInv == \A r \in received : Answerable(r.service)

\* What an entry has of another type than the announced has appeared so, and
\* has its reader still.
TypesInv ==
    \A s \in PlainServices :
        services[s] # NoEntry /\ "REPLY" \in services[s].foreign => <<s, "REPLY">> \in foreign

CInv == IInv /\ TypesInv /\ CallTypeOK /\ CountedInv /\ RequestIdsDiffer /\ AnswerInv

-----------------------------------------------------------------------------
(* The registry beside the requests.                                       *)

\* A step of a sender or a delivery leaves the registry as it is.
LEMMA CallsLeaveRegistry == [CallNext]_callVars => [Next]_vars
BY DEF CallNext, callVars, RegistryStep, DrawRequestId, PublishRequest, ReadProtocol,
       PublishReply, ReceiveRequest, ReceiveReply

\* ServiceCalls implements ServiceRegistry: every step is a step of it or
\* leaves it as it is, so that requests and replies disturb no endpoint.
THEOREM CallsImplementRegistry == CallSpec => Spec
<1>1. CallInit => Init
  BY DEF CallInit
<1> QED
  BY <1>1, CallsLeaveRegistry, PTL DEF CallSpec, Spec

-----------------------------------------------------------------------------
(* What a discovery, an announcement or a revocation leaves answerable.    *)

\* A thread that waits for the reader of a service goes on waiting, records
\* the service or loses the endpoint.
LEMMA WaitEnds ==
    ASSUME IInv, Next, NEW s \in PlainServices, NEW c \in Callers,
           call[c].topic = RequestOf(s), call'[c].topic # RequestOf(s)
    PROVE  RequestOf(s) \in lost' \/ services'[s] = AnnouncedService(c)
<1>1. s \in Services /\ s \notin Actions \X ActionServices /\ call[c] # Idle
  BY TopicsDiffer, RegistryAssumption DEF Services
<1>2. call'[c] # call[c] /\ call \in [Callers -> {Idle} \cup [name : Names, topic : Topics]]
  BY DEF IInv, BaseInv, EntriesOK
<1>3. ASSUME NEW d \in Callers, NEW e, call' = [call EXCEPT ![d] = e] PROVE d = c
  BY <1>2, <1>3
<1>4. ASSUME NEW t \in Topics, CreateReader(t) PROVE FALSE
  BY <1>2, <1>4 DEF CreateReader
<1>5. ASSUME NEW d \in Callers, NEW z \in PlainServices,
             AnnounceService(d, z) \/ RevokeService(d, z)
      PROVE  FALSE
  BY <1>1, <1>2, <1>3, <1>5
     DEF AnnounceService, AnnounceKnownService, AnnounceNewService, AnnounceRefused,
         RevokeService, RevokeRefused, Announces, MakesCall, WaitsFor
<1>6. ASSUME NEW d \in Callers, NEW z \in PlainServices, ServiceAnnounced(d, z)
      PROVE  services'[s] = AnnouncedService(c)
  <2>1. d = c /\ z = s
    BY <1>3, <1>6, TopicsDiffer DEF ServiceAnnounced
  <2> QED
    BY <1>1, <1>6, <2>1 DEF ServiceAnnounced, IInv, BaseInv, EntriesOK
<1>7. ASSUME NEW d \in Callers, NEW a \in Actions, AnnounceAction(d, a) \/ RevokeAction(d, a)
      PROVE  FALSE
  <2>1. call[d] = Idle
    BY <1>7 DEF AnnounceAction, AnnounceRefused, AnnounceKnownAction, AnnounceNewAction,
                RevokeAction, RevokeRefused, Announces, MakesCall
  <2>2. \/ UNCHANGED call
        \/ \E e : call' = [call EXCEPT ![d] = e]
    BY <1>7 DEF AnnounceAction, AnnounceRefused, AnnounceKnownAction, AnnounceNewAction,
                RevokeAction, RevokeRefused, WaitsFor
  <2> QED
    BY <1>1, <1>2, <1>3, <2>1, <2>2
<1>8. ASSUME NEW d \in Callers, NEW a \in Actions, ContinueAction(d, a) PROVE FALSE
  <2>1. \E e : call' = [call EXCEPT ![d] = e]
    BY <1>8 DEF ContinueAction, ServiceInserted, ResultInserted, FeedbackReady, StatusReady,
                StatusAndEnd, Fails, WaitsFor
  <2>2. \/ \E k \in ActionServices : call[d].topic = RequestOf(<<a, k>>)
        \/ \E k \in ActionTopics : call[d].topic = <<a, k>>
    BY <1>8 DEF ContinueAction, ServiceInserted, ResultInserted, FeedbackReady, StatusReady,
                ActionServices, ActionTopics
  <2>3. d = c
    BY <1>3, <2>1
  <2>4. \A k \in ActionServices : RequestOf(s) # RequestOf(<<a, k>>)
    <3>1. \A k \in ActionServices : <<a, k>> \in Actions \X ActionServices
      OBVIOUS
    <3> QED
      BY <1>1, <3>1, TopicsDiffer
  <2>5. \A k \in ActionTopics : RequestOf(s) # <<a, k>>
    BY TopicsDiffer
  <2> QED
    BY <2>2, <2>3, <2>4, <2>5
<1>9. ASSUME NEW d \in Callers, WaitTimesOut(d) PROVE RequestOf(s) \in lost'
  <2>1. d = c
    BY <1>3, <1>9 DEF WaitTimesOut
  <2> QED
    BY <1>9, <2>1 DEF WaitTimesOut
<1> QED
  BY <1>4, <1>5, <1>6, <1>7, <1>8, <1>9 DEF Next, ServiceCall, ActionCall

\* An endpoint that was lost stays so.
LEMMA LostGrows ==
    ASSUME Next PROVE lost \subseteq lost'
<1>1. ASSUME NEW t \in Topics, CreateReader(t) PROVE lost \subseteq lost'
  BY <1>1 DEF CreateReader
<1>2. ASSUME NEW c \in Callers, NEW s \in PlainServices,
             AnnounceService(c, s) \/ ServiceAnnounced(c, s) \/ RevokeService(c, s)
      PROVE  lost \subseteq lost'
  BY <1>2 DEF AnnounceService, AnnounceKnownService, AnnounceNewService, AnnounceRefused,
              ServiceAnnounced, RevokeService, RevokeRefused, ghosts
<1>3. ASSUME NEW c \in Callers, NEW a \in Actions, AnnounceAction(c, a) \/ RevokeAction(c, a)
      PROVE  lost \subseteq lost'
  BY <1>3 DEF AnnounceAction, AnnounceKnownAction, AnnounceNewAction, AnnounceRefused,
              RevokeAction, RevokeRefused, ghosts
<1>4. ASSUME NEW c \in Callers, NEW a \in Actions, ContinueAction(c, a)
      PROVE  lost \subseteq lost'
  BY <1>4 DEF ContinueAction, ServiceInserted, ResultInserted, FeedbackReady, StatusReady, Insert
<1>5. ASSUME NEW c \in Callers, WaitTimesOut(c) PROVE lost \subseteq lost'
  BY <1>5 DEF WaitTimesOut
<1> QED
  BY <1>1, <1>2, <1>3, <1>4, <1>5 DEF Next, ServiceCall, ActionCall

\* A topic of replies that is known stays known.
LEMMA ReplyTopicStays ==
    ASSUME IInv, Next, NEW s \in PlainServices, services[s] # NoEntry,
           "REPLY" \in services[s].topics
    PROVE  services'[s] # NoEntry /\ "REPLY" \in services'[s].topics
<1>1. s \in Services /\ EntriesOK /\ ServiceInv /\ services[s] \in ServiceDiscovered
  BY DEF Services, IInv, BaseInv, EntriesOK
<1>2. CASE services'[s] = services[s]
  BY <1>2
<1>3. ASSUME NEW c \in Callers, services'[s] = AnnouncedService(c)
      PROVE  services'[s] # NoEntry /\ "REPLY" \in services'[s].topics
  BY <1>3, AnnouncedServiceType, RegistryAssumption DEF AnnouncedService, ServiceTopics
<1>4. CASE services'[s] = [services[s] EXCEPT !.enabler_as_server = TRUE]
  <2>1. services'[s] \in ServiceDiscovered /\ services'[s].topics = services[s].topics
    BY <1>1, <1>4 DEF ServiceDiscovered
  <2> QED
    BY <2>1, RegistryAssumption
<1>5. CASE services'[s] = RevokedService(services[s])
  <2>1. services'[s] \in ServiceDiscovered /\ "REPLY" \in services'[s].topics
    BY <1>1, <1>5 DEF RevokedService, ServiceDiscovered
  <2> QED
    BY <2>1, RegistryAssumption
<1>6. ASSUME NEW kind \in ServiceTopics, NEW odd \in SUBSET {kind},
             services'[s] = ServiceWithTopic(s, kind, odd)
      PROVE  services'[s] # NoEntry /\ "REPLY" \in services'[s].topics
  <2>1. ServiceWithTopic(s, kind, odd) \in ServiceDiscovered
    BY <1>1, WithTopicLemma
  <2>2. services[s].topics \subseteq ServiceWithTopic(s, kind, odd).topics
    BY <1>1 DEF ServiceWithTopic, ServiceEntry, ServiceDiscovered
  <2> QED
    BY <1>6, <2>1, <2>2, RegistryAssumption
<1>7. ASSUME NEW t \in Topics, CreateReader(t)
      PROVE  \/ services'[s] = services[s]
             \/ \E kind \in ServiceTopics : \E odd \in SUBSET {kind} :
                   services'[s] = ServiceWithTopic(s, kind, odd)
  BY <1>1, <1>7, DiscoveryCases DEF EntriesOK
<1>8. ASSUME NEW c \in Callers, NEW z \in PlainServices,
             AnnounceService(c, z) \/ ServiceAnnounced(c, z) \/ RevokeService(c, z)
      PROVE  \/ services'[s] = services[s]
             \/ services'[s] = AnnouncedService(c)
             \/ services'[s] = [services[s] EXCEPT !.enabler_as_server = TRUE]
             \/ services'[s] = RevokedService(services[s])
  <2>1. z # s => services'[s] = services[s]
    BY <1>1, <1>8, ServiceCallServices
  <2>2. ASSUME z = s, AnnounceService(c, z)
        PROVE  \/ services'[s] = services[s]
               \/ services'[s] = [services[s] EXCEPT !.enabler_as_server = TRUE]
    BY <1>1, <2>2 DEF AnnounceService, AnnounceKnownService, AnnounceNewService,
                      AnnounceRefused, registry, EntriesOK
  <2>3. ASSUME z = s, ServiceAnnounced(c, z) PROVE services'[s] = AnnouncedService(c)
    BY <1>1, <2>3 DEF ServiceAnnounced, EntriesOK
  <2>4. ASSUME z = s, RevokeService(c, z)
        PROVE  \/ services'[s] = services[s]
               \/ services'[s] = RevokedService(services[s])
    BY <1>1, <2>4 DEF RevokeService, RevokeRefused, RevokeServices, registry
  <2> QED
    BY <1>8, <2>1, <2>2, <2>3, <2>4
<1>9. ASSUME NEW c \in Callers, NEW a \in Actions,
             AnnounceAction(c, a) \/ ContinueAction(c, a) \/ RevokeAction(c, a)
      PROVE  services'[s] = services[s]
  BY <1>1, <1>9, ActionCallPlain
<1>10. ASSUME NEW c \in Callers, WaitTimesOut(c) PROVE services'[s] = services[s]
  BY <1>10 DEF WaitTimesOut, registry
<1> QED
  BY <1>2, <1>3, <1>4, <1>5, <1>6, <1>7, <1>8, <1>9, <1>10 DEF Next, ServiceCall, ActionCall

\* What appears with another type is recorded so, and only the topics of
\* requests are removed.
LEMMA TypesStay ==
    ASSUME IInv, TypesInv, Next
    PROVE  TypesInv'
<1> SUFFICES ASSUME NEW s \in PlainServices,
                    services'[s] # NoEntry, "REPLY" \in services'[s].foreign
             PROVE  <<s, "REPLY">> \in foreign'
  BY DEF TypesInv
<1>1. s \in Services /\ EntriesOK /\ services[s] \in ServiceDiscovered \cup {NoEntry}
  BY DEF Services, IInv, BaseInv, EntriesOK
<1>2. \A z : <<s, "REPLY">> # RequestOf(z)
  BY DEF RequestOf
<1>3. CASE services'[s] = services[s] /\ foreign' = foreign
  BY <1>3 DEF TypesInv
<1>4. ASSUME NEW ss, RevokeServices(ss), s \notin ss \/ services[s] \in ServiceDiscovered
      PROVE  <<s, "REPLY">> \in foreign'
  <2>1. foreign' = foreign \ {RequestOf(z) : z \in Stopped(ss)}
        /\ services'[s] = IF s \in ss THEN RevokedService(services[s]) ELSE services[s]
    BY <1>1, <1>4 DEF RevokeServices
  <2>2. services[s] \in ServiceDiscovered =>
            RevokedService(services[s]).foreign \subseteq services[s].foreign
    BY DEF RevokedService, ServiceDiscovered
  <2>3. services[s] # NoEntry /\ "REPLY" \in services[s].foreign
    BY <1>4, <2>1, <2>2, RegistryAssumption
  <2> QED
    BY <1>2, <2>1, <2>3 DEF TypesInv
<1>5. ASSUME NEW t \in Topics, CreateReader(t) PROVE <<s, "REPLY">> \in foreign'
  <2>1. ASSUME NEW z \in PlainServices, NEW kind \in ServiceTopics, NEW odd \in SUBSET {kind},
               DiscoverPlain(z, kind, odd)
        PROVE  <<s, "REPLY">> \in foreign'
    <3>1. CASE z # s
      BY <1>1, <2>1, <3>1 DEF DiscoverPlain, EntriesOK, TypesInv
    <3>2. CASE z = s
      <4>1. ServiceEntry(s) \in ServiceDiscovered
        BY <1>1 DEF ServiceEntry, NewService, ServiceDiscovered
      <4>2. services'[s] = ServiceWithTopic(s, kind, odd)
        BY <1>1, <2>1, <3>2 DEF DiscoverPlain, EntriesOK
      <4>3. "REPLY" \in ServiceEntry(s).foreign \/ "REPLY" \in odd
        BY <4>1, <4>2 DEF ServiceWithTopic, ServiceDiscovered
      <4>4. "REPLY" \in ServiceEntry(s).foreign => <<s, "REPLY">> \in foreign
        BY DEF ServiceEntry, NewService, TypesInv
      <4> QED
        BY <2>1, <3>2, <4>3, <4>4 DEF DiscoverPlain
    <3> QED
      BY <3>1, <3>2
  <2>2. ASSUME NEW a \in Actions, NEW k \in ActionServices, NEW kind \in ServiceTopics,
               DiscoverActionService(a, k, kind), UNCHANGED foreign
        PROVE  <<s, "REPLY">> \in foreign'
    <3>1. s # <<a, k>>
      BY RegistryAssumption
    <3> QED
      BY <1>1, <1>3, <2>2, <3>1 DEF DiscoverActionService, EntriesOK
  <2> QED
    BY <1>3, <1>5, <2>1, <2>2 DEF CreateReader, DiscoverActionTopic, registry
<1>6. ASSUME NEW c \in Callers, NEW z \in PlainServices,
             AnnounceService(c, z) \/ ServiceAnnounced(c, z) \/ RevokeService(c, z)
      PROVE  <<s, "REPLY">> \in foreign'
  <2>1. CASE AnnounceService(c, z) \/ RevokeRefused(c, z)
    <3>1. /\ foreign' = foreign
          /\ \/ services'[s] = services[s]
             \/ /\ services[s] # NoEntry
                /\ services'[s] = [services[s] EXCEPT !.enabler_as_server = TRUE]
      BY <1>1, <2>1 DEF AnnounceService, AnnounceKnownService, AnnounceNewService,
                        AnnounceRefused, RevokeRefused, registry, EntriesOK
    <3>2. services[s] # NoEntry =>
              [services[s] EXCEPT !.enabler_as_server = TRUE].foreign = services[s].foreign
      BY <1>1 DEF ServiceDiscovered
    <3> QED
      BY <1>3, <3>1, <3>2 DEF TypesInv
  <2>2. CASE ServiceAnnounced(c, z)
    <3>1. services'[s] = services[s] \/ services'[s] = AnnouncedService(c)
      BY <1>1, <2>2 DEF ServiceAnnounced, EntriesOK
    <3>2. AnnouncedService(c).foreign = {} /\ foreign' = foreign
      BY <2>2 DEF AnnouncedService, ServiceAnnounced
    <3> QED
      BY <1>3, <3>1, <3>2
  <2>3. CASE Revocable(z) /\ RevokeServices({z})
    BY <1>1, <1>4, <2>3 DEF Revocable
  <2> QED
    BY <1>6, <2>1, <2>2, <2>3 DEF RevokeService
<1>7. ASSUME NEW c \in Callers, NEW a \in Actions,
             AnnounceAction(c, a) \/ ContinueAction(c, a) \/ RevokeAction(c, a)
      PROVE  <<s, "REPLY">> \in foreign'
  <2>1. services'[s] = services[s]
    BY <1>1, <1>7, ActionCallPlain
  <2>2. CASE foreign' = foreign
    BY <1>3, <2>1, <2>2
  <2>3. CASE RevokeServices(RevokedParts(a))
    <3>1. s \notin RevokedParts(a)
      BY RevokedPartsLemma, RegistryAssumption
    <3> QED
      BY <1>4, <2>3, <3>1
  <2> QED
    BY <1>7, <2>2, <2>3
       DEF AnnounceAction, AnnounceRefused, AnnounceKnownAction, AnnounceNewAction,
           ContinueAction, ServiceInserted, ResultInserted, FeedbackReady, StatusReady,
           RevokeAction, RevokeRefused, RevocationIsFlag, RevocationOfServices
<1>8. ASSUME NEW c \in Callers, WaitTimesOut(c) PROVE <<s, "REPLY">> \in foreign'
  BY <1>3, <1>8 DEF WaitTimesOut, registry
<1> QED
  BY <1>5, <1>6, <1>7, <1>8 DEF Next, ServiceCall, ActionCall

\* A service that is answerable stays so.
LEMMA AnswerableStays ==
    ASSUME IInv, Next, NEW s \in PlainServices, Answerable(s)
    PROVE  Answerable(s)'
<1>1. CASE RequestOf(s) \in lost
  BY <1>1, LostGrows DEF Answerable
<1>2. ASSUME NEW c \in Waiting(RequestOf(s)) PROVE Answerable(s)'
  <2>1. c \in Callers /\ call[c].topic = RequestOf(s)
    BY <1>2 DEF Waiting
  <2>2. CASE call'[c].topic = RequestOf(s)
    BY <2>1, <2>2 DEF Answerable, Waiting
  <2>3. CASE call'[c].topic # RequestOf(s)
    <3>1. RequestOf(s) \in lost' \/ services'[s] = AnnouncedService(c)
      BY <2>1, <2>3, WaitEnds
    <3>2. AnnouncedService(c) # NoEntry /\ "REPLY" \in AnnouncedService(c).topics
      BY <2>1, AnnouncedServiceType DEF AnnouncedService, ServiceTopics
    <3> QED
      BY <3>1, <3>2 DEF Answerable
  <2> QED
    BY <2>2, <2>3
<1>3. CASE services[s] # NoEntry /\ "REPLY" \in services[s].topics
  BY <1>3, ReplyTopicStays DEF Answerable
<1> QED
  BY <1>1, <1>2, <1>3 DEF Answerable

\* A service with an endpoint in the database is answerable.
LEMMA EndpointAnswerable ==
    ASSUME IInv, NEW s \in PlainServices, endpoints[RequestOf(s)] > 0
    PROVE  Answerable(s)
<1>1. s \in Services
  BY DEF Services
<1>2. CASE RequestOf(s) \notin lost /\ Waiting(RequestOf(s)) = {}
  <2>1. W(RequestOf(s)) = 0
    BY <1>2, FS_EmptySet DEF W
  <2>2. endpoints[RequestOf(s)] = W(RequestOf(s)) + Own(s)
    BY <1>1, <1>2 DEF IInv, BaseInv, CountInv
  <2>3. HasEndpoint(s)
    BY <2>1, <2>2 DEF Own
  <2> QED
    BY <1>1, <2>3 DEF Answerable, IInv, BaseInv, ServiceInv, HasEndpoint, ServiceTopics
<1> QED
  BY <1>2 DEF Answerable

-----------------------------------------------------------------------------
(* The invariant, step by step.                                            *)

\* What a sender is about to publish is a request or a reply.
LEMMA SendingType ==
    ASSUME CallTypeOK, NEW c \in Senders, sending[c] # NotSending
    PROVE  /\ sending[c] \in Sending
           /\ Sent(c) \in Request /\ Sent(c).id = sending[c].id
           /\ Sent(c).service = sending[c].service
BY DEF CallTypeOK, Sending, Request, Sent

\* The registry's own steps.
LEMMA RegistryStepInv ==
    ASSUME CInv, RegistryStep
    PROVE  CInv'
<1>1. IInv' /\ TypesInv'
  BY NextIInv, TypesStay DEF CInv, RegistryStep
<1>2. CallTypeOK' /\ CountedInv' /\ RequestIdsDiffer'
  BY DEF CInv, RegistryStep, exchange, CallTypeOK, CountedInv, RequestIdsDiffer, Asking, Ids
<1>3. ASSUME NEW r \in received PROVE Answerable(r.service)'
  <2>1. r.service \in PlainServices
    BY DEF CInv, CallTypeOK, Request
  <2> QED
    BY <2>1, AnswerableStays DEF CInv, AnswerInv, RegistryStep
<1>4. AnswerInv'
  BY <1>3 DEF AnswerInv, RegistryStep, exchange
<1> QED
  BY <1>1, <1>2, <1>4 DEF CInv

\* A step that leaves the registry leaves what is proved of it.
LEMMA RegistryFrame ==
    ASSUME CInv, UNCHANGED vars
    PROVE  IInv' /\ TypesInv' /\ \A s : Answerable(s)' = Answerable(s)
BY NextIInv DEF CInv, vars, TypesInv, Answerable, Waiting

\* An identifier is drawn: it is beyond all others.
LEMMA DrawInv ==
    ASSUME CInv, NEW c \in Senders, NEW s \in PlainServices, DrawRequestId(c, s)
    PROVE  CInv'
<1>1. IInv' /\ TypesInv' /\ AnswerInv'
  BY RegistryFrame DEF CInv, AnswerInv, DrawRequestId
<1> DEFINE new == [kind |-> "REQUEST", service |-> s, id |-> requests_id + 1]
<1>2. new \in Sending /\ requests_id \in Nat /\ new # NotSending
  BY DEF CInv, CallTypeOK, Sending, ServiceTopics, NotSending
<1>3. \A d \in Senders : sending'[d] = IF d = c THEN new ELSE sending[d]
  BY DEF DrawRequestId, CInv, CallTypeOK
<1>4. CallTypeOK'
  BY <1>2 DEF DrawRequestId, CInv, CallTypeOK
<1>5. \A r \in sent \cup refused \cup received : r.id \in Nat /\ r.id <= requests_id
  BY DEF CInv, CallTypeOK, CountedInv, Request
<1>6. \A d \in Senders : sending[d] # NotSending =>
          sending[d].id \in Nat /\ sending[d].id <= requests_id
  BY SendingType DEF CInv, CountedInv, Sending
<1>7. CountedInv'
  <2>1. \A r \in sent \cup refused \cup received : r.id <= requests_id + 1
    BY <1>2, <1>5
  <2>2. \A d \in Senders : sending'[d] # NotSending => sending'[d].id <= requests_id + 1
    BY <1>2, <1>3, <1>6
  <2> QED
    BY <2>1, <2>2 DEF DrawRequestId, CInv, CountedInv
<1>8. \A d \in Senders : Asking(d)' = IF d = c THEN {requests_id + 1} ELSE Asking(d)
  BY <1>3 DEF Asking
<1>9. \A d \in Senders : requests_id + 1 \notin Asking(d)
  BY <1>2, <1>6 DEF Asking, NotSending
<1>10. requests_id + 1 \notin Ids(sent \cup refused \cup received)
  BY <1>2, <1>5 DEF Ids
<1>11. RequestIdsDiffer'
  BY <1>8, <1>9, <1>10 DEF RequestIdsDiffer, CInv, DrawRequestId
<1> QED
  BY <1>1, <1>4, <1>7, <1>11 DEF CInv

\* What a sender was about to send is sent or refused, under its identifier.
LEMMA PublishInv ==
    ASSUME CInv, NEW c \in Senders, PublishRequest(c)
    PROVE  CInv'
<1>1. IInv' /\ TypesInv' /\ AnswerInv'
  BY RegistryFrame DEF CInv, AnswerInv, PublishRequest
<1>2. sending[c] # NotSending
  BY DEF PublishRequest, NotSending
<1>3. Sent(c) \in Request /\ Sent(c).id = sending[c].id /\ sending[c].id <= requests_id
  BY <1>2, SendingType DEF CInv, CountedInv
<1>4. \A d \in Senders : sending'[d] = IF d = c THEN NotSending ELSE sending[d]
  BY DEF PublishRequest, CInv, CallTypeOK
<1>5. CallTypeOK'
  BY <1>3 DEF PublishRequest, CInv, CallTypeOK
<1>6. \/ sent' = sent \cup {Sent(c)} /\ refused' = refused
      \/ refused' = refused \cup {Sent(c)} /\ sent' = sent
  BY DEF PublishRequest
<1>7. CountedInv'
  <2>1. \A r \in sent' \cup refused' \cup received : r.id <= requests_id
    BY <1>3, <1>6 DEF CInv, CountedInv
  <2>2. \A d \in Senders : sending'[d] # NotSending => sending'[d].id <= requests_id
    BY <1>4 DEF CInv, CountedInv
  <2> QED
    BY <1>6, <2>1, <2>2 DEF PublishRequest, CInv, CountedInv
<1>8. Asking(c) = {Sent(c).id}
  BY <1>3 DEF PublishRequest, Asking
<1>9. \A d \in Senders : Asking(d)' = IF d = c THEN {} ELSE Asking(d)
  BY <1>4 DEF Asking, NotSending
<1>10. Sent(c).id \notin Ids(sent \cup refused \cup received)
  BY <1>8 DEF CInv, RequestIdsDiffer
<1>11. Sent(c) \notin sent \cup refused \cup received
  BY <1>10 DEF Ids
<1>12. sent' \cup refused' \cup received = (sent \cup refused \cup received) \cup {Sent(c)}
  BY <1>6
<1>13. /\ \A q, r \in sent' \cup refused' \cup received : q.id = r.id => q = r
       /\ sent' \cap refused' = {} /\ (sent' \cup refused') \cap received = {}
  <2>1. \A q \in sent \cup refused \cup received : q.id # Sent(c).id
    BY <1>10 DEF Ids
  <2>2. \A q, r \in sent' \cup refused' \cup received : q.id = r.id => q = r
    BY <1>12, <2>1 DEF CInv, RequestIdsDiffer
  <2> QED
    BY <1>6, <1>11, <2>2 DEF CInv, RequestIdsDiffer
<1>14. Ids(sent' \cup refused' \cup received) = Ids(sent \cup refused \cup received) \cup {Sent(c).id}
  BY <1>12 DEF Ids
<1>15. ASSUME NEW d \in Senders
       PROVE  /\ Asking(d)' \cap Ids(sent' \cup refused' \cup received) = {}
              /\ \A e \in Senders \ {d} : Asking(d)' \cap Asking(e)' = {}
  <2>1. CASE d = c
    BY <1>9, <2>1
  <2>2. CASE d # c
    <3>1. /\ Asking(d)' = Asking(d) /\ Sent(c).id \notin Asking(d)
          /\ Asking(d) \cap Ids(sent \cup refused \cup received) = {}
      BY <1>8, <1>9, <2>2 DEF CInv, RequestIdsDiffer
    <3>2. \A e \in Senders \ {d} : Asking(d) \cap Asking(e) = {}
      BY DEF CInv, RequestIdsDiffer
    <3>3. \A e \in Senders \ {d} : Asking(d)' \cap Asking(e)' = {}
      BY <1>9, <3>1, <3>2
    <3>4. Asking(d)' \cap Ids(sent' \cup refused' \cup received) = {}
      BY <1>14, <3>1
    <3> QED
      BY <3>3, <3>4
  <2> QED
    BY <2>1, <2>2
<1>16. received' = received
  BY DEF PublishRequest
<1>17. RequestIdsDiffer'
  BY <1>13, <1>15, <1>16 DEF RequestIdsDiffer, Ids
<1> QED
  BY <1>1, <1>5, <1>7, <1>17 DEF CInv

\* A reply draws no identifier.
LEMMA ReplyInv ==
    ASSUME CInv, NEW c \in Senders, ReadProtocol(c) \/ PublishReply(c)
    PROVE  CInv'
<1>1. IInv' /\ TypesInv' /\ AnswerInv'
  BY RegistryFrame DEF CInv, AnswerInv, ReadProtocol, PublishReply
<1>2. PICK new \in Sending \cup {NotSending} :
          /\ sending' = [sending EXCEPT ![c] = new]
          /\ new # NotSending => \E r \in received : new.id = r.id
          /\ new.kind # "REQUEST"
  <2> DEFINE Reply(r) == [kind |-> "REPLY", service |-> r.service, id |-> r.id]
  <2>1. ASSUME NEW r \in received
        PROVE  Reply(r) \in Sending /\ Reply(r).id = r.id /\ Reply(r).kind # "REQUEST"
    BY DEF CInv, CallTypeOK, Request, Sending, ServiceTopics
  <2>2. CASE ReadProtocol(c)
    <3>1. PICK r \in received : sending' = [sending EXCEPT ![c] = Reply(r)]
      BY <2>2 DEF ReadProtocol
    <3> HIDE DEF Reply
    <3> QED
      BY <2>1, <3>1
  <2>3. CASE PublishReply(c)
    <3>1. sending' = [sending EXCEPT ![c] = NotSending] /\ NotSending.kind # "REQUEST"
      BY <2>3 DEF PublishReply, NotSending
    <3> QED
      BY <3>1
  <2> QED
    BY <2>2, <2>3
<1>3. sending[c].kind # "REQUEST"
  BY DEF ReadProtocol, PublishReply, NotSending
<1>4. \A d \in Senders : sending'[d] = IF d = c THEN new ELSE sending[d]
  BY <1>2 DEF CInv, CallTypeOK
<1>5. UNCHANGED <<requests_id, sent, refused, received, answered>>
  BY DEF ReadProtocol, PublishReply
<1>6. replied' \subseteq Request
  BY SendingType DEF ReadProtocol, PublishReply, CInv, CallTypeOK, NotSending
<1>7. CallTypeOK'
  BY <1>2, <1>5, <1>6 DEF CInv, CallTypeOK
<1>8. CountedInv'
  BY <1>2, <1>4, <1>5 DEF CInv, CountedInv
<1>9. \A d \in Senders : Asking(d)' = Asking(d)
  BY <1>2, <1>3, <1>4 DEF Asking
<1>10. RequestIdsDiffer'
  BY <1>5, <1>9 DEF CInv, RequestIdsDiffer, Ids
<1> QED
  BY <1>1, <1>7, <1>8, <1>10 DEF CInv

\* A request that is delivered has an identifier of its own, and an endpoint.
LEMMA ReceiveInv ==
    ASSUME CInv, NEW s \in PlainServices, ReceiveRequest(s)
    PROVE  CInv'
<1> DEFINE new == [service |-> s, id |-> requests_id + 1]
<1>1. new \in Request /\ requests_id \in Nat
  BY DEF CInv, CallTypeOK, Request
<1>2. CallTypeOK'
  BY <1>1 DEF ReceiveRequest, CInv, CallTypeOK
<1>3. \A r \in sent \cup refused \cup received : r.id \in Nat /\ r.id <= requests_id
  BY DEF CInv, CallTypeOK, CountedInv, Request
<1>4. \A d \in Senders : sending[d] # NotSending =>
          sending[d].id \in Nat /\ sending[d].id <= requests_id
  BY SendingType DEF CInv, CountedInv, Sending
<1>5. CountedInv'
  <2>1. \A r \in sent \cup refused \cup received \cup {new} : r.id <= requests_id + 1
    BY <1>1, <1>3
  <2>2. \A d \in Senders : sending[d] # NotSending => sending[d].id <= requests_id + 1
    BY <1>1, <1>4
  <2> QED
    BY <2>1, <2>2 DEF ReceiveRequest, CInv, CountedInv
<1>6. RequestIdsDiffer'
  <2> DEFINE all == sent \cup refused \cup received
  <2>1. \A q \in all : q.id # new.id
    BY <1>1, <1>3
  <2>2. \A q, r \in all \cup {new} : q.id = r.id => q = r
    BY <2>1 DEF CInv, RequestIdsDiffer
  <2>3. \A d \in Senders : new.id \notin Asking(d)
    BY <1>1, <1>4 DEF Asking, NotSending
  <2>4. Ids(all \cup {new}) = Ids(all) \cup {new.id}
    BY DEF Ids
  <2>5. \A d \in Senders : Asking(d) \cap Ids(all \cup {new}) = {}
    BY <2>3, <2>4 DEF CInv, RequestIdsDiffer
  <2>6. /\ sent' = sent /\ refused' = refused /\ received' = received \cup {new}
        /\ sending' = sending
    BY DEF ReceiveRequest
  <2>7. sent \cup refused \cup (received \cup {new}) = all \cup {new}
    OBVIOUS
  <2>8. new \notin all
    BY <2>1
  <2>9. \A d \in Senders : Asking(d)' = Asking(d)
    BY <2>6 DEF Asking
  <2> HIDE DEF new
  <2>10. (sent \cup refused) \cap (received \cup {new}) = {} /\ sent \cap refused = {}
    BY <2>8 DEF CInv, RequestIdsDiffer
  <2>11. \A d \in Senders : \A e \in Senders \ {d} : Asking(d) \cap Asking(e) = {}
    BY DEF CInv, RequestIdsDiffer
  <2> QED
    BY <2>2, <2>5, <2>6, <2>7, <2>9, <2>10, <2>11 DEF RequestIdsDiffer, Ids
<1>7. IInv' /\ TypesInv' /\ AnswerInv'
  <2>1. Answerable(s)
    BY EndpointAnswerable DEF ReceiveRequest, CInv
  <2>2. \A r \in received' : Answerable(r.service)
    BY <2>1 DEF ReceiveRequest, CInv, AnswerInv
  <2>3. IInv' /\ TypesInv' /\ \A z : Answerable(z)' = Answerable(z)
    BY RegistryFrame DEF ReceiveRequest
  <2> QED
    BY <2>2, <2>3 DEF AnswerInv
<1> QED
  BY <1>2, <1>5, <1>6, <1>7 DEF CInv

\* A reply that is delivered changes nothing of this.
LEMMA ReceiveReplyInv ==
    ASSUME CInv, ReceiveReply
    PROVE  CInv'
<1>1. IInv' /\ TypesInv' /\ AnswerInv'
  BY RegistryFrame DEF CInv, AnswerInv, ReceiveReply
<1>2. CallTypeOK' /\ CountedInv'
  BY DEF ReceiveReply, CInv, CallTypeOK, CountedInv
<1>3. RequestIdsDiffer'
  BY DEF ReceiveReply, CInv, RequestIdsDiffer, Asking, Ids
<1> QED
  BY <1>1, <1>2, <1>3 DEF CInv

\* The invariant holds at the start and is kept.
LEMMA AlwaysCInv == CallSpec => []CInv
<1>1. CallInit => CInv
  <2> SUFFICES ASSUME CallInit PROVE CInv
    OBVIOUS
  <2>1. IInv
    BY InitIInv DEF CallInit
  <2>2. TypesInv /\ CallTypeOK /\ CountedInv /\ AnswerInv
    BY DEF CallInit, Init, TypesInv, Services, CallTypeOK, CountedInv, AnswerInv
  <2>3. \A c \in Senders : Asking(c) = {}
    BY DEF CallInit, Asking, NotSending
  <2>4. RequestIdsDiffer
    BY <2>3 DEF CallInit, RequestIdsDiffer
  <2> QED
    BY <2>1, <2>2, <2>4 DEF CInv
<1>2. CInv /\ [CallNext]_callVars => CInv'
  <2> SUFFICES ASSUME CInv, [CallNext]_callVars PROVE CInv'
    OBVIOUS
  <2>1. CASE UNCHANGED callVars
    <3>1. IInv' /\ TypesInv' /\ \A s : Answerable(s)' = Answerable(s)
      BY <2>1, RegistryFrame DEF callVars
    <3>2. CallTypeOK' /\ CountedInv' /\ RequestIdsDiffer' /\ AnswerInv'
      BY <2>1, <3>1 DEF callVars, exchange, CInv, CallTypeOK, CountedInv, RequestIdsDiffer,
                        Asking, Ids, AnswerInv
    <3> QED
      BY <3>1, <3>2 DEF CInv
  <2> QED
    BY <2>1, RegistryStepInv, DrawInv, PublishInv, ReplyInv, ReceiveInv, ReceiveReplyInv DEF CallNext
<1> QED
  BY <1>1, <1>2, PTL DEF CallSpec

-----------------------------------------------------------------------------
(* Theorems.                                                               *)

\* CallTypeOK (send_service_request, send_service_reply, add_data): the
\* requests and what is sent keep their types.
THEOREM CallsTypeCorrect == CallSpec => []CallTypeOK
<1>1. CInv => CallTypeOK
  BY DEF CInv
<1> QED
  BY <1>1, AlwaysCInv, PTL

\* RequestIdsDiffer (get_new_request_id, add_data): threads that send and the
\* pipe that delivers never use an identifier twice.
THEOREM IdsDiffer == CallSpec => []RequestIdsDiffer
<1>1. CInv => RequestIdsDiffer
  BY DEF CInv
<1> QED
  BY <1>1, AlwaysCInv, PTL

\* RequestIsAnswerable (send_service_reply, revoke_service, announce_service):
\* no revocation, announcement or discovery between a request and its reply,
\* or between the two sections of the reply, makes publish_rpc refuse it.
THEOREM RequestsAnswerable == CallSpec => []RequestIsAnswerable
<1>1. CInv => RequestIsAnswerable
  <2> SUFFICES ASSUME CInv, NEW r \in received, <<r.service, "REPLY">> \in readers \ foreign,
                      Waiting(RequestOf(r.service)) = {}, RequestOf(r.service) \notin lost
               PROVE  CanPublish(r.service, "REPLY")
    BY DEF RequestIsAnswerable
  <2>1. r.service \in PlainServices
    BY DEF CInv, CallTypeOK, Request
  <2>2. services[r.service] # NoEntry /\ "REPLY" \in services[r.service].topics
    BY DEF CInv, AnswerInv, Answerable
  <2>3. "REPLY" \notin services[r.service].foreign
    BY <2>1, <2>2 DEF CInv, TypesInv
  <2> QED
    BY <2>2, <2>3 DEF CanPublish
<1> QED
  BY <1>1, AlwaysCInv, PTL

-----------------------------------------------------------------------------
(* The ends of a name.                                                     *)

\* What it is to begin with a sequence of words, index by index.
LEMMA PrefixLemma ==
    ASSUME NEW Word, NEW s \in Seq(Word), NEW t \in Seq(Word)
    PROVE  IsPrefix(s, t) <=> Len(s) <= Len(t) /\ \A i \in 1..Len(s) : s[i] = t[i]
  BY DEF IsPrefix

\* The same for the end.
LEMMA SuffixLemma ==
    ASSUME NEW Word, NEW s \in Seq(Word), NEW t \in Seq(Word)
    PROVE  IsSuffix(s, t) <=>
              Len(s) <= Len(t) /\ \A i \in 1..Len(s) : s[i] = t[Len(t) - Len(s) + i]
  <1>1. ASSUME NEW x \in Seq(Word)
        PROVE  /\ Reverse(x) \in Seq(Word) /\ Len(Reverse(x)) = Len(x)
               /\ \A i \in 1..Len(x) : Reverse(x)[i] = x[Len(x) - i + 1]
    BY DEF Reverse
  <1>2. IsSuffix(s, t) <=> Len(s) <= Len(t) /\ \A i \in 1..Len(s) : Reverse(s)[i] = Reverse(t)[i]
    BY <1>1, PrefixLemma DEF IsSuffix
  <1>3. ASSUME Len(s) <= Len(t)
        PROVE  (\A i \in 1..Len(s) : Reverse(s)[i] = Reverse(t)[i])
               <=> \A i \in 1..Len(s) : s[i] = t[Len(t) - Len(s) + i]
    <2>1. ASSUME \A i \in 1..Len(s) : Reverse(s)[i] = Reverse(t)[i], NEW i \in 1..Len(s)
          PROVE  s[i] = t[Len(t) - Len(s) + i]
      <3> DEFINE j == Len(s) - i + 1
      <3>1. j \in 1..Len(s) /\ Len(s) - j + 1 = i /\ Len(t) - j + 1 = Len(t) - Len(s) + i
        OBVIOUS
      <3>2. Reverse(s)[j] = s[i] /\ Reverse(t)[j] = t[Len(t) - Len(s) + i]
        BY <3>1, <1>1, <1>3
      <3> QED
        BY <2>1, <3>1, <3>2
    <2>2. ASSUME \A i \in 1..Len(s) : s[i] = t[Len(t) - Len(s) + i], NEW i \in 1..Len(s)
          PROVE  Reverse(s)[i] = Reverse(t)[i]
      <3> DEFINE j == Len(s) - i + 1
      <3>1. j \in 1..Len(s) /\ Len(t) - Len(s) + j = Len(t) - i + 1
        OBVIOUS
      <3> QED
        BY <2>2, <3>1, <1>1, <1>3
    <2> QED
      BY <2>1, <2>2
  <1> QED
    BY <1>2, <1>3

\* A name put between a prefix and a suffix is found again.
LEMMA BetweenLemma ==
    ASSUME NEW Word, NEW p \in Seq(Word), NEW s \in Seq(Word), NEW t \in Seq(Word)
    PROVE  /\ IsPrefix(p, (p \o s) \o t)
           /\ IsSuffix(t, (p \o s) \o t)
           /\ Without((p \o s) \o t, Len(p), Len(t)) = s
  <1> DEFINE all == (p \o s) \o t
  <1>1. /\ all \in Seq(Word) /\ Len(all) = Len(p) + Len(s) + Len(t)
        /\ \A i \in 1..Len(p) : all[i] = p[i]
        /\ \A i \in 1..Len(s) : all[Len(p) + i] = s[i]
        /\ \A i \in 1..Len(t) : all[Len(p) + Len(s) + i] = t[i]
    OBVIOUS
  <1> HIDE DEF all
  <1>2. IsPrefix(p, all) /\ IsSuffix(t, all)
    <2>1. IsPrefix(p, all)
      BY <1>1, PrefixLemma
    <2>2. /\ Len(t) <= Len(all)
          /\ \A i \in 1..Len(t) : t[i] = all[Len(all) - Len(t) + i]
      <3> \A i \in 1..Len(t) : Len(all) - Len(t) + i = Len(p) + Len(s) + i
        BY <1>1
      <3> QED
        BY <1>1
    <2> QED
      BY <1>1, <2>1, <2>2, SuffixLemma
  <1>3. Without(all, Len(p), Len(t)) = s
    <2>1. Len(p) \in Nat /\ Len(s) \in Nat /\ Len(t) \in Nat
      OBVIOUS
    <2> DEFINE w == SubSeq(all, Len(p) + 1, Len(p) + Len(s))
    <2>2. w \in Seq(Word) /\ Len(w) = Len(s) /\ \A i \in 1..Len(s) : w[i] = all[Len(p) + i]
      BY <1>1, <2>1
    <2>3. Len(all) - Len(t) = Len(p) + Len(s)
      BY <1>1, <2>1
    <2>4. w = s
      BY <1>1, <2>2, SeqEqual
    <2> QED
      BY <2>3, <2>4 DEF Without
  <1> QED
    BY <1>2, <1>3 DEF all

\* And conversely.
LEMMA JoinLemma ==
    ASSUME NEW Word, NEW p \in Seq(Word), NEW t \in Seq(Word), NEW topic \in Seq(Word),
           IsPrefix(p, topic), IsSuffix(t, topic), Len(p) + Len(t) <= Len(topic)
    PROVE  /\ Without(topic, Len(p), Len(t)) \in Seq(Word)
           /\ (p \o Without(topic, Len(p), Len(t))) \o t = topic
  <1>1. Len(p) \in Nat /\ Len(t) \in Nat /\ Len(topic) \in Nat
    OBVIOUS
  <1> DEFINE w == SubSeq(topic, Len(p) + 1, Len(topic) - Len(t))
             n == Len(topic) - Len(t) - Len(p)
             all == (p \o w) \o t
  <1>2. n \in Nat /\ Len(topic) - Len(t) = Len(p) + n
    BY <1>1
  <1>3. w \in Seq(Word) /\ Len(w) = n /\ \A i \in 1..n : w[i] = topic[Len(p) + i]
    <2>1. w = SubSeq(topic, Len(p) + 1, Len(p) + n)
      BY <1>2
    <2>2. Len(p) + n <= Len(topic)
      BY <1>1, <1>2
    <2> HIDE DEF n, w
    <2> QED
      BY <1>1, <1>2, <2>1, <2>2
  <1> HIDE DEF w
  <1>4. /\ all \in Seq(Word) /\ Len(all) = Len(p) + n + Len(t)
        /\ \A i \in 1..Len(p) : all[i] = p[i]
        /\ \A i \in 1..n : all[Len(p) + i] = w[i]
        /\ \A i \in 1..Len(t) : all[Len(p) + n + i] = t[i]
    BY <1>3
  <1>5. Len(all) = Len(topic)
    BY <1>1, <1>4
  <1> HIDE DEF all
  <1>6. ASSUME NEW i \in 1..Len(all) PROVE all[i] = topic[i]
    <2>1. CASE i \in 1..Len(p)
      BY <2>1, <1>4, PrefixLemma
    <2>2. CASE i \in (Len(p) + 1)..(Len(p) + n)
      <3>1. i - Len(p) \in 1..n /\ i = Len(p) + (i - Len(p))
        BY <2>2, <1>1, <1>2
      <3> QED
        BY <3>1, <1>3, <1>4
    <2>3. CASE i \in (Len(p) + n + 1)..Len(all)
      <3> DEFINE j == i - (Len(p) + n)
      <3>1. j \in 1..Len(t) /\ i = Len(p) + n + j /\ i = Len(topic) - Len(t) + j
        BY <2>3, <1>1, <1>2, <1>4
      <3>2. \A k \in 1..Len(t) : t[k] = topic[Len(topic) - Len(t) + k]
        BY SuffixLemma
      <3>3. all[i] = t[j]
        BY <3>1, <1>4
      <3> QED
        BY <3>1, <3>2, <3>3
    <2> QED
      BY <2>1, <2>2, <2>3, <1>1, <1>2, <1>4
  <1>7. all = topic
    BY <1>4, <1>5, <1>6, SeqEqual
  <1> QED
    BY <1>3, <1>7 DEF all, w, Without


\* A word is a name of one word.
LEMMA OneWord ==
    ASSUME NEW Word, NEW a \in Word
    PROVE  <<a>> \in Seq(Word) /\ Len(<<a>>) = 1 /\ <<a>>[1] = a
  OBVIOUS

\* And two words a name of two.
LEMMA TwoWords ==
    ASSUME NEW Word, NEW a \in Word, NEW b \in Word
    PROVE  /\ <<a, b>> \in Seq(Word) /\ Len(<<a, b>>) = 2
           /\ <<a, b>>[1] = a /\ <<a, b>>[2] = b
  OBVIOUS

\* What it is to begin with two words.
LEMMA TwoPrefix ==
    ASSUME NEW Word, NEW a \in Word, NEW b \in Word, NEW t \in Seq(Word)
    PROVE  IsPrefix(<<a, b>>, t) <=> 2 <= Len(t) /\ t[1] = a /\ t[2] = b
  <1> DEFINE p == <<a, b>>
  <1>1. p \in Seq(Word) /\ Len(p) = 2 /\ p[1] = a /\ p[2] = b
    BY TwoWords
  <1> HIDE DEF p
  <1>2. p \in Seq(Word)
    BY <1>1
  <1>3. IsPrefix(p, t) <=> Len(p) <= Len(t) /\ \A i \in 1..Len(p) : p[i] = t[i]
    BY <1>2, PrefixLemma
  <1>4. (\A i \in 1..Len(p) : p[i] = t[i]) <=> p[1] = t[1] /\ p[2] = t[2]
    BY <1>1
  <1> QED
    BY <1>1, <1>3, <1>4, Zenon DEF p

\* What it is to end in a word.
LEMMA OneSuffix ==
    ASSUME NEW Word, NEW a \in Word, NEW t \in Seq(Word)
    PROVE  IsSuffix(<<a>>, t) <=> 1 <= Len(t) /\ t[Len(t)] = a
  <1> DEFINE p == <<a>>
  <1>1. p \in Seq(Word) /\ Len(p) = 1 /\ p[1] = a
    BY OneWord
  <1> HIDE DEF p
  <1>2. p \in Seq(Word)
    BY <1>1
  <1>3. PICK n \in Nat : n = Len(t)
    OBVIOUS
  <1>4. IsSuffix(p, t) <=>
           Len(p) <= Len(t) /\ \A i \in 1..Len(p) : p[i] = t[Len(t) - Len(p) + i]
    BY <1>2, SuffixLemma
  <1>5. (\A i \in 1..Len(p) : p[i] = t[Len(t) - Len(p) + i]) <=> p[1] = t[n]
    BY <1>1, <1>3
  <1> QED
    BY <1>1, <1>3, <1>4, <1>5, Zenon DEF p

\* What it is to end in two.
LEMMA TwoSuffix ==
    ASSUME NEW Word, NEW a \in Word, NEW b \in Word, NEW t \in Seq(Word)
    PROVE  IsSuffix(<<a, b>>, t) <=> 2 <= Len(t) /\ t[Len(t) - 1] = a /\ t[Len(t)] = b
  <1> DEFINE p == <<a, b>>
  <1>1. p \in Seq(Word) /\ Len(p) = 2 /\ p[1] = a /\ p[2] = b
    BY TwoWords
  <1> HIDE DEF p
  <1>2. p \in Seq(Word)
    BY <1>1
  <1>3. PICK n \in Nat : n = Len(t)
    OBVIOUS
  <1>4. IsSuffix(p, t) <=>
           Len(p) <= Len(t) /\ \A i \in 1..Len(p) : p[i] = t[Len(t) - Len(p) + i]
    BY <1>2, SuffixLemma
  <1>5. (\A i \in 1..Len(p) : p[i] = t[Len(t) - Len(p) + i]) <=> p[1] = t[n - 1] /\ p[2] = t[n]
    BY <1>1, <1>3
  <1> QED
    BY <1>1, <1>3, <1>4, <1>5, Zenon DEF p

\* A name ends with one word.
LEMMA LastWord ==
    ASSUME NEW Word, NEW a \in Word, NEW b \in Word, NEW t \in Seq(Word),
           IsSuffix(<<a>>, t), IsSuffix(<<b>>, t)
    PROVE  a = b
  BY OneSuffix

\* Who ends in two words ends in the second.
LEMMA LastOfTwo ==
    ASSUME NEW Word, NEW a \in Word, NEW b \in Word, NEW t \in Seq(Word), IsSuffix(<<a, b>>, t)
    PROVE  IsSuffix(<<b>>, t)
  <1>1. PICK n \in Nat : n = Len(t)
    OBVIOUS
  <1>2. 2 <= n /\ t[n] = b
    BY <1>1, TwoSuffix
  <1>3. 1 <= n
    BY <1>2
  <1> QED
    BY <1>1, <1>2, <1>3, OneSuffix

\* What appending a word does to the ends of a name.
LEMMA AppendLemma ==
    ASSUME NEW Word, NEW a \in Word, NEW b \in Word, NEW s \in Seq(Word)
    PROVE  /\ Append(s, a) \in Seq(Word)
           /\ Append(s, a) = s \o <<a>>
           /\ IsSuffix(<<a>>, Append(s, a))
           /\ IsSuffix(<<b>>, s) => IsSuffix(<<b, a>>, Append(s, a))
           /\ Without(Append(s, a), 0, 1) = s
  <1>1. PICK n \in Nat : n = Len(s)
    OBVIOUS
  <1> DEFINE t == Append(s, a)
  <1>2. /\ t \in Seq(Word) /\ Len(t) = n + 1 /\ t[n + 1] = a
        /\ \A i \in 1..n : t[i] = s[i]
    BY <1>1
  <1>3. t = s \o <<a>>
    OBVIOUS
  <1>4. SubSeq(t, 1, n) = s
    BY <1>1
  <1> HIDE DEF t
  <1>5. IsSuffix(<<a>>, t)
    BY <1>2, OneSuffix
  <1>6. ASSUME IsSuffix(<<b>>, s) PROVE IsSuffix(<<b, a>>, t)
    <2>1. 1 <= n /\ s[n] = b
      BY <1>1, <1>6, OneSuffix
    <2>2. t[n] = b
      BY <1>2, <2>1
    <2>3. 2 <= n + 1 /\ Len(t) - 1 = n
      BY <1>2, <2>1
    <2> QED
      BY <1>2, <2>2, <2>3, TwoSuffix
  <1>7. Without(t, 0, 1) = s
    BY <1>2, <1>4 DEF Without
  <1> QED
    BY <1>2, <1>3, <1>5, <1>6, <1>7 DEF t

\* Two words in front of a name are there before a word that is neither of
\* them, and whatever follows it, is appended.
LEMMA NoNewStart ==
    ASSUME NEW Word, NEW a \in Word, NEW b \in Word, NEW u \in Word, NEW v \in Word, u # a, u # b,
           NEW name \in Seq(Word), IsPrefix(<<a, b>>, name \o <<u, v>>)
    PROVE  IsPrefix(<<a, b>>, name)
  <1>1. PICK n \in Nat : n = Len(name)
    OBVIOUS
  <1> DEFINE topic == name \o <<u, v>>
  <1>2. /\ topic \in Seq(Word) /\ Len(topic) = n + 2
        /\ topic[n + 1] = u
        /\ \A i \in 1..n : topic[i] = name[i]
    BY <1>1
  <1>3. IsPrefix(<<a, b>>, topic)
    OBVIOUS
  <1> HIDE DEF topic
  <1>4. topic[1] = a /\ topic[2] = b
    BY <1>2, <1>3, TwoPrefix
  <1>5. n # 0 /\ n # 1
    BY <1>2, <1>4
  <1>6. 2 <= n /\ topic[1] = name[1] /\ topic[2] = name[2]
    BY <1>2, <1>5
  <1> QED
    BY <1>1, <1>4, <1>6, TwoPrefix

\* The same for one more word.
LEMMA NoNewStartAppend ==
    ASSUME NEW Word, NEW a \in Word, NEW b \in Word, NEW u \in Word, u # b,
           NEW name \in Seq(Word), IsPrefix(<<a, b>>, Append(name, u))
    PROVE  IsPrefix(<<a, b>>, name)
  <1>1. PICK n \in Nat : n = Len(name)
    OBVIOUS
  <1> DEFINE topic == Append(name, u)
  <1>2. /\ topic \in Seq(Word) /\ Len(topic) = n + 1
        /\ topic[n + 1] = u
        /\ \A i \in 1..n : topic[i] = name[i]
    BY <1>1
  <1>3. IsPrefix(<<a, b>>, topic)
    OBVIOUS
  <1> HIDE DEF topic
  <1>4. 2 <= n + 1 /\ topic[1] = a /\ topic[2] = b
    BY <1>2, <1>3, TwoPrefix
  <1>5. n # 1 /\ n # 0
    BY <1>2, <1>4
  <1>6. 2 <= n /\ topic[1] = name[1] /\ topic[2] = name[2]
    BY <1>2, <1>5
  <1> QED
    BY <1>1, <1>4, <1>6, TwoPrefix

\* A prefix of two words and a suffix of another one do not overlap.
LEMMA NoOverlap ==
    ASSUME NEW Word, NEW a \in Word, NEW b \in Word, NEW u \in Word, u # b,
           NEW t \in Seq(Word), IsPrefix(<<a, b>>, t), IsSuffix(<<u>>, t)
    PROVE  3 <= Len(t)
  <1>1. PICK n \in Nat : n = Len(t)
    OBVIOUS
  <1>2. 2 <= n /\ t[2] = b
    BY <1>1, TwoPrefix
  <1>3. t[n] = u
    BY <1>1, OneSuffix
  <1> QED
    BY <1>1, <1>2, <1>3

\* The length of a word, whatever it is.
LEMMA OneLen ==
    ASSUME NEW a
    PROVE  Len(<<a>>) = 1
  OBVIOUS

\* The length of two.
LEMMA TwoLen ==
    ASSUME NEW a, NEW b
    PROVE  Len(<<a, b>>) = 2
  OBVIOUS

\* What is left of a name without its last word.
LEMMA EndLemma ==
    ASSUME NEW Word, NEW w \in Word, NEW t \in Seq(Word), IsSuffix(<<w>>, t)
    PROVE  Without(t, 0, 1) \in Seq(Word) /\ Without(t, 0, 1) \o <<w>> = t
  <1>1. PICK n \in Nat : n = Len(t)
    OBVIOUS
  <1>2. 1 <= n /\ t[n] = w
    BY <1>1, OneSuffix
  <1> DEFINE s == SubSeq(t, 1, n - 1)
             all == s \o <<w>>
  <1>3. s \in Seq(Word) /\ Len(s) = n - 1 /\ \A i \in 1..(n - 1) : s[i] = t[i]
    BY <1>1, <1>2
  <1> HIDE DEF s
  <1>4. /\ all \in Seq(Word) /\ Len(all) = n /\ all[n] = w
        /\ \A i \in 1..(n - 1) : all[i] = s[i]
    BY <1>2, <1>3
  <1> HIDE DEF all
  <1>5. \A i \in 1..n : all[i] = t[i]
    BY <1>2, <1>3, <1>4
  <1>6. all = t
    BY <1>1, <1>4, <1>5, SeqEqual
  <1>7. Without(t, 0, 1) = s
    BY <1>1 DEF Without, s
  <1> QED
    BY <1>3, <1>6, <1>7 DEF all

\* And without its first words.
LEMMA StartPart ==
    ASSUME NEW Word, NEW p \in Seq(Word), NEW t \in Seq(Word), IsPrefix(p, t)
    PROVE  /\ Without(t, Len(p), 0) \in Seq(Word)
           /\ p \o Without(t, Len(p), 0) = t
  <1>1. PICK e \in Seq(Word) : Len(e) = 0 /\ \A s \in Seq(Word) : s \o e = s
    <2>1. <<>> \in Seq(Word) /\ Len(<<>>) = 0 /\ \A s \in Seq(Word) : s \o <<>> = s
      OBVIOUS
    <2> QED
      BY <2>1
  <1>2. \A s \in Seq(Word) : s \o e = s
    BY <1>1
  <1>3. IsSuffix(e, t)
    <2>1. Len(e) <= Len(t) /\ \A i \in 1..Len(e) : e[i] = t[Len(t) - Len(e) + i]
      BY <1>1
    <2> QED
      BY <2>1, SuffixLemma
  <1>4. Len(p) + Len(e) <= Len(t)
    BY <1>1, PrefixLemma
  <1>5. /\ Without(t, Len(p), Len(e)) \in Seq(Word)
        /\ (p \o Without(t, Len(p), Len(e))) \o e = t
    BY <1>1, <1>3, <1>4, JoinLemma
  <1> DEFINE w == Without(t, Len(p), 0)
  <1>6. w \in Seq(Word) /\ (p \o w) \o e = t
    BY <1>1, <1>5
  <1> HIDE DEF w
  <1>7. p \o w \in Seq(Word)
    BY <1>6
  <1> QED
    BY <1>2, <1>6, <1>7 DEF w

-----------------------------------------------------------------------------
\* The words of the names of topics.
TopicWords == Words \cup {"rt", "rq", "rr", "/", "_", "Request", "Reply",
                          "send_goal", "get_result", "cancel_goal", "feedback", "status"}

KindWord(k) == IF k = "REQUEST" THEN "Request" ELSE "Reply"

\* Two words are a name.
LEMMA TwoInSeq ==
    ASSUME NEW Word, NEW a \in Word, NEW b \in Word
    PROVE  <<a, b>> \in Seq(Word)
  OBVIOUS

\* The words of the parts of an action, each of its own.
LEMMA PartWords ==
    /\ ActionWord["GOAL"] = "send_goal" /\ ActionWord["RESULT"] = "get_result"
    /\ ActionWord["CANCEL"] = "cancel_goal"
    /\ ActionWord["FEEDBACK"] = "feedback" /\ ActionWord["STATUS"] = "status"
  BY DEF ActionWord

\* The word of a part is no other word of a topic and no other part's.
LEMMA PartWord ==
    ASSUME NEW part \in ServiceParts \cup TopicParts
    PROVE  /\ ActionWord[part] \in TopicWords
           /\ ActionWord[part] \notin {"/", "Request", "Reply"}
           /\ \A q \in ServiceParts \cup TopicParts : ActionWord[q] = ActionWord[part] => q = part
  <1> DEFINE word(q) == ActionWord[q]
  <1>1. ServiceParts \cup TopicParts = {"GOAL", "RESULT", "CANCEL", "FEEDBACK", "STATUS"}
    BY DEF ServiceParts, TopicParts
  <1>2. /\ word("GOAL") = "send_goal" /\ word("RESULT") = "get_result"
        /\ word("CANCEL") = "cancel_goal"
        /\ word("FEEDBACK") = "feedback" /\ word("STATUS") = "status"
    BY PartWords
  <1>3. {"send_goal", "get_result", "cancel_goal", "feedback", "status"} \subseteq TopicWords
    BY DEF TopicWords
  <1> HIDE DEF word
  <1>4. /\ word(part) \in TopicWords
        /\ word(part) \notin {"/", "Request", "Reply"}
    BY <1>1, <1>2, <1>3
  <1>5. ASSUME NEW q \in ServiceParts \cup TopicParts, word(q) = word(part) PROVE q = part
    BY <1>1, <1>2, <1>5
  <1> QED
    BY <1>4, <1>5 DEF word

\* The prefixes and suffixes, by their words.
LEMMA RosPrefix ==
    ASSUME NEW kind \in {"TOPIC", "REQUEST", "REPLY"}
    PROVE  \E word \in {"rt", "rq", "rr"} : Prefix("ROS2", kind) = <<word, "/">>
  BY DEF Prefix

\* The suffixes of the two protocols end in the same word.
LEMMA SuffixWords ==
    ASSUME NEW k \in EndpointKinds
    PROVE  /\ Suffix("ROS2", k) = <<KindWord(k)>>
           /\ Suffix("DDS", k) = <<"_", KindWord(k)>>
           /\ KindWord(k) \in {"Request", "Reply"}
  BY DEF Suffix, KindWord

\* Prefixes and suffixes are made of words.
LEMMA AffixLemma ==
    ASSUME NEW p \in RpcProtocols, NEW k \in EndpointKinds
    PROVE  Prefix(p, k) \in Seq(TopicWords) /\ Suffix(p, k) \in Seq(TopicWords)
  <1>1. CASE p = "ROS2"
    <2>1. PICK word \in {"rt", "rq", "rr"} : Prefix("ROS2", k) = <<word, "/">>
      BY RosPrefix DEF EndpointKinds
    <2>2. word \in TopicWords /\ "/" \in TopicWords /\ KindWord(k) \in TopicWords
      BY SuffixWords, Zenon DEF TopicWords
    <2>3. Prefix("ROS2", k) \in Seq(TopicWords)
      BY <2>1, <2>2, TwoInSeq
    <2>4. Suffix("ROS2", k) \in Seq(TopicWords)
      BY <2>2, SuffixWords, OneWord
    <2> QED
      BY <1>1, <2>3, <2>4
  <1>2. CASE p = "DDS"
    <2>1. "_" \in TopicWords /\ KindWord(k) \in TopicWords
      BY SuffixWords, Zenon DEF TopicWords
    <2>2. Suffix("DDS", k) \in Seq(TopicWords)
      BY <2>1, SuffixWords, TwoInSeq
    <2>3. Prefix("DDS", k) \in Seq(TopicWords)
      BY DEF Prefix
    <2> QED
      BY <1>2, <2>2, <2>3
  <1> QED
    BY <1>1, <1>2 DEF RpcProtocols

\* A topic ends with the suffix of one kind only.
LEMMA EndsWithKind ==
    ASSUME NEW p \in RpcProtocols, NEW k \in EndpointKinds, NEW topic \in Seq(TopicWords),
           IsSuffix(Suffix(p, k), topic)
    PROVE  IsSuffix(<<KindWord(k)>>, topic) /\ KindWord(k) \in TopicWords
  <1>1. "_" \in TopicWords /\ KindWord(k) \in TopicWords
    BY SuffixWords, Zenon DEF TopicWords
  <1>2. CASE p = "ROS2"
    BY <1>1, <1>2, SuffixWords
  <1>3. CASE p = "DDS"
    BY <1>1, <1>3, SuffixWords, LastOfTwo
  <1> QED
    BY <1>1, <1>2, <1>3 DEF RpcProtocols

\* A topic has the suffix of one kind at most.
LEMMA OneKind ==
    ASSUME NEW p \in RpcProtocols, NEW k \in EndpointKinds, NEW j \in EndpointKinds,
           NEW topic \in Seq(TopicWords),
           IsSuffix(Suffix(p, k), topic), IsSuffix(Suffix(p, j), topic)
    PROVE  j = k
  <1>1. KindWord(j) = KindWord(k)
    BY EndsWithKind, LastWord
  <1> QED
    BY <1>1 DEF KindWord, EndpointKinds

\* A name that does not start as a ROS 2 one does not with a part's word or
\* with the suffix of DDS.
LEMMA StartLemma ==
    ASSUME NEW name, DetectProtocol(name) = "ROS2"
    PROVE  \E word \in {"rt", "rq", "rr"} : IsPrefix(<<word, "/">>, name)
  <1>1. PICK kind \in {"TOPIC", "REQUEST", "REPLY"} : IsPrefix(Prefix("ROS2", kind), name)
    BY Zenon DEF DetectProtocol
  <1> QED
    BY <1>1, RosPrefix

\* And a name that begins so is one of ROS 2.
LEMMA StartConverse ==
    ASSUME NEW name, NEW word \in {"rt", "rq", "rr"}, IsPrefix(<<word, "/">>, name)
    PROVE  DetectProtocol(name) = "ROS2"
  <1>1. \E kind \in {"TOPIC", "REQUEST", "REPLY"} : Prefix("ROS2", kind) = <<word, "/">>
    BY Zenon DEF Prefix
  <1> QED
    BY <1>1 DEF DetectProtocol

\* The topics of a plain DDS service are recognised as such.
LEMMA DdsLemma ==
    ASSUME NEW k \in EndpointKinds, NEW name \in Seq(TopicWords), ~StartsAsRos(name)
    PROVE  DetectProtocol(ServiceTopic("DDS", k, name)) = "DDS"
  <1>1. ServiceTopic("DDS", k, name) = name \o <<"_", KindWord(k)>>
    <2>1. <<>> \o name = name
      BY ConcatEmptySeq
    <2>2. Prefix("DDS", k) = <<>>
      BY DEF Prefix
    <2> QED
      BY <2>1, <2>2, SuffixWords DEF ServiceTopic
  <1>2. ASSUME NEW word \in {"rt", "rq", "rr"},
               IsPrefix(<<word, "/">>, name \o <<"_", KindWord(k)>>)
        PROVE  FALSE
    <2>1. /\ word \in TopicWords /\ "/" \in TopicWords /\ "_" \in TopicWords
          /\ KindWord(k) \in TopicWords
          /\ "_" # word /\ "_" # "/"
      BY SuffixWords, Zenon DEF TopicWords
    <2>2. IsPrefix(<<word, "/">>, name)
      BY <1>2, <2>1, NoNewStart, Zenon
    <2> QED
      BY <2>2, StartConverse DEF StartsAsRos
  <1>3. DetectProtocol(name \o <<"_", KindWord(k)>>) # "ROS2"
    BY <1>2, StartLemma
  <1> QED
    BY <1>1, <1>3 DEF DetectProtocol

\* Adding the word of a part does not make a name one of ROS 2.
LEMMA PartStart ==
    ASSUME NEW name \in Seq(TopicWords), NEW part \in ServiceParts, ~StartsAsRos(name)
    PROVE  ~StartsAsRos(PartOf(name, part))
  <1> DEFINE w == ActionWord[part]
  <1>1. w \in TopicWords /\ w # "/"
    BY PartWord
  <1> HIDE DEF w
  <1>2. ASSUME NEW word \in {"rt", "rq", "rr"}, IsPrefix(<<word, "/">>, Append(name, w))
        PROVE  FALSE
    <2>1. word \in TopicWords /\ "/" \in TopicWords
      BY Zenon DEF TopicWords
    <2>2. IsPrefix(<<word, "/">>, name)
      BY <1>1, <1>2, <2>1, NoNewStartAppend, Zenon
    <2> QED
      BY <2>2, StartConverse DEF StartsAsRos
  <1> QED
    BY <1>2, StartLemma DEF StartsAsRos, PartOf, w

\* RpcInfo leads from the topic of a service back to the service.
LEMMA ServiceLemma ==
    ASSUME NEW p \in RpcProtocols, NEW k \in EndpointKinds, NEW name \in Seq(TopicWords),
           p = "ROS2" \/ ~StartsAsRos(name)
    PROVE  RpcInfo(ServiceTopic(p, k, name)) = ServiceRole(p, k, name)
  <1> DEFINE topic == ServiceTopic(p, k, name)
  <1>1. /\ topic \in Seq(TopicWords)
        /\ IsPrefix(Prefix(p, k), topic) /\ IsSuffix(Suffix(p, k), topic)
        /\ Without(topic, Len(Prefix(p, k)), Len(Suffix(p, k))) = name
    BY AffixLemma, BetweenLemma DEF ServiceTopic
  <1>2. DetectProtocol(topic) = p
    <2>1. CASE p = "ROS2"
      BY <1>1, <2>1 DEF DetectProtocol, EndpointKinds
    <2>2. CASE p # "ROS2"
      BY <2>2, DdsLemma DEF RpcProtocols
    <2> QED
      BY <2>1, <2>2
  <1> HIDE DEF topic
  <1>3. {j \in EndpointKinds : /\ IsPrefix(Prefix(p, j), topic)
                               /\ IsSuffix(Suffix(p, j), topic)} = {k}
    BY <1>1, OneKind
  <1> QED
    BY <1>1, <1>2, <1>3 DEF RpcInfo, topic

\* The role of a service keeps what was read from its topic.
LEMMA RoleLemma ==
    ASSUME NEW p, NEW k, NEW name
    PROVE  LET role == ServiceRole(p, k, name) IN
           /\ role.rpc # "NONE"
           /\ role.protocol = p /\ role.kind = k /\ role.service = name
  BY DEF ServiceRole

\* That of a part of an action is taken for the part of that action.
LEMMA PartLemma ==
    ASSUME NEW p, NEW k, NEW name \in Seq(TopicWords), NEW part \in ServiceParts
    PROVE  LET role == ServiceRole(p, k, PartOf(name, part)) IN
           /\ role.rpc = "ACTION"
           /\ role.part = part /\ role.action = name
  <1> DEFINE word(q) == ActionWord[q]
             service == PartOf(name, part)
  <1>1. \A q \in ServiceParts : word(q) \in TopicWords
    BY PartWord
  <1>2. \A q, r \in ServiceParts : word(q) = word(r) => q = r
    BY PartWord
  <1>3. service = Append(name, word(part))
    BY DEF PartOf
  <1> HIDE DEF word
  <1>4. /\ service \in Seq(TopicWords) /\ IsSuffix(<<word(part)>>, service)
        /\ Without(service, 0, 1) = name
    BY <1>1, <1>3, AppendLemma
  <1> HIDE DEF service
  <1>5. {q \in ServiceParts : IsSuffix(<<word(q)>>, service)} = {part}
    BY <1>1, <1>2, <1>4, LastWord
  <1> QED
    BY <1>4, <1>5 DEF ServiceRole, word, service

\* The topics of an action that are not of a service: they end neither as a
\* request nor as a reply.
LEMMA NoKind ==
    ASSUME NEW part \in TopicParts, NEW p \in RpcProtocols, NEW topic \in Seq(TopicWords),
           IsSuffix(<<ActionWord[part]>>, topic)
    PROVE  {k \in EndpointKinds : /\ IsPrefix(Prefix(p, k), topic)
                                  /\ IsSuffix(Suffix(p, k), topic)} = {}
  <1> SUFFICES ASSUME NEW k \in EndpointKinds, IsSuffix(Suffix(p, k), topic)
               PROVE  FALSE
    OBVIOUS
  <1>1. IsSuffix(<<KindWord(k)>>, topic) /\ KindWord(k) \in TopicWords
    BY EndsWithKind
  <1> DEFINE w == ActionWord[part]
  <1>2. w \in TopicWords /\ w \notin {"/", "Request", "Reply"}
    BY PartWord
  <1>3. IsSuffix(<<w>>, topic)
    OBVIOUS
  <1> HIDE DEF w
  <1>4. w = KindWord(k)
    BY <1>1, <1>2, <1>3, LastWord
  <1> QED
    BY <1>2, <1>4, SuffixWords

\* RpcInfo finds the action and the part of a topic of an action.
LEMMA TopicPartLemma ==
    ASSUME NEW name \in Seq(TopicWords), NEW part \in TopicParts, IsSuffix(<<"/">>, name)
    PROVE  LET role == TopicRole("ROS2", PartOf(name, part)) IN
           /\ role.rpc = "ACTION"
           /\ role.part = part /\ role.action = name
  <1> DEFINE word(q) == ActionWord[q]
             base == PartOf(name, part)
  <1>1. /\ \A q \in TopicParts : word(q) \in TopicWords
        /\ \A q, r \in TopicParts : word(q) = word(r) => q = r
    BY PartWord
  <1>2. "/" \in TopicWords
    BY Zenon DEF TopicWords
  <1>3. base = Append(name, word(part))
    BY DEF PartOf
  <1> HIDE DEF word
  <1>4. /\ base \in Seq(TopicWords) /\ IsSuffix(<<"/", word(part)>>, base)
        /\ IsSuffix(<<word(part)>>, base)
        /\ Without(base, 0, 1) = name
    BY <1>1, <1>2, <1>3, AppendLemma
  <1> HIDE DEF base
  <1>5. ASSUME NEW q \in TopicParts, IsSuffix(<<"/", word(q)>>, base) PROVE q = part
    <2>1. IsSuffix(<<word(q)>>, base)
      BY <1>1, <1>2, <1>4, <1>5, LastOfTwo
    <2> QED
      BY <1>1, <1>4, <2>1, LastWord
  <1>6. {q \in TopicParts : IsSuffix(<<"/", word(q)>>, base)} = {part}
    BY <1>4, <1>5
  <1> QED
    BY <1>4, <1>6 DEF TopicRole, word, base

\* The topics of an action are read as topics of ROS 2, and of no service.
LEMMA ActionLemma ==
    ASSUME NEW name \in Seq(TopicWords), NEW part \in TopicParts
    PROVE  RpcInfo(ActionTopic("ROS2", name, part)) = TopicRole("ROS2", PartOf(name, part))
  <1> DEFINE topic == ActionTopic("ROS2", name, part)
             base == PartOf(name, part)
             prefix == Prefix("ROS2", "TOPIC")
  <1>1. prefix = <<"rt", "/">>
    BY DEF Prefix
  <1>2. prefix \in Seq(TopicWords)
    <2>1. "rt" \in TopicWords /\ "/" \in TopicWords
      BY Zenon DEF TopicWords
    <2> QED
      BY <1>1, <2>1, TwoInSeq
  <1> HIDE DEF prefix
  <1>3. base \in Seq(TopicWords) /\ base = name \o <<ActionWord[part]>>
    BY PartWord, AppendLemma DEF PartOf
  <1>4. topic = prefix \o base
    BY DEF ActionTopic, prefix
  <1>5. topic = (prefix \o name) \o <<ActionWord[part]>>
    <2> DEFINE w == <<ActionWord[part]>>
    <2>1. w \in Seq(TopicWords)
      BY PartWord, OneWord
    <2> HIDE DEF w
    <2>2. prefix \o (name \o w) = (prefix \o name) \o w
      BY <1>2, <2>1, ConcatAssociative
    <2> QED
      BY <1>3, <1>4, <2>2 DEF w
  <1> HIDE DEF topic, base
  <1>6. IsPrefix(prefix, topic) /\ Without(topic, Len(prefix), 0) = base
    <2>1. <<>> \in Seq(TopicWords) /\ Len(<<>>) = 0
      OBVIOUS
    <2>2. (prefix \o base) \o <<>> = topic
      BY <1>2, <1>3, <1>4
    <2> QED
      BY <1>2, <1>3, <2>1, <2>2, BetweenLemma
  <1>7. topic \in Seq(TopicWords) /\ IsSuffix(<<ActionWord[part]>>, topic)
    <2>1. <<ActionWord[part]>> \in Seq(TopicWords)
      BY PartWord, OneWord
    <2>2. topic \in Seq(TopicWords)
      BY <1>2, <1>3, <1>4
    <2> QED
      BY <1>2, <1>5, <2>1, <2>2, BetweenLemma
  <1>8. DetectProtocol(topic) = "ROS2"
    BY <1>6 DEF DetectProtocol, prefix
  <1>9. {k \in EndpointKinds : /\ IsPrefix(Prefix("ROS2", k), topic)
                               /\ IsSuffix(Suffix("ROS2", k), topic)} = {}
    BY <1>7, NoKind DEF RpcProtocols
  <1> QED
    BY <1>6, <1>8, <1>9 DEF RpcInfo, topic, base, prefix

-----------------------------------------------------------------------------
(* What holds of all names.                                                *)

\* The names that are looked at are sequences of words.
LEMMA TextsLemma ==
    ASSUME MaxWords \in Nat
    PROVE  Texts \subseteq Seq(TopicWords)
  <1>1. Words \subseteq TopicWords
    BY DEF TopicWords
  <1> SUFFICES ASSUME NEW n \in 0..MaxWords, NEW t \in [1..n -> Words]
               PROVE  t \in Seq(TopicWords)
    BY DEF Texts
  <1> QED
    BY <1>1

\* Every topic of a service is recognised.
LEMMA ServicesLemma ==
    ASSUME MaxWords \in Nat, NEW k \in EndpointKinds
    PROVE  ServicesRecognised[k]
  <1> SUFFICES ASSUME NEW name \in Texts, NEW p \in RpcProtocols,
                      p = "ROS2" \/ ~StartsAsRos(name)
               PROVE  /\ ServiceRecognised(p, k, name)
                      /\ \A part \in ServiceParts :
                            PartRecognised(ServiceTopic(p, k, PartOf(name, part)), name, part)
    BY DEF ServicesRecognised
  <1>1. name \in Seq(TopicWords)
    BY TextsLemma
  <1>2. ServiceRecognised(p, k, name)
    BY <1>1, ServiceLemma, RoleLemma DEF ServiceRecognised
  <1>3. ASSUME NEW part \in ServiceParts
        PROVE  PartRecognised(ServiceTopic(p, k, PartOf(name, part)), name, part)
    <2>1. PartOf(name, part) \in Seq(TopicWords)
      BY <1>1, PartWord, AppendLemma DEF PartOf
    <2>2. p = "ROS2" \/ ~StartsAsRos(PartOf(name, part))
      BY <1>1, PartStart
    <2>3. RpcInfo(ServiceTopic(p, k, PartOf(name, part))) = ServiceRole(p, k, PartOf(name, part))
      BY <2>1, <2>2, ServiceLemma
    <2> QED
      BY <1>1, <2>3, PartLemma DEF PartRecognised
  <1> QED
    BY <1>2, <1>3

\* So is every topic of an action.
LEMMA ActionsLemma ==
    ASSUME MaxWords \in Nat, NEW part \in TopicParts
    PROVE  ActionsRecognised[part]
  <1> SUFFICES ASSUME NEW name \in Texts, IsSuffix(<<"/">>, name)
               PROVE  PartRecognised(ActionTopic("ROS2", name, part), name, part)
    BY DEF ActionsRecognised
  <1>1. name \in Seq(TopicWords)
    BY TextsLemma
  <1> QED
    BY <1>1, ActionLemma, TopicPartLemma DEF PartRecognised

\* A topic that is read as one of an action.
LEMMA TopicBack ==
    ASSUME NEW topic \in Seq(TopicWords), NEW p \in RpcProtocols,
           LET role == TopicRole(p, Without(topic, Len(Prefix(p, "TOPIC")), 0))
           IN  RpcInfo(topic) = role /\ role.rpc # "NONE"
    PROVE  RpcInfo(topic).kind = "NONE" /\ LeadsBack(topic, RpcInfo(topic))
  <1> DEFINE prefix == Prefix("ROS2", "TOPIC")
             base == Without(topic, Len(prefix), 0)
             parts == {q \in TopicParts : IsSuffix(<<"/", ActionWord[q]>>, base)}
             part == CHOOSE q \in parts : TRUE
             action == Without(base, 0, 1)
  <1>1. p = "ROS2" /\ parts # {}
    BY DEF TopicRole, NoRole
  <1>2. RpcInfo(topic) = [rpc |-> "ACTION", protocol |-> p, kind |-> "NONE",
                          service |-> <<>>, part |-> part, action |-> action]
    BY <1>1 DEF TopicRole
  <1>3. part \in TopicParts /\ IsSuffix(<<"/", ActionWord[part]>>, base)
    BY <1>1
  <1> HIDE DEF part, parts
  <1>4. RpcInfo(topic).kind = "NONE"
    BY <1>2
  <1>5. ASSUME IsPrefix(prefix, topic)
        PROVE  ActionTopic("ROS2", action, part) = topic
    <2>1. prefix \in Seq(TopicWords)
      <3>1. "rt" \in TopicWords /\ "/" \in TopicWords
        BY Zenon DEF TopicWords
      <3> QED
        BY <3>1, TwoInSeq DEF Prefix
    <2> HIDE DEF prefix
    <2>2. base \in Seq(TopicWords) /\ prefix \o base = topic
      BY <1>5, <2>1, StartPart
    <2> HIDE DEF base
    <2> DEFINE w == ActionWord[part]
    <2>3. w \in TopicWords /\ "/" \in TopicWords
      <3>1. w \in TopicWords
        BY <1>3, PartWord
      <3> QED
        BY <3>1, Zenon DEF TopicWords
    <2>4. IsSuffix(<<"/", w>>, base)
      BY <1>3
    <2> HIDE DEF w
    <2>5. IsSuffix(<<w>>, base)
      BY <2>2, <2>3, <2>4, LastOfTwo
    <2>6. action \in Seq(TopicWords) /\ action \o <<w>> = base
      BY <2>2, <2>3, <2>5, EndLemma
    <2>7. Append(action, w) = base
      BY <2>3, <2>6, AppendLemma
    <2> QED
      BY <2>2, <2>7 DEF ActionTopic, PartOf, w, prefix
  <1> QED
    BY <1>1, <1>2, <1>4, <1>5 DEF LeadsBack, TopicOf

\* A name cut at its ends and put together again is the same name.
LEMMA ServiceBack ==
    ASSUME NEW topic \in Seq(TopicWords), NEW p \in RpcProtocols, NEW k \in EndpointKinds,
           IsPrefix(Prefix(p, k), topic), IsSuffix(Suffix(p, k), topic)
    PROVE  ServiceTopic(p, k, Without(topic, Len(Prefix(p, k)), Len(Suffix(p, k)))) = topic
  <1>1. Prefix(p, k) \in Seq(TopicWords) /\ Suffix(p, k) \in Seq(TopicWords)
    BY AffixLemma
  <1>2. Len(Prefix(p, k)) + Len(Suffix(p, k)) <= Len(topic)
    <2>1. CASE p = "ROS2"
      <3>1. PICK word \in {"rt", "rq", "rr"} : Prefix(p, k) = <<word, "/">>
        BY <2>1, RosPrefix DEF EndpointKinds
      <3>2. Suffix(p, k) = <<KindWord(k)>> /\ KindWord(k) \in {"Request", "Reply"}
        BY <2>1, SuffixWords
      <3>3. /\ word \in TopicWords /\ "/" \in TopicWords
            /\ KindWord(k) \in TopicWords /\ KindWord(k) # "/"
        BY <3>2, Zenon DEF TopicWords
      <3>4. 3 <= Len(topic)
        BY <3>1, <3>2, <3>3, NoOverlap
      <3>5. Len(<<word, "/">>) = 2 /\ Len(<<KindWord(k)>>) = 1
        BY OneLen, TwoLen
      <3> QED
        BY <3>1, <3>2, <3>4, <3>5
    <2>2. CASE p = "DDS"
      <3>1. Prefix(p, k) = <<>>
        BY <2>2 DEF Prefix
      <3>2. Len(Suffix(p, k)) <= Len(topic)
        BY <1>1, SuffixLemma
      <3>3. Len(<<>>) = 0
        OBVIOUS
      <3> QED
        BY <1>1, <3>1, <3>2, <3>3
    <2> QED
      BY <2>1, <2>2 DEF RpcProtocols
  <1> QED
    BY <1>1, <1>2, JoinLemma DEF ServiceTopic

\* What RpcInfo has read leads back to the topic, for every kind.
LEMMA AddressableLemma ==
    ASSUME MaxWords \in Nat
    PROVE  AddressableKinds = EndpointKinds \cup {"NONE"}
  <1> SUFFICES ASSUME NEW topic \in Texts, RpcInfo(topic).rpc # "NONE"
               PROVE  LeadsBack(topic, RpcInfo(topic))
    BY DEF AddressableKinds
  <1>1. topic \in Seq(TopicWords)
    BY TextsLemma
  <1> DEFINE p == DetectProtocol(topic)
             kinds == {k \in EndpointKinds : /\ IsPrefix(Prefix(p, k), topic)
                                             /\ IsSuffix(Suffix(p, k), topic)}
             k == CHOOSE j \in kinds : TRUE
             name == Without(topic, Len(Prefix(p, k)), Len(Suffix(p, k)))
  <1>2. p \in RpcProtocols
    BY DEF DetectProtocol, RpcProtocols
  <1>3. CASE kinds = {}
    <2>1. RpcInfo(topic) = TopicRole(p, Without(topic, Len(Prefix(p, "TOPIC")), 0))
      BY <1>3 DEF RpcInfo
    <2> QED
      BY <1>1, <1>2, <2>1, TopicBack
  <1>4. CASE kinds # {}
    <2>1. k \in kinds
      BY <1>4
    <2>2. RpcInfo(topic) = ServiceRole(p, k, name)
      BY <1>4 DEF RpcInfo
    <2>3. /\ k \in EndpointKinds
          /\ IsPrefix(Prefix(p, k), topic) /\ IsSuffix(Suffix(p, k), topic)
      BY <2>1
    <2> HIDE DEF k, p
    <2>4. ServiceTopic(p, k, name) = topic
      BY <1>1, <1>2, <2>3, ServiceBack
    <2> HIDE DEF name
    <2>5. /\ RpcInfo(topic).protocol = p /\ RpcInfo(topic).kind = k
          /\ RpcInfo(topic).service = name
      BY <2>2, RoleLemma
    <2>6. k # "NONE"
      BY <2>3 DEF EndpointKinds
    <2> QED
      BY <2>4, <2>5, <2>6 DEF LeadsBack, TopicOf
  <1> QED
    BY <1>3, <1>4

-----------------------------------------------------------------------------
(* Theorems on the names.                                                  *)

\* AnnouncedIsRecognised (create_reader, RpcUtils): whatever the names are and
\* however long, the topics that the pipe asks readers for are taken for the
\* service or the part of an action that they belong to.
THEOREM NamesRecognised == CallSpec => []AnnouncedIsRecognised
<1>1. EntriesOK => AnnouncedIsRecognised
  <2> SUFFICES ASSUME EntriesOK, NEW t \in readers
               PROVE  IF t[2] \in ServiceTopics THEN ServicesRecognised[t[2]]
                                                ELSE ActionsRecognised[t[2]]
    BY DEF AnnouncedIsRecognised
  <2>1. t[2] \in ServiceTopics \cup ActionTopics
    BY DEF EntriesOK, Topics
  <2>2. ServiceTopics = EndpointKinds /\ ActionTopics = TopicParts
    BY DEF ServiceTopics, ActionTopics, EndpointKinds, TopicParts
  <2> QED
    BY <2>1, <2>2, ServicesLemma, ActionsLemma, NamesAssumption
<1>2. CInv => EntriesOK
  BY DEF CInv, IInv, BaseInv
<1> QED
  BY <1>1, <1>2, AlwaysCInv, PTL

\* RecognisedIsAddressable (publish_rpc, add_data, RpcUtils): the name formed
\* from what RpcInfo has read is the name it has read, for topics of any kind
\* and length.
THEOREM RecognisedAddressable == CallSpec => []RecognisedIsAddressable
<1>1. EntriesOK => RecognisedIsAddressable
  <2> SUFFICES ASSUME EntriesOK, NEW t \in readers
               PROVE  (IF t[2] \in ServiceTopics THEN t[2] ELSE "NONE") \in AddressableKinds
    BY DEF RecognisedIsAddressable
  <2>1. ServiceTopics = EndpointKinds
    BY DEF ServiceTopics, EndpointKinds
  <2> QED
    BY <2>1, AddressableLemma, NamesAssumption
<1>2. CInv => EntriesOK
  BY DEF CInv, IInv, BaseInv
<1> QED
  BY <1>1, <1>2, AlwaysCInv, PTL

=============================================================================

# A TLA+ model of the eProsima DDS Enabler

The DDS Enabler bridges an application to a DDS domain: the application
publishes and receives JSON through a small C++ API and a set of callbacks, and
can act as client or server of services and ROS 2 actions. This directory holds
TLA+ modules that model the stateful core of the enabler, TLC configurations that
check them on small instances, and TLAPS proofs of their main properties for
every instance.

Paths below are relative to `src/`. `EP` stands for
`ddsenabler_participants/src/cpp/EnablerParticipant.cpp`, `Handler` for
`Handler.cpp`, `Writer` for `Writer.cpp`, `RpcStructs` and `RpcUtils` for
`rpc/RpcStructs.cpp` and `rpc/RpcUtils.cpp` of the same directory.

## 1. The system

### Components, their state and their operations

| Component | State | Operations | Modelled in |
|---|---|---|---|
| `EnablerParticipant` | `readers_`, `services_`, `actions_`, one plain mutex `mtx_`, one condition variable `cv_` | `create_reader` (discovery), `publish`, `publish_rpc`, `announce_service`, `revoke_service`, `send_service_request`, `send_service_reply`, `announce_action`, `revoke_action`, `send_action_goal`, `cancel_action_goal`, `send_action_get_result_request`, `send_action_get_result_reply`, `send_action_result`, `send_action_feedback`, `update_action_status`, `send_action_cancel_goal_reply` | `ServiceRegistry`, `ServiceCalls`, `ActionClient`, `ActionServer`, `LockOrder` |
| `Handler` | `schemas_`, `requests_id_`, `action_request_id_to_uuid_`, one recursive mutex `mtx_` | `add_data` (every sample), `add_schema`, `add_topic`, `add_service`, `add_action`, `get_type_identifier`, `get_serialized_data`, `get_new_request_id`, `store_action_request`, `get_action_request_UUID`, `is_UUID_active`, `get_action_protocol`, `handle_action_result`, `erase_action_UUID` | `ActionRequests` and the two modules above it, `SchemaStore`, `ServiceCalls` |
| `Writer` | none of its own | turns samples, types and topics into JSON, calls the application back, and calls into the participant when a goal reply is positive or a goal request is answered | its decisions, in the modules of the samples they are about |
| `RpcStructs`, `RpcUtils` | the records `ServiceDiscovered`, `ActionDiscovered`, `ActionRequestInfo` | discovery and completion of a service or action, erasure of a request, messages of ROS 2 actions, names of RPC topics | `ActionRequests`, `ServiceRegistry`, `RpcNames` |
| `DDSEnabler`, runner, YAML | the configuration, the pipe, a file watcher, a mutex for reloads | creation, reload and destruction; the public API, which forwards to `EnablerParticipant` | `Configuration` |
| The application of the examples | the types it saves in files; the goals it serves | answers queries, sends goals, gives results | `SchemaStore`, `ActionPair` |
| `InternalRpcReader`, `Message` | queue and unread counter of a reader | injection of the application's samples in the pipe | no |
| `Serialization`, log consumer, `DdsParticipant` | none | conversions and wrappers | no |
| DDS Pipe, Fast DDS | not in the repository | threads, discovery, the network | as far as the enabler sees them |

### How they interact

Three kinds of threads meet in the enabler, and a fourth beside them.

* **Discovery threads** of the pipe call `create_reader` for each endpoint that
  appears, which completes services and actions and notifies `cv_`.
* **Pipe threads** call `Handler::add_data` with each sample. `add_data` holds
  `Handler::mtx_` to its end. Inside it, `Writer` calls the application back, and
  for actions calls `EnablerParticipant` through lambdas: a positive goal reply
  requests the result, a goal request is answered at once, and a result request
  is answered at once if the result is known.
* **Application threads** call the API. These calls take `EnablerParticipant::mtx_`
  or `Handler::mtx_`, or one inside the other, once per section. A call that
  needs an endpoint queries the application for its QoS, asks the pipe for the
  topic, and waits on `cv_` for the reader.
* **The file watcher's thread** reads the configuration when its file changes and
  gives it to the pipe, under a mutex of `DDSEnabler`.

The action request map is where the first three meet: an entry is made by the goal
request (of the application as a client, of a remote client as a server), filled
by later requests and results, and erased when the result **and** a final status
are known.

### What is hard

* The steps of a call are separate critical sections: deliveries come in between.
* Goal, result and cancel exchanges and the status topic are separate DDS topics:
  nothing orders them.
* A reply is matched to its goal by a number only, in a linear search, and the
  numbers of both ends of an action are drawn independently.
* A result and the request for it may come in either order, several of each.
* Every send may fail half way through a multi-step operation, and so may every
  item of a type that is registered.
* Two mutexes are taken in both orders, and one is given up while waiting: what
  was looked up before the wait may have been replaced or withdrawn after it.
* Announcing an action takes five waits; any of them may fail with the others done.
* Types of one name differ, arrive from three sources and survive a restart in the
  application's files.
* The configuration is read outside the mutex, while it is written, and up to the
  moment the enabler is destroyed.

`PROJECT.json` lists the hazards at their lines with the property that covers
each, or the reason why none does.

### What makes each part correct

* **Action client**: a reply is taken for the goal it answers; an accepted goal's
  result is requested; one result at most; a goal leaves the map only when it is
  over, and does leave it once it has its result and a final status; no result and
  no status is notified of a goal that has left.
* **Action server**: a result and a request for it never miss each other; a
  request is answered once, with the result that the application was told was
  taken; a goal leaves the map only with its reply.
* **Both, end to end**: the client's application hears of a goal the verdict and the
  result that the server's gave on that goal; a result that was taken is heard.
* **Mutexes**: no notification of a reader is lost, and calls return.
* **Registry**: a service that has an endpoint of the enabler is whole; every
  endpoint belongs to an entry or to a call that waits; an action that is served
  leads to its three services, with an endpoint for all of them or for none, unless
  two threads announce it at once; what is announced keeps its endpoints until it is revoked; what is discovered is
  notified, in whatever order its topics appear.
* **Services**: no identifier is used twice, and a request can be answered once the
  readers are there with the announced types, whatever happens to the service between
  the two sections.
* **Names**: the name of a topic is taken apart into what it was formed from, and
  what is formed from the parts is the topic itself.
* **Schemas**: a type has one schema, the one that the application knows; it is
  reported once; what it is built from is registered; what was identified can be
  used.
* **Configuration**: the lists of topics in the pipe are those of a file that
  somebody wrote or of the application; the last edit is applied; no thread meets a
  member that is destroyed, but for the mutex of a reload (section 5).

## 2. The modules

| Module | What it models | Extends or instantiates |
|---|---|---|
| `ActionRequests` | the map `action_request_id_to_uuid_` and its critical sections, as operators on a function from UUIDs to entries | - |
| `ActionClient` | the enabler as client of actions: calls of the application, deliveries, remote servers | `ActionRequests`, `GoalTracking` |
| `GoalTracking` | what the map promises a client, abstractly: a goal is active until both its result and a final status are known | - |
| `ActionServer` | the enabler as server of actions: deliveries from remote clients, results given by the application | `ActionRequests` |
| `ActionPair` | two enablers and two applications, one the client and one the server of an action | extends `ActionClient`, instantiates `ActionServer` (`S!`) and `GoalExchange` |
| `GoalExchange` | what two such applications may rely on, abstractly | - |
| `LockOrder` | the two mutexes and the condition variable under every call that takes them | - |
| `ServiceRegistry` | `services_`, `actions_`, the RPC topics of `readers_` and the endpoints in the discovery database, under discovery, announcement and revocation | - |
| `ServiceCalls` | requests and replies of services, beside every step of the registry | `ServiceRegistry` |
| `RpcNames` | how the names of RPC topics are formed and taken apart | - |
| `ServiceNames` | that the registry may name a topic by its service or action | `ServiceCalls`, `RpcNames` |
| `SchemaStore` | the schemas, the registry of types and the application's files | - |
| `Configuration` | the configuration from its file to the pipe, and the life of `DDSEnabler` | - |
| `MC...` | instances for TLC | the module they name (`MCServiceCalls`: `ServiceNames`) |
| `...Proofs` | proofs | the module they name (`ServiceProofs`: `ServiceNames`; `ActionPairProofs`: also `ActionClientProofs`) |

### Correspondence with the code

**`ActionRequests`.** `NoEntry` is an absent key. `NewInfo`, `SetRequest`, `Mark`
and `EraseInfo` are `ActionRequestInfo` (`RpcStructs` 211-291); `Stored` with
`CanStore` is `store_action_request`, `UUIDsOf` the search of
`get_action_request_UUID`, and so on for each function of `Handler` on the map.
Each runs under `Handler::mtx_`, so each is one atomic step of a caller.
`UUIDsOf` is the *set* of keys the search may stop at, because the order of an
`unordered_map` is not specified. The time stamp and the protocol of an entry
never change after it is made, so they are not kept: the protocol is known exactly
when the entry is found (`ProtocolKnown`).

**`ActionClient`.** A delivery is one step, because `add_data` holds the
recursive `Handler::mtx_` through its callbacks into `EnablerParticipant`; the
calls of the application are split at each section. `send_action_goal` is
`SendGoalPublish` (identifier drawn and request published) and `SendGoalStore`
(the map is told); `cancel_action_goal` is `CancelCheck`, `CancelAddress` and
`CancelPublish`. `ReceiveGoalReply`, `ReceiveResultReply`, `ReceiveCancelReply`
and `ReceiveStatus` are the branches of `add_data` with what `Writer` does for
them, the follow-up of a positive reply included, in its three outcomes. Whether
`publish_rpc` succeeds depends on discovery and on the payload, and is left open.
The uninitialized UUID of a result reply that matches nothing is a choice of any
UUID. A result that cannot be converted (`unread`) is not notified, and the entry is
told of it all the same (Writer 292, Handler 208). `ReceiveFeedback` is the branch for
feedback: it is notified under the goal that the sample names, and the map is not looked
at (Writer 303-332). The remote servers are external; they answer a goal and a cancel request in
any way the callbacks tell apart and finish goals in any final state. A status
sample lists any of the goals of its action (a server that is an enabler lists
one, others list them all) and replaces one of the same topic that is not
delivered yet.

**`ActionServer`.** `ReceiveGoalRequest`, `ReceiveCancelRequest` and
`ReceiveResultRequest` are the branches of `add_data` for requests;
`send_action_result` is `SendResultCheck` and `HandleResult`. `SendResultReply` is
`send_action_get_result_reply`, which erases the entry once the reply is
published. `asked`, `replies` and `failed` are what the outside world has seen.
The server's feedback, status updates and cancel replies only read the map and are
left out.

**`ActionPair`.** Every step is a step of `ActionClient`, of `ActionServer` or of
both: what one leaves to its external partner, the other does. `Carry` brings a
request of the client to the server, `TakeGoal` is the delivery of a goal and its
answer at once, `CarryResult` brings a published result to the client. A reply goes
to the request whose identifier it carries, as the pipe does it, *not* to the
goal it was meant for: that the two agree is what is checked. The applications are
those of `ddsenabler/examples/action/main.cpp`: goals are sent by one thread; the
server works on one accepted goal at a time, announces its final status once and
gives its result. `update_action_status` is refused for a goal that has left the
map and its sample lists one goal only (`RpcUtils` 122). The module extends the client,
whose variables keep their names, and takes the server as `S`, with `s_store` and
`s_requests_id` for the map and the counter of the other process. `PairAssumption`
fixes what the client leaves open: its server is an enabler, which tells a goal
accepted or rejected and whose results can be read, no application cancels and no
feedback is sent.

**`LockOrder`.** A function of the two classes is a *program*: a sequence of
lock, unlock, check, wait, reader and notify steps, put together from the programs
of the functions it calls. At a check the function may return, and the guards
release what the thread holds. `Wait` gives up the plain mutex;
`TimeOut` may come at any time.

**`ServiceRegistry`.** An action is what happens from one release of
`EnablerParticipant::mtx_` to the next: `create_reader` and the revocations are
one step each, an announcement one step up to each wait and one after it.
`CreateReader` is `create_reader` with `service_discovered_nts_`,
`action_discovered_nts_` and `check_fully_discovered`; `AnnounceKnownService` and
`AnnounceKnownAction` are the announcements by flag of what was discovered,
`AnnounceNewService` with `ServiceAnnounced` and `AnnounceNewAction` with
`ContinueAction` those that make endpoints; `WaitTimesOut` is the failure of a
wait; `RevokeService` and `RevokeAction` are `revoke_service_nts_` and
`revoke_action`.

* An entry of `services_` is a record: `fully_discovered` and `rpc_topic` are set
  exactly when both topics are, and are not kept. In an entry of `actions_`,
  `services` are the weak pointers that still lead to an entry of `services_`, so
  that replacing the entry of a service takes it out of that set (`Unlinked`).
* `maker` is the thread whose announcement made the object that an entry holds. The new
  action of an announcement has weak pointers to the objects that its thread has made:
  those that another thread has erased or replaced meanwhile have expired
  (`AnnouncedAction`). Several threads may announce one action at once, since
  `announce_action` gives the mutex up in its waits.
* `foreign`, of the readers and of an entry, are the topics that appeared with another
  type than the one the application announces. The reader keeps the type it was made
  with, the entry that of the first topic it was given (`add_topic` takes no second), and
  an announcement has the application's types. `publish_rpc` refuses when the two differ.
* `endpoints` counts the endpoints of the enabler on each topic in the discovery
  database, as two calls may add one each. `create_reader` takes no notice of a
  topic that the enabler itself has an endpoint on.
* `call` is what each application thread announces and the topic it waits for. The
  thread's locals, such as the service it has looked up, are recovered from it.
* `announced`, `asked`, `told`, `lost` and `contended` are history: what was announced
  with success, what was announced at all, what was notified, the topics whose
  endpoint nothing leads to any more, after a timeout or a replaced entry, and what was
  announced while another announcement of it waited.
* The pipe asks once for the reader of a topic that has none. Which topics appear
  and the application's answers to the queries of types and QoS are external.

**`ServiceCalls`.** `send_service_request` is `DrawRequestId` (with `Handler::mtx_`)
and `PublishRequest` (with the other mutex); `send_service_reply` is `ReadProtocol`
and `PublishReply`. `CanPublish` is what `publish_rpc` looks at before the payload (EP 193-249): the entry,
its external server, the reader, the topic in the entry and that reader and entry agree
on its type; a request may be refused for its payload as well. `ReceiveRequest` and
`ReceiveReply` are the branches of `add_data` for services. Every step of the
registry may come between any two of them (`RegistryStep`).

**`RpcNames`, `ServiceNames`.** A name is a sequence of words: the separator, the
prefixes and suffixes of `Constants.hpp` and other text. `ServiceTopic`, `PartOf` and
`ActionTopic` are the names that `EnablerParticipant` forms; `RpcInfo` is the
constructor of that class (`RpcStructs`), branch by branch. `ServiceNames` puts it
beside the registry, for the two steps in which a name is read:
`AnnouncedIsRecognised` at `create_reader`, `RecognisedIsAddressable` where the
answer to a topic is published.

**`SchemaStore`.** A type is an identifier, a name and what it is built from.
`Discover` and `ReceiveType` are the two halves of a discovered type (Fast DDS
resolves it, the pipe calls `add_schema`); `IdentifyFromSchemas`,
`IdentifyFromRegistry` and `IdentifyFromApplication` are the three sources of
`get_type_identifier`. `AddSchema` is `add_schema_nts_` with `write_schema`,
`AddProvided` without. `RegistrationFails` and `RegistersAnother` are the ways
`register_type_nts_` ends early: some or all of the dependencies are registered
all the same. `files` is what the application of the examples keeps
(`ddsenabler/examples/utils/Utils.cpp`), where two names may share a file, since
`:`, `/` and `\` are replaced in it. `Restart` is a new enabler, in the same process
(whose registry is that of the `DomainParticipantFactory`) or in another one.

**`Configuration`.** A file is its syntax, what is in the place of its topics and
the two lists, the only part of the configuration that a reload may change. `Look`,
`Load`, `Construct`, `SetInternalCallbacks`, `Enable` and `SetFileWatcher` are
`create_dds_enabler` with the constructor of `DDSEnabler` and its failures;
`WatcherLooks`, `WatcherReads` and `WatcherReloads` are the callback of the watcher:
`is_json` opens the file first, then it is opened again and read, and only
`reload_configuration` takes the mutex. Thus an edit may fall between any two.
`OpenFile` and `CloseFile` are an edit in place, whose file is empty in between.
`DestroyMember` destroys the members in the reverse order of their declaration; the
watcher waits for its thread and the pipe for those that deliver. Whether the pipe
takes the lists, refuses them or has them already is its own business.

## 3. The runs

| Run | Module | Distinct states | Shows |
|---|---|---|---|
| `client_one_goal` | `MCActionClient` | 267,324 | one goal through its life with every answer to the goal and to a cancellation, results that can be read and that cannot, and feedback: `TypeOK`, `ResultAtMostOnce`, `MatchedGoalIsFollowedUp`, `ReleasedGoalStaysSilent`, and the liveness property `RequestedGoalIsReleased` |
| `client_two_goals` | `MCActionClient` | 346,765 | two goals of one action: `ReplyFindsItsGoal`, `EraseNeedsBoth`, and the refinement `ImplementsTracking` |
| `client_reply_race` | `MCActionClient` | - | finding: a goal reply delivered before `send_action_goal` has stored the goal is dropped |
| `server_results` | `MCActionServer` | 76,885 | results and requests of two goals, two clients asking and two results given: `TypeOK`, `ResultMeetsRequest`, `ResultRequestAnsweredOnce`, `TakenResultIsReplied`, `ReplyBeforeErase`, and the liveness property `KeptResultIsReplied` |
| `server_two_askers` | `MCActionServer` | - | finding: the second result request overwrites the first, which is never answered |
| `action_pair` | `MCActionPair` | 213,169 | two goals between two enablers: `AwaitedGoalIsServed`, the refinement `ImplementsExchange`, and the liveness properties `TakenResultIsTold` and `ToldGoalIsReleased` |
| `lock_order` | `MCLockOrder` | 124,695 | every call: `TypeOK`, `NoLostNotification`, and that a call returns unless the two mutexes are wanted in opposite orders (`CallReturnsUnlessInverted`) |
| `lock_inversion` | `MCLockOrder` | - | finding: that does happen (`EveryCallReturns`) |
| `registry` | `MCServiceCalls` | 686,520 | a service with requests and replies sent and received, and an action, each under two threads, with discovery and timeouts at any time: `TypeOK`, `EndpointIsComplete`, `EndpointsAreOwned`, `ServedActionIsWhole`, `DiscoveredIsNotified`, `AnnouncedKeepsEndpoint`; `CallTypeOK`, `RequestIdsDiffer`, `RequestIsAnswerable`; `AnnouncedIsRecognised`, `RecognisedIsAddressable` |
| `registry_revoke` | `MCServiceRegistry` | - | finding: revoking an announced action may stop nothing (`RevokedActionIsStopped`) |
| `schemas` | `MCSchemaStore` | 532,714 | four types of three names, discovered, looked up and queried, across restarts: `TypeOK`, `SchemaAgreesWithApplication`, `NewTypeIsReportedOnce`, `SchemaIsRegistered`, `IdentifiedTypeIsUsable` |
| `configuration` | `MCConfiguration` | 265,108 | a file that is written while the enabler is made, reloads it and is destroyed: `FilterIsAuthored`, `ThreadsMeetMembers`, and the liveness property `LastEditIsApplied` |

The runs of the findings check one property each, worded after a sentence of the
headers, and end with its violation. `MatchedGoalIsFollowedUp` and
`CallReturnsUnlessInverted` say exactly what is left of the property that fails:
but for the one race and the one inversion, the code does what it says. The other
properties with an exception name it too: `RequestIsAnswerable` (an announcement
that waits or has timed out, a reply topic of another type), `ServedActionIsWhole`
(an action announced by two threads at once), `ReleasedGoalStaysSilent` (feedback),
`RequestedGoalIsReleased` (a goal of which no final status was ever notified),
`ThreadsMeetMembers` (the mutex of a reload), `TakenResultIsTold` (a reply that could not be sent,
the race above), `ToldGoalIsReleased` (a status sample that was replaced or came
too early), `IdentifiedTypeIsUsable` (a type reported without a dependency) and
`FilterIsAuthored` (a file read while it is written).

### Bounds

* **Goals.** One goal shows every order of its own exchanges and of a cancellation
  (`CancelTargets` has the goal and the empty identifier). Two goals are needed
  for confusion of one with another: there a cancellation, which leaves no trace
  in an entry, is left out, as are malformed replies. Identifiers are compared
  pairwise only, so that two goals show what more would.
* **Symmetry.** `client_two_goals` swaps the two goals: both are sent to one action
  and none is cancelled, so that no constant tells them apart. `registry` swaps the
  threads that send requests, and it and `registry_revoke` those that announce and
  revoke. All check safety only.
* **Server.** The first goal has every request, its result is asked for by two
  clients and given twice; the second goal lives beside it once. Every request and
  every result is sent once: a client that retries is a second asker.
* **Pair.** Two goals of one action, each with a result of its own, which shows a
  reply that goes to the wrong one. Cancellations are left out, as the server's
  enabler never notifies a cancel request (section 5), and every goal that ends
  succeeds: the final codes differ in nothing that the maps keep.
* **Locks.** One thread of each kind and one call of each (`MaxCalls`). A deadlock
  of two mutexes needs two threads; the third is the one that wakes a waiter.
  `Created` are the topics whose readers appear during the run; the others never
  do, so that both outcomes of a wait occur.
* **Registry.** One service and one action, each managed by two threads. `MaxCalls` is 3:
  announce, revoke and announce again by any of the threads, a third call while two
  wait, or any such sequence with failures in it. A fourth call takes the run beyond
  five minutes; that more calls break nothing is what the theorems say, which hold for any
  number. `OtherType` has the topic of the replies, the only one whose type a property
  depends on: a request may be refused for its payload as well. `MaxRequests` is 3 identifiers, for two
  threads that send and a request that is received in between. An action and a
  service that is no part of it share nothing but the bound on calls, and the
  constraint `MCOneAtATime` leaves out the behaviours that touch both.
* **Names.** Every service, action and topic whose name has up to four (`MaxWords`) of twelve
  words: those that the code tests for and one for any other text. A prefix and a suffix fit in,
  with the word of a part of an action before the suffix, in any order and any number.
  `cancel_goal`, which is tested for as the words of the other parts are, only comes where
  the name of that part is formed.
* **Schemas.** Two types of one name, of different dependencies, one of them with a
  dependency that has a dependency of its own; two names in one file. Nothing
  counts, so the state space is finite without a bound.
* **Configuration.** Two edits (`MaxEdits`), each in place or as a whole, and one
  configuration from the application (`MaxReloads`). Two edits are what it takes for
  one to fall between the two readings of the other. The contents have each syntax, a
  file with an error and one that only YAML reads.
* **Deadlock** is not checked but in `schemas`: the other instances have finitely many
  goals, requests, edits and calls, and rightly stop when they are used up. Threads
  that block each other in `LockOrder` are caught by its liveness properties.

### Fairness

* `ActionClient`: weak fairness of the remote server's answer to a result request of a
  goal that it has ended, and of the delivery of that answer (a pipe thread hands over
  the sample it has). Each uses up a message. No server has to end a goal, nor to
  publish a status: `update_action_status` of an enabler publishes each status once
  (RpcUtils 122), a sample may be replaced or come before the goal is stored, and
  `Handler.hpp` 231 says that servers may publish none. `RequestedGoalIsReleased`
  therefore promises the result, and the release of a goal of which a final status was
  notified, whichever of the two comes first.
* `ActionServer`: weak fairness of the delivery of goal and result requests and of
  the end of `send_action_result`. No client has to ask and no application has to
  give a result.
* `ActionPair`: weak fairness of `PairProgress`, the disjunction of the ends of calls and
  of all that the network and the pipe do. Each of these steps uses something up, so
  that there are finitely many and fairness of the whole means that every
  one that stays enabled is taken, in any order. No application has to send a goal, end it
  or announce its status.
* `LockOrder`: weak fairness of each thread. The number of calls is bounded, so a
  mutex is not taken away for ever by others and no fairness of the mutex itself
  is assumed. The wait is a timed one, so `TimeOut` is enabled whenever it sleeps
  and the plain mutex is free.
* `Configuration`: weak fairness of the three steps of the watcher's thread. Nobody
  has to write the file, or to finish writing it.
* `ServiceRegistry`, `ServiceCalls`, `SchemaStore`: none; only safety is stated of them,
  since no topic has to appear and no application has to answer.

## 4. The proofs

All proofs are for any set of goals, actions, results, clients, services, types,
files, threads and bounds; the assumptions are the ASSUMEs of the modules, which
type the constants. `RegistryAssumption` also says that no thread manages a service
of an action as a plain one (section 6), and
`SchemaAssumption` that the dependencies of a type include those of its
dependencies. TLC evaluates them in the runs.

**The map.** `ActionRequestsProofs` has the lemmas on the operators of the map: what
each does to the entry it is about and that it leaves the others alone. They are
cited everywhere else.

**The client.** `TypeCorrect`, then the invariant `IInv` of `ActionClientProofs`
(`InvariantHolds`). `ReplyFindsItsGoal` is not inductive: that a search by number
stops at the right goal needs that numbers are drawn once, that the two exchanges
of a goal follow one another, and that the entry of a goal holds the numbers of
its own exchanges and nothing else. `IInv` says so: each number that is in flight or in
the map was drawn from `requests_id` and belongs to one goal and one kind of
request; an exchange is in one place at a time (request, reply or taken); and the
flags of an entry agree with what was notified. From it:
`RepliesFindTheirGoals`, `OneResult`, `ErasuresNeedBoth`, `ReleasedStaySilent`,
and `ClientImplementsTracking`, by one lemma for each action: the step maps to a
step of `GoalTracking` or to a stutter. `MatchedGoalsFollowedUp` needs two facts
beside it: a rejection in flight is of a goal that its server has rejected
(`RejectInv`), and the entry of an accepted goal whose reply was matched has asked
for the result or says why not, for as long as it lives (`FollowInv`). `AwaitedResultsPending`
says of every state what `RequestedGoalIsReleased` says of the end, that the result
arrives: a goal that awaits its result has one message of that exchange in flight, request or reply, and no other
goal has any. What is left to fairness is that the message is delivered.

**The server.** Likewise `TypeCorrect` and `InvariantHolds`, from which
`ResultsMeetRequests`, `RequestsAnsweredOnce`, `TakenResultsAreReplied` and
`RepliesPrecedeErasures`. `TakenResultIsReplied` relates the return values of
calls to what is on the network, across the window between the two sections of
`send_action_result`. The invariant that carries it: an entry holds the result that
was kept and no other call has been told that its result was; a goal has a reply
only when its entry is gone; and a goal does not come back, since its request is
delivered once.

Two more theorems are about what the runs leave open. `TakenResultsNotLost`: until a reply of
its goal fails, the result that was taken is in the entry or has been replied, which is
`KeptResultIsReplied` without its fairness. `LastAskersAnswered` tells what remains true
beside the second finding: the reply answers the request that came last. It needs that
identifiers grow, that the entry keeps the largest given for its goal, and that nobody
asks about a goal before its request is delivered (`LastInv`).

**The mutexes.** `LockOrderProofs` proves `TypeCorrect` and `NotificationsArrive`, for
any threads, calls and topics. That a mutex is released by the thread that holds it, as
often as it took it, depends on every program being a nest of sections, at each
place where it may return. A nest is described by a *height*, the number of times
each mutex is held before each step (`Nested`); heights compose as programs do, and one
lemma for each construction (`NestedConcat`, `NestedHolding`, `NestedTail`,
`NestedRelease` for the guards of an early return) gives that of each of the seventeen
calls (`ProgramsLemma`). The invariant says that what is left of a call has a height
that begins with what its thread holds, or, of a thread that sleeps, will hold when
it wakes. A wait has exactly the plain mutex, once, below it. For the notifications: a
reader is added at the end of a section that is followed by its notification with no
return in between (`ReadersNotified`), so that whoever adds the reader of a sleeping
thread is about to wake it (`WakeInv`).

The same heights show what the locks exclude. The mutex of the participant is not
recursive: `NoSelfDeadlock` says that no thread takes it while it holds it, through
whatever functions of `Handler` and the application it comes back.
`WaitsHoldNothing` says that a thread that sleeps has left both mutexes.
`InversionIsTheOnlyDeadlock` follows: a call that runs can go on, or its mutex is held by a
thread that can, or two threads hold one each and want the other. `InversionLasts` says that
these stop for good. So the third finding is the only deadlock of the two mutexes, for any
number of threads and calls; `MayStep`, in which it is stated, is what ENABLED says of a
thread's step, which is out of the prover's reach.

**The registry.** `ServiceProofs` proves `TypeCorrect`, `EndpointsComplete`,
`EndpointsOwned`, `ServedActionsWhole`, `AnnouncedKept` and `DiscoveredNotified`, for
any number of services, actions, threads and calls. Its `IInv` has two halves.
`BaseInv` is about one
service at a time: the endpoints in the database are counted against the calls
that wait for the reader and the entry that holds one (`CountInv`), and a call
waits only for topics of what it announces (`CallInv`). Without it a revocation
could not be shown to find in the database the endpoint it withdraws. The other half,
`Fits`, is about the three services of an action. Its first part, `Knit`, holds however
many threads announce the action: it leads to services that are known, and to none that
a thread has inserted which still waits; what it leads to has no endpoint unless an
announcement was completed. `AnnouncedKeepsEndpoint` needs no more of actions. The second,
`ActionOK`, holds of the actions that no two threads have announced at once: one that is
served leads to all three, and while it is announced, the services that are inserted so
far have their endpoints and are the only ones. `ServedActionIsWhole` needs both. The
proof has one lemma for each action and half. `DiscoveredNotified` has an invariant of its own, `FoundInv`: of what was never
asked for, the entries list exactly the topics that have appeared, and the last of
them, whichever it was, has marked and notified the service or action. It is shown
name by name: a step about one service or action leaves the topics, the entries and
the marks of every other one alone (`FrameLemma`). `RevokedStopped` delimits the fourth
finding: after a revocation that succeeds there is no endpoint left, unless the action
was found external, and then nothing was withdrawn. That a service that is revoked is
not external is `EndpointIsComplete`.

**The services.** In the same module, `CallsImplementRegistry` (the requests and replies
are stuttering steps of the registry, so that all that is proved of it holds beside
them), `CallsTypeCorrect`, `IdsDiffer` (every identifier in use is at most the
counter, and the ones about to be sent are used nowhere else) and
`RequestsAnswerable` (from the registry's `IInv`: an endpoint that is not waited for
and not lost belongs to an entry that has both topics; and from `TypesInv`: the type of a
reply topic that an entry has of another type than the announced is that of the reader,
so that the two differ only if the topic was discovered so).

**The names.** Also in `ServiceProofs`: `NamesRecognised` and `RecognisedAddressable`, for
any words and any length of a name, where the run has names of up to `MaxWords` words.
What is needed of sequences is proved first: what it is to begin or to end in one or two
words, that a name put between a prefix and a suffix is found again (`BetweenLemma`) and that a
name cut at both ends and put together is the same (`JoinLemma`, which needs that prefix
and suffix do not overlap: `NoOverlap`). Then that each test of `RpcInfo` accepts the
topics of one kind and part only. That it detects the protocol of
what the enabler has named rests on `NoNewStart`: neither the word of a part nor a
suffix makes a plain name begin as one of ROS 2.

**The pair.** `ActionPairProofs` shows first that the pair runs the two programs
(`PairRunsTheClient`, `PairRunsTheServer`: each step is a step of the end, or leaves it
alone), so that the theorems on the client hold of it as they are. `PairInv`
(`PairInvariantHolds`) is the client's `IInv` with three more parts. `ServerInv` is
about the server's end: between the delivery of its request and its one reply an accepted
goal has an entry, which holds only what was taken. (`ActionServerProofs` proves
more of the server, about several clients and failures; this is the part that the pair
needs, under the renaming.) `VerdictInv`: a goal reply in flight carries what the server's
application said of its goal, and nothing was told of that goal yet. `FollowUpInv`: the client
asks for results of accepted goals only, and holds or awaits a result reply only
of a goal that has its reply. `AwaitedGoalsAreServed` follows: an awaited goal was
accepted, so it is in the server's map or has been replied.
`PairImplementsExchange` maps a delivered goal request to `Decide`, the end of
`send_action_result` to `Offer` if the result is taken, a goal reply that finds its entry to
`TellVerdict`, a result reply to `TellResult`, and all else to a stutter. What is told of
a result is read off the replies on the network, so the last needs that no second reply
of a goal is ever published (`AnswersStay`).

**The schemas.** `SchemaStoreProofs`: `TypeCorrect`, `SchemasAgree`, `NewTypesReportedOnce`,
`SchemasRegistered` and `IdentifiedTypesUsable`. Its invariant adds three facts: a type on its way to
`add_schema` is registered with all it depends on, a schema has its name, and a file
of the application holds a whole collection unless its type was reported without a
part (`FilesComplete`), which is what a later process builds the type from.

**The configuration.** `ConfigurationProofs`: `FilterAuthored` and `ThreadsMeet`, for any
files and any number of edits and reloads. `AuthorInv` follows the lists
from the reading to the pipe through the places where they wait for the mutex;
`StandingInv` says that the members are always the first so many of their declaration,
and how many while the watcher's or a pipe thread is inside: all but the mutex of a
reload, which `ThreadsMeetMembers` excepts as the code destroys it first (section 5). `RestingApplied` is
`LastEditIsApplied` without its fairness: when no notification is left and no reload runs,
what a file says that has settled is in the configuration.

**Only model-checked.** Liveness (`RequestedGoalIsReleased`, `KeptResultIsReplied`,
`TakenResultIsTold`, `ToldGoalIsReleased`, `CallReturnsUnlessInverted`,
`LastEditIsApplied`) is out of the prover's reach, as is whatever needs ENABLED. Every
invariant and every other action property of the runs, and both refinements, is the
statement of a theorem. Of four of the six the safety half is proved too, as said
above: what is waited for cannot be lost, in the model's terms.

## 5. Findings

1. `send_action_goal` publishes before it stores (EP 518, 529): a fast reply is
   dropped and the result is never requested (`client_reply_race`).
2. A second result request overwrites the first (`server_two_askers`).
3. The two mutexes are taken in both orders (`lock_inversion`).
4. A remote client's topic makes an announced action look external (EP 1235), and
   `revoke_action` then returns true with its three services still there
   (`registry_revoke`).

Each quotes the sentence of a header it disagrees with in `PROJECT.json`.

Seen while modelling, and in the modules as the code has it, without a run that is
about it:

* `cancel_action_goal` with the empty identifier looks for the protocol of an entry
  that cannot exist (EP 561), so that it never sends what it was asked to.
* Feedback is notified under the goal that its sample names (Writer 303-332) without a
  look at the map: also of a goal that is over, or that another client has sent.
* A result that cannot be converted to JSON is not notified (Writer 292), but the entry
  is told that the result is there (Handler 208): the goal may leave the map
  without its application having heard of the result.
* Two threads that announce one action: the second erases the services that the first has
  put in `services_` (EP 868-876) while the first waits (1039). The first then ends with an
  action that is announced and whose weak pointers have expired, so that `revoke_action`
  refuses (EP 488); or each has some of the three services.
* The reply to a service that the enabler announces is refused if the topic of the replies
  was discovered with another type first (EP 244-249).
* A cancel reply of code 0, the server's *acceptance* to cancel, is notified as
  `CANCELED` (Writer 432), although the goal may succeed afterwards.
* The goal of a cancel request is read from the level above the one it is at
  (Writer 684), so that no cancel request is ever notified.
* `create_dds_enabler` with no file name returns false of an enabler that has been made
  and runs (`dds_enabler_runner.cpp` 66, `DDSEnabler.cpp` 132).
* `mutex_` is declared after `file_watcher_handler_` (`DDSEnabler.hpp` 473-476) and so is
  destroyed while the callback of the watcher may be about to take it: the exception of
  `ThreadsMeetMembers`.
* A file that is read while it is written, or a JSON file with a slip that only YAML reads,
  gives the default lists, which let every topic pass. `FilterIsAuthored` takes a file to say
  what the code's parsers read in it, so that the second case counts as authored. An edit between the first reading and
  `set_file_watcher` is not seen until the next one.
* `convert_json_to_yaml` turns each scalar of an array into a map with an empty key
  (`EnablerConfiguration.cpp` 85-92).
* A plain ROS 2 topic whose name ends in `/status` or `/feedback` is taken for that of an
  action (RpcStructs 192-206) and is not notified as a topic; the prefix is cut off
  without a look at which one it is, so that `rq/.../status` is, too. The name of a ROS 2 action is
  read with its last `/`, so that it must be given with it. Feedback and
  status of DDS actions are never recognised (RpcStructs 187), although `announce_action`
  takes that protocol. A DDS service whose name starts with `rt/`, `rq/` or `rr/` is
  taken for a ROS 2 one.
* `services_` is keyed by the name without the protocol (EP 1196): a DDS and a ROS 2 service
  of one name share an entry. `AnnouncedIsRecognised` speaks of names under one protocol.

## 6. Assumptions and what is left out

* One remote server for each action. DDS allows more; two of them would answer the
  same request twice.
* The application does not call the enabler from its callbacks; the API does not
  say whether it may, and the query callbacks run with a plain mutex held.
* In `ActionClient` and `ActionServer` a sample whose type is not known is one that is
  never delivered; when a type is known is the business of `SchemaStore`.
* A service of an action is not managed as a plain one. Services and actions
  may be announced and revoked from any number of threads.
* A topic of an action is discovered with the types that the application announces; those
  of a plain service may differ (`OtherType`). No announcement gives a service other types
  than an earlier one did, and two readers of one topic name with different types are one.
* Goal identifiers of different goals differ (they are random, 128 bits), and
  `requests_id_`, 64 bits, does not wrap.
* Whether Fast DDS finds a type object by name, and a failure to serialize a
  dependency, are choices. An incomplete type object, of which the code makes a null
  builder, is a type that cannot be built.

### Not modelled

* **Notifications of types, topics and data** (`Writer::write_data`, `write_topic`,
  `Message`): conversions to JSON without state. Their decisions, who is notified and when, are in the
  modules of what is notified.
* **Serialization of types and QoS**: conversions; that an item of a type may fail is in
  `SchemaStore`.
* **DDS participant and log consumer**: wrappers over DDS Pipe and dev-utils, without
  state.
* **`InternalRpcReader`**: its counter is protected by a mutex that its caller, in
  DDS Pipe, may or may not hold.
* **The pipe**: what a reload does to the topics in use, the routes and the threads.
  It is not in the repository; `Configuration` ends where the pipe has taken the lists.
* **Vendored code**: `thirdparty/nlohmann-json` is 24,640 of the repository's 38,460 lines
  of implementation, a JSON library that the enabler uses as it is.
* **The end of `create_reader` after an exception** (EP 87-92, 104-109): the reader is made
  and not kept if `get_service`, `get_action` or the notification of what is fully
  discovered throws, of which the first two cannot and the third only for want of memory
  or through the application.
* The examples and tests, but for the two applications above that complete the environment:
  the remaining examples are command lines and printing.

## 7. Plan

What is left, in the order of its worth:

1. **The theorems of the server in the pair**: `PairRunsTheServer` says that they hold
   there too, but they are stated of `ActionServer` under its own names.
2. **Plain topics**: `publish` and `create_topic_writer_nts_` with `readers_`, as
   state and not only as a program of `LockOrder`.
3. **Two servers of one action**: which of the client's properties survive a
   second answer to the same request.

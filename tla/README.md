# DDS Pipe in TLA+

Models of the DDS Pipe core (`ddspipe_core`) and of the parts of
`ddspipe_participants` it drives, checked with TLC and, for most safety properties of every
module, proved with TLAPS. File names below are relative to `src/`; `core/` abbreviates
`ddspipe_core/src/cpp/` and `participants/` abbreviates `ddspipe_participants/src/cpp/`.

## 1. The system

A DDS Pipe connects several *participants*. Each discovers remote endpoints in its own
network; the discoveries of all of them meet in one **DiscoveryDatabase**, whose thread
tells the **DdsPipe**. The DdsPipe keeps a **DdsBridge** per topic and an **RpcBridge** per
service. A DdsBridge has a **Track** per participant: a reader, and the writers of the other
participants, shared between the Tracks of the bridge. When a sample reaches a reader, its
listener calls the Track, which emits a task to a shared **SlotThreadPool**; a thread of the
pool takes the samples and writes them. An RpcBridge does the same with requests and replies,
and remembers in a **ServiceRegistry** per participant whom a reply is for. Payloads travel by
reference in a **PayloadPool**. A **Monitor** has two **producers** report, from time to time,
what the readers and the discovery of types told them.

| component | state | operations | called by / calls |
|---|---|---|---|
| Track (`core/communication/dds/Track.cpp`) | `enabled_`, `exit_`, `data_available_status_`, `writers_`; mutexes `track_mutex_`, `on_transmission_mutex_` | `enable`, `disable`, `add_writer`, `remove_writer`, destructor, `data_available_`, `transmit_` | DdsBridge; the reader's listener; the thread pool |
| readers (`participants/reader`) | `enabled_`, waiting samples, the callback | `enable`, `disable`, `take`, listener | Track; Fast DDS threads |
| writers (`participants/writer`) | `enabled_`, histories, writers by QoS | `enable`, `disable`, `write` | Track, RpcBridge |
| DdsBridge (`core/communication/dds/DdsBridge.cpp`) | `enabled_`, `tracks_`, `routes_` | constructor, `enable`, `disable`, `create_writer`, `remove_writer` | DdsPipe; Track, participants |
| DiscoveryDatabase (`core/dynamic/DiscoveryDatabase.cpp`) | `entities_`, a double queue, callbacks, `enabled_`, `exit_`, a thread | `start`, `stop`, `add_endpoint`, `update_endpoint`, `erase_endpoint`, the thread's routine | listeners of the participants; DdsPipe |
| discovery listeners (`participants/participant/{rtps,dds}/CommonParticipant.cpp`) | none | discovered, changed, removed | Fast DDS; DiscoveryDatabase |
| DdsPipe (`core/core/DdsPipe.cpp`) | `enabled_`, `allowed_topics_`, `current_topics_`, `bridges_`, `current_services_`, `rpc_bridges_` | constructor, destructor, `enable`, `disable`, `reload_configuration`, three callbacks | the application; the thread of the database |
| RpcBridge, ServiceRegistry (`core/communication/rpc`) | `init_`, `enabled_`, `current_servers_`, proxies, task flags; requests in progress | `enable`, `disable`, `discovered_service`, `removed_service`, `transmit_` | DdsPipe; readers; pool |
| payload pools (`core/efficiency/payload`) | reference counts or owners of payloads | `get_payload`, `release_payload` | readers, writers |
| AllowedTopicList, configurations (`core/dynamic`, `core/configuration`) | allow and block lists, routes | `is_topic_allowed`, `is_valid` | DdsPipe, DdsBridge |
| monitoring (`core/monitoring`) | counters, mismatches, errors, types; `enabled_`, consumers and a mutex per producer; the timers of a Monitor | `msgs_received`, `msgs_lost`, `type_mismatch`, `qos_mismatch`, `type_discovered`, `add_error_to_status`, `produce_and_consume`, `disable`, `clear_consumers`, `clear_data`; constructor and destructor of Monitor | readers, discovery of types; a timer; the application |
| dynamic types (`participants/participant/dynamic_types`) | registered types, an internal reader | type discovery, schema | Fast DDS; schema writer |
| ParticipantsDatabase, YAML, addresses, QoS, logging | values | parsing, comparison, output | start-up |

What is hard about it:

* **interleaving**: sources, pool threads, the thread of the database and the application
  meet in a Track through one status word, two atomics and four mutexes;
* **ordering**: discoveries, losses, reloads and enabling in any order, a discovery before
  the pipe is enabled or while its topic is blocked;
* **requests and replies**: several servers reply to one request, replies reach participants
  that never sent it, a reply may come before the request's entry is in the registry, a
  registry is bounded;
* **shared memory**: a payload is referred to by a reader change, routed data and writer
  changes, which threads of their own let go of;
* **lifetime**: a Track or a pipe is destroyed while the pool or the database may still
  call it, and producers outlive their Monitor;
* **partial failure**: creating an endpoint throws in the middle of a loop over
  participants, or inside a `noexcept` callback;
* **liveness**: a wake-up must not be lost, and calls that wait for a transmission must return.

Correctness per component: the Track forwards each sample once and in order, to writers
that are enabled, and nothing once it is disabled; the Tracks and writers of a bridge are
those of its routes and follow it; the database mirrors what the participants see and tells
it; the pipe forwards exactly the allowed topics while it is enabled, through writers where
there are readers; a client gets the reply to its own request, and no wake-up of an
RpcBridge is lost; a payload stays in memory as long as it is referred to and no longer; a
message is counted in one report. `PROJECT.json` lists every hazard with its line and its properties.

## 2. Modules

| module | models | correspondence |
|---|---|---|
| `Track` | one Track, its reader and writers, the pool's tasks | One step per access another thread can observe; `pc[t]` is the place of thread `t`. A mutex is free when no thread stands in its critical section (`TrackMutexFree`, `TxMutexFree`, `ReaderMutexFree`, `SampleLockFree`). `status` is `data_available_status_`, an unsigned word of modulus `StatusModulus`. `ReaderKind` selects what differs between InternalReader and the RTPS and DDS CommonReaders. |
| `Relay` | what a Track promises: one sample in flight, which lands, and a backlog that is worked off | abstract; `Track!Abstract` is the refinement mapping |
| `TrackProofs`, `DeliveryProofs` | theorems about `Track`: who is where, and what it delivers | section 5 |
| `DdsBridge` | a bridge, one step per Track it visits, against the transmissions of the Tracks | A Track is reduced to `phase`, `targets`, `busy` (in the loop of `transmit_`, hence holding `on_transmission_mutex_`) and `flight`. Writer objects are numbered, so that two writers of one participant differ. `ValidRoutes` is what `RoutesConfiguration::is_valid` lets through. |
| `BridgeProofs` | theorems about `DdsBridge` | section 5 |
| `DiscoveryDatabase` | the listeners, the double queue, its thread, start and stop | `worker` is the place of the thread, `stopper` that of the thread that calls `start()` and `stop()`; a callback lasts from `WorkerCall` to `WorkerReturn`, with `callbacks_mutex_` held. Nothing in `src/` calls `erase_endpoint()`; `Erased` stands for an application that does, on any endpoint in `Erasable`. |
| `DiscoveryProofs` | theorems about `DiscoveryDatabase` | section 5 |
| `DdsPipe` | the pipe on top of `DiscoveryDatabase`, which it extends | `mutex_` is held for the whole of each operation and callback, so each is one step; a callback is the pipe's part of `WorkerReturn`. A failing creation is a nondeterministic set `failing`. `Admits` and `AllowedBy` are `AllowedTopicList`: `topicList` has the allowlist and the blocklist, `Matches` says what each filter matches, and a service is a pair of topics. |
| `PipeProofs` | theorems about `DdsPipe`, on top of `DiscoveryProofs` | section 5 |
| `RpcBridge` | the bridge of a service, its registries, the threads of the pool; clients and servers | `caller` is the call DdsPipe is in, `job[t]` the place of a thread in `transmit_`, with the data in hand. `on_transmission_mutex_` is shared by the busy threads; the mutex of a registry is held from before the write of a request to the end of `add` (`RegistryFree`). `raised` is the flags of `tasks_map_`, `tasks` the emissions not yet begun. Dereferencing a null pointer sets `crashed`, which ends the behaviour. |
| `RpcProofs` | theorems about `RpcBridge` | section 5 |
| `PayloadPool` | the three pools, and who holds payloads: changes of readers, routed data, changes of writers | `kind` selects the pool. A fast pool counts in an atomic word: a reference is taken away in one step (`TakeAway`) and the word read in another (`TestFree`, `TestKeep`). Memory that was given back may hold anything. |
| `CountedPayloads` | what a pool promises: what is held stays in memory | abstract; `PayloadPool!Promise` is the refinement mapping |
| `PoolProofs` | theorems about `PayloadPool` | section 5 |
| `Monitor` | a Monitor, the two producers, their timers, the threads that tell them | A method of a producer is a look at `enabled_` and, later, one step under its mutex (`call`). `app` is the place of the application in the constructor, in `monitor_status()` and `monitor_topics()` and in the destructor. |
| `MonitorProofs` | theorems about `Monitor` | section 5 |
| `MCTrack`, `MCBridge`, `MCDiscovery`, `MCPipe`, `MCRpc`, `MCPool`, `MCMonitor` | instances for TLC | participants, endpoints, topics as model values |

`DdsPipe` composes with `DiscoveryDatabase` directly. `DdsBridge` uses, as the behaviour of
each Track, what `Track` and `Relay` show: after `disable()` nothing is in flight
(`QuietWhenDisabled`), and a Track enables the writers it is given (`WritersReadyWhenUsed`).
`DdsPipe` has of each RpcBridge whether it is enabled and which servers it knows; `RpcBridge`
takes the calls of the pipe one at a time, as the pipe's mutex makes them, in any order.

Environment, modelled from its use because its source is not in the tree: the
SlotThreadPool runs every emitted task once on some thread; DBQueue is two queues with
`Swap`; the destructor of a PeriodicEventHandler waits for its callback; Fast DDS delivers a
sample to a reader with the reader's lock held, and numbers what a writer sends from 1.

## 3. Runs

| run | question | bounds |
|---|---|---|
| `TrackForward` | No wake-up lost, each sample to each writer once and in order, the status a true unsigned word | InternalReader, of a topic that is best-effort to no effect, 1 controller, 2 sources, 2 pool threads, 2 writers, 3 samples |
| `TrackControl` | Writers enabled when used, nothing moves after `disable()`, best-effort samples that arrive meanwhile are dropped; with writers replaced, a corrupt sample and the destructor | RTPS best-effort reader, 2 controllers, 1 source, 2 pool threads, 2 writer objects of one participant, 2 samples |
| `TrackLive` | What waits is taken, calls return, the Track implements the Relay with its fairness | reliable DDS reader, 1 controller, 1 source, 2 pool threads, 2 writers, 2 samples |
| `BridgeOperations` | Tracks match the routes, with one writer per participant, Tracks and writers follow the bridge, only a `disable()` makes a sample meet a disabled writer, every call returns | 3 participants, one with a route, one repeater; 1 more writer, 1 failure |
| `DbThreads` | The database mirrors the network and tells it, no callback reaches a destroyed listener, every push is processed, `stop()` returns | 2 participants, an endpoint each, 4 operations |
| `PipeTopics` | Exactly the topics the lists allow are forwarded, and only by an enabled pipe | 2 participants with a reader each of one topic, one builtin topic, 5 pairs of allowlist and blocklist, 3 operations, 1 failure |
| `PipeEnabled` | Writers where readers are; reloads reach services; discovery leads to forwarding | 3 readers in 2 participants, 1 server, 2 pairs of lists, 4 operations |
| `Rpc` | One task per reader, no wake-up lost, each client its own reply and once per participant, a reply finds its request, quiet after `disable()` | 3 participants, of which 2 RTPS: one a repeater, one with a rate limit; 2 servers, one of them reached through all three; 2 requests, 2 pool threads (symmetric), registries of one entry, 3 calls, 3 replies, 1 failure |
| `Pool` | Held payloads stay, others go, the pool ends clean, the pool keeps the promise of `CountedPayloads` | each of 3 pools, 3 threads, changes of this pool and of another, routed data, changes of writers |
| `Monitor` | A message is in one report, what is gathered is reported, little is left for the next Monitor | 1 reader, 1 discoverer of types, 2 Monitors one after the other, 2 messages |

The bounds let the interesting cases happen. Two pool threads are needed for a second task
to overlap the first, and two sources for a sample to arrive during a callback. Three samples
let one arrive before, one during and one after a transmission. `MaxTasks` limits how often
a Track is enabled while old tasks are still queued; with 1, an old task meets a newly
enabled Track. Three or four operations on the database let an endpoint be found, lost and
found again beside another. Two requests and a registry of one entry make a registry forget a
request in progress (`DEFAULT_MAX_ENTRIES_` is 5000: 4999 fit); two servers and a participant
that both are reached through make replies cross. Three holders of a payload are the least with
which it passes from reader to writer while both ends are let go of. Two Monitors are needed to
see what the first leaves in the producers. One failure suffices, as every action that may fail is enabled
without it.

Deadlock is not checked where a behaviour may stop: a Track that is destroyed, a database
a pipe or a bridge nobody calls any more, a network at its bounds.

**Fairness.** `Track!Fairness` is weak fairness of each thread that is inside a call, a
callback or a task; calls and arrivals may stop. `DatabaseFairness` is the same for the
thread of the queue, for a listener that has pushed and has still to notify, and for a
`stop()` in progress. In `DdsBridge`, `ThreadFairness` is strong for the operation in
progress, since `std::mutex` is given to a waiter in the end if it is released again and
again; `BurstsEnd` says that every reader runs out of data now and then. That is an
assumption about traffic, not about the code: see the disagreement about `transmit_` below.
`PayloadPool!Fairness` is weak fairness of a thread that has begun to release a payload, and
`Monitor!Fairness` of the timers and of their callbacks: a mutex of a producer is only held for
a method, and nothing in it waits.

## 4. Disagreements between code and text

Shown by runs (`expect: violation`):

* `DbRediscovered`: an endpoint that is lost and found again is stored without a callback,
  so the pipe does not create its writer or enable its service again.
* `PoolLast`: a fast pool takes a reference away in one atomic access and tests the word in
  another. Two threads that release the last two references may both read zero, and the block
  is freed twice; `FastPayloadPool.hpp:30` says it is "checked and modified in a single atomic
  operation". `CleanWhenEmpty` and `LastOneFrees` leave out what follows.

Met while modelling, where the models follow the code and the properties leave them out:

* `Track::enable` raises `enabled_` before it resets the status: a callback or an old task
  between the two leads to two queued tasks, or to a `fetch_sub` that wraps. The mutex keeps
  the tasks apart and the next turn restores the status; `TrackForward` covers both.
* `~Track` waits for no task that is queued, or has begun and not yet taken the mutex
  (`TouchDestroyed`), against `Track.hpp:63`.
* `DdsBridge::disable` goes from Track to Track, and the first disables writers that the others
  still use: their samples are lost with an error, against `Track.cpp:99`.
  `OnlyDisableSilences` says that nothing else makes a sample meet a disabled writer.
* `Track::add_writer` replaces a writer of the same participant; `Track.hpp:101` says it does
  nothing. DdsBridge asks `has_writer` first.
* A best-effort DDS reader keeps samples that arrive while it is disabled, against the comment
  at `participants/reader/dds/CommonReader.cpp:219`; `DiscardsWhileDisabled` is about the RTPS
  reader.
* The database is keyed by guid: an endpoint that two participants see is refused the second
  time and inactive once one of them loses it. `MirrorsNetwork` is checked where each endpoint
  is seen by one.
* `exit_` is never lowered, so a database that is started again has a thread that ends at
  once (`Restarts = TRUE`).
* `DdsPipe::disable` leaves services enabled. A reload of a disabled pipe leaves
  `current_services_` stale, and `enable()` then enables services that are blocked
  (`DdsPipe.cpp:213`, against `DdsPipe.hpp:411`); `ServicesObeyReload` is about a pipe that stays
  enabled.
* The removal of a server is reported as an update, which `updated_endpoint_nts_` ignores for
  services; `removed_service_nts_` is never reached (`DdsPipe.cpp:333`, against
  `DdsPipe.hpp:285`), so an RpcBridge keeps its servers for ever.
* `WildcardDdsFilterTopic::contains` is never true, so no list is ever shortened; it decides the
  same all the same.
* With `remove_unused_entities`, a topic without a bridge (blocked, or the pipe disabled)
  remembers its first discoverer only, and for ever: later readers in other participants get
  no writer, and a reader that is gone gets one. `WritersWhereReaders` is checked for a pipe
  that is enabled from the start and never blocks the topic.
* `DdsBridge::create_writer` may throw, inside the `noexcept` `discovered_topic_nts_`
  (`NewWriterFails`).
* `transmit_` holds its mutex for as long as the reader has data, though its comment says it
  is freed in every iteration; a reader that never runs out keeps `remove_writer` waiting,
  with the mutexes of the bridge and of the pipe held. Hence `BurstsEnd`.
* `RpcBridge::transmit_` dereferences what `take` gave before it looks at the return code: a task
  that runs while `enable()` has raised `enabled_` and not yet enabled the reader, or meets data
  the reader refuses, dereferences a null pointer (`TakeNothing`).
* `RpcBridge::discovered_service` dereferences the registry of a participant that is not RTPS,
  which has none (`Discovered`).
* A writer with a `max_tx_rate` drops a request and returns RETCODE_OK; `transmit_` then
  registers the number of an earlier request, or 0, against `ServiceRegistry.cpp:70`. Properties of
  replies leave out participants with a limit.
* A registry is never disabled: requests go on to a participant whose last server is gone. An
  entry whose reply could not be written stays. A client gets a reply from each participant its
  request went to, not one in all; `EachClientItsReply` is per participant.
* A producer looks at `enabled_` without its mutex, and its `init()` writes it without: a call
  that was let in may end after `clear_data()`, and the next Monitor reports it. `LittleIsLeft`
  bounds that.

## 5. Proofs

### Track

`TrackProofs` proves, for every number of controllers, sources, pool threads, writers and
samples, from `TrackAssumption` alone (the thread sets are disjoint, the first writers belong
to different participants, the modulus exceeds 3):

* `TypeCorrect`: `Spec => []TypeOK`.
* `QuietCorrect`: `Spec => []QuietWhenDisabled`.
* `WritersReadyCorrect`: `Spec => []WritersReadyWhenUsed`.
* `RelayCorrect`: `Spec => ImplementsSafeRelay`, the safety part of the refinement.

The invariants are not inductive by themselves: a pool thread at `tx_write` is harmless only
because of where the controller stands. `TrackInv` adds what makes them so:
`OneController` and `OneTransmitter` (the mutexes exclude), `EnabledFirst` (`enabled_` is
raised first and lowered first), `ReaderInside` (the reader is enabled last and disabled
right after the wait), `WritersAround` (writers are enabled around the reader) and
`InHandInside` (a sample in hand came from an enabled reader, for writers of the Track). The
step is proved action by action. For the refinement, `FlightOf` and `FlightKept` say that the
sample in flight is well defined and moves only with the writing thread; each action is then
a step of the Relay or stutters.

`DeliveryProofs` goes on from `TrackInv`:

* `ForwardedCorrect`: `Spec => []ForwardedInOrder`. The invariant `OrderInv` says where each
  sample is: what was taken for a writer is what it was given and what the thread that
  transmits holds for it (`Accounted`), all of it comes before what waits (`TakenBeforeWaiting`),
  and numbers grow with arrival (`HaveArrived`). `TrackInv` gives the one thread that transmits.
* `DiscardCorrect`: `Spec => []DiscardsWhileDisabled`, which is about an RTPS reader of a
  best-effort topic. A late sample is dropped where it arrives, so none is in the queue or was
  taken. A best-effort DDS reader keeps them, as section 4 says, and an InternalReader does on any
  topic: it announces them when it is enabled, and forwards them.
* `WakeupCorrect`: `Spec => [](CountsAll => NoLostWakeup)`, where `CountsAll` asks for an
  InternalReader or a reliable topic, and a status word that does not wrap within the samples of
  the instance. An RTPS or DDS reader of a best-effort topic announces nothing when it is enabled,
  so what it still holds (an RTPS one from before it was disabled, a DDS one from meanwhile too)
  waits for the next sample. `AnnouncedOnce` bounds the status by what has arrived: each sample
  adds 2, a transmission sets 1. `RaisedIsPending` says that a
  status which tells the listener to emit nothing tells the truth, and `EndsWithReason` that a
  transmission about to end on a status of 1 leaves nothing behind that is not about to be
  announced.

### RpcBridge

`RpcProofs` proves, for every number of participants, servers, requests, threads and for every
bound, from `RpcAssumption` alone (numbers for participants, RTPS ones among them, finitely many
threads):

* `RpcInvariant`: `Spec => []RpcInv`.
* `FlagCorrect`: `Spec => []FlagMatchesTask`.
* `WaitingCorrect`: `Spec => []WaitingHasTask`.
* `RpcQuietCorrect`: `Spec => []QuietWhenOff`.

`RpcInv` adds to the three properties what makes them inductive: the part of the types the
steps need (`RpcTypes`), that `enable()` has `enabled_` up to its end (`EnabledInside`), that the
readers of a bridge that is off are off (`ReadersOff`), and that threads which are busy while
the bridge is off are at the head of their loop (`LoopsWhenOff`). `FlagMatchesTask` counts:
its steps rest on lemmas about the cardinality of the set of threads that run for a reader when
one thread joins, leaves or moves within it. `WaitingHasTask` holds through the step that lowers
a flag because the flag and the unread count are under one mutex, and through `enable()` because
each reader announces what it kept when it is enabled, not before. RTPS readers do so for
reliable topics only, and the model takes the topics of a service to be reliable.

And about requests and replies:

* `RpcTypeCorrect`: `Spec => []TypeOK`.
* `RepliesCorrect`: `Spec => []RepliesFindTheirRequest`.
* `EachClientCorrect`: `Spec => []EachClientItsReply`.

`LogInv` follows a copy of a request that a writer has sent: it is in the registry, or a thread
holds the registry's mutex to add it, or it was evicted or answered (`Remembered`); a
writer without limit registers only what it sent (`RegisteredWasSent`), under numbers that
differ (`Numbered`), so the entry a reply finds is that of its request (`ReplyHasClient`). `get`
waits for the mutex, which excludes the second case. That each client is answered once
needs more. A request waits once, is routed by one thread and goes through each participant once
(`SentOnce`). Until it is registered nobody deals with its replies (`AddedFirst`), and
once it was answered its entry is about to be erased (`ErasedNext`) by the one thread that runs
for the reader of replies, which `FlagMatchesTask` makes one.

### DdsBridge

`BridgeProofs` proves, for any participants, routes, repeaters and number of writers created:

* `BridgeTypeCorrect`: `Spec => []TypeOK`.
* `AllFollowCorrect`: `Spec => []AllFollowBridge`.
* `OnlyDisableCorrect`: `Spec => []OnlyDisableSilences`.
* `TracksMatchCorrect`: `Spec => []TracksMatchRoutes`.

The properties speak of a bridge between operations; the invariants say what holds in the
middle of one. `SwitchInv` has, for each operation, what is true of the Tracks it has visited
and of those still in `todo`; `NumberInv` that the writer being created is new; `FlightInv`
that a sample in flight goes to writers its Track still has, since removing one waits for the
transmission; `RouteInv` how far the Tracks differ from the routes while a writer is being
added or removed, as long as no creation has failed.

### DiscoveryDatabase and DdsPipe

`DiscoveryProofs` proves, for any participants, endpoints and number of operations:

* `DatabaseTypeCorrect`: `DatabaseSpec => []DatabaseTypeOK`.
* `NoCallbackCorrect`: `DatabaseSpec => []NoCallbackWhileDestroyed`.

The thread has the operation at the head of its queue until the callback has returned
(`AtWorkHasItem`), callbacks are registered only outside the second half of `stop()`
(`RegisteredUntilCleared`), and run only while they are (`CallsWhileRegistered`).

Of the endpoints that one participant may discover (`Single`), whatever others do:

* `SingleMirroredCorrect`: `DatabaseSpec => []SingleMirrored`, the database being what the network
  is of them once the queue is worked off.
* `SingleToldCorrect`: `DatabaseSpec => []SingleTold`, the callbacks having reported it, if the
  database is not started again after `stop()` (a second `start()` finds endpoints that nobody
  was told of).
* `NothingInSilence`: where it is not started again, and no lost endpoint is found again,
  `process_queue_` never replaces one of them without a callback.

Where, as in the runs, every endpoint is one of them, these are what the runs check:

* `MirrorsNetworkCorrect`: `DatabaseSpec => []MirrorsNetwork`.
* `ToldEverythingCorrect`: `DatabaseSpec => []ToldEverything`, without a second `start()`.

The argument for the first is `PendingCatchesUp`: the operations that are pending on both sides of
the queue, applied one after the other, lead from the active `Single` endpoints of the database
to those that are discovered. A push adds the last operation, the thread takes the first (and what it
refuses changes nothing), and exchanging the sides changes nothing as the thread swaps only when
it has emptied its own (`SwapsWhenEmpty`). For the second, `ToldAsItIs` follows every endpoint but
the one at work, and an endpoint that is replaced in silence was inactive, so some participant
had lost it (`InactiveWasLost`). Of the endpoints that two participants discover the first is
false, as section 4 says. For the third, `AddsAreNew` says of the pending operations that none
adds an endpoint which is inactive, in the database or by an operation before it.

`PipeProofs` proves, for any endpoints, lists and order of calls, where topics and services are
finite sets (`PipeAssumption`) so that failed creations can be counted:

* `PipeRunsDatabase`: `Spec => DatabaseSpec`, so the theorems above hold of the pipe.
* `PipeTypeCorrect`: `Spec => []TypeOK`.
* `ForwardsOnlyAllowedCorrect`: `Spec => []ForwardsOnlyAllowed`.
* `AllowedIsForwardedCorrect`: `Spec => []AllowedIsForwarded`.

The two last properties meet in `current_topics_`: it is raised exactly for the known topics
that are allowed while the pipe is enabled (`ActiveIsAllowed`), no other topic has an enabled
bridge (`OnlyActiveForwards`), and each of them has one unless it could not be created
(`ActiveForwards`). A reload is the hard step, as it changes the lists under all topics at once.

* `ServicesObeyCorrect`: `Spec => []ServicesObeyReload` where `StaysEnabled`: the constructor
  enables the pipe, nobody disables it, and a stopped database is not started again. The
  database then runs only in an enabled pipe (`RunsEnabled`), so that no reload finds the pipe
  disabled and leaves the flags of the services as they were (`FlagsAreAllowed`).
* `SteadyWritersCorrect`: with `remove_unused_entities` (`SteadyPipe`), once the discoveries are
  worked off, a topic that is `Steady` has writers in exactly the participants that have an
  active reader in it, whatever the other topics go through.
* `WritersWhereReadersCorrect`: `Spec => []WritersWhereReaders`, where every topic is `Steady`.

`WritersFollow` says what holds between two callbacks of such a topic: a reader has the writer of
its participant unless its own callback is still to come, and a writer has a reader unless the
callback at work is about to remove it. `CallbackSettles` and `WorkReaders` show that each
callback repairs this for the endpoint it is about; that it is about no other's needs `ProperInv`
(the endpoint of an operation is discovered by its participant), and that no change goes without a
callback is `NothingInSilence`. A known topic has its bridge (`KnownHasBridge`), so that neither a
reload nor `enable()` creates one, which would have the writer of the first discoverer only.

Each hypothesis of `SteadyPipe` and `Steady` is needed. On variants of `PipeEnabled` TLC finds
`WritersWhereReaders` violated if an endpoint may be found again, a creation may fail, a topic is
builtin, an endpoint may be erased or has two discoverers, a list refuses the topic, the pipe is
constructed disabled or disabled later, or the database is started again.

### Monitor

`MonitorProofs` proves, for any readers, discoverers of types, Monitors and messages, where
the bounds are numbers (`MonitorAssumption`):

* `MonitorTypeCorrect`: `Spec => []TypeOK`.
* `EachCountCorrect`: `Spec => []EachCountReportedOnce`.
* `LittleLeftCorrect`: `Spec => []LittleIsLeft`.

`TimersInv` says that a timer which may fire has a producer with consumers and ends before they
are taken away, so no report goes nowhere; the balance of `EachCountReportedOnce` is then kept
counter by counter. `LeftInv` follows the topics producer through the destructor: once it is
passed it is disabled, and of each reader it may get no more than the call that had begun.

### Payload pools

`PoolProofs` proves, for any Payload objects, threads, kinds of pool and blocks, from
`PoolAssumption` alone (changes and data are finitely many and distinct):

* `PoolTypeCorrect`: `Spec => []TypeOK`.
* `CountCorrect`: `Spec => []CountIsHolders`.
* `HeldCorrect`: `Spec => []HeldIsLive`.
* `PromiseCorrect`: `Spec => KeepsPromise`, the refinement of `CountedPayloads`.
* `CleanCorrect`: `Spec => []CleanWhenEmpty`.

The argument: a count is the number of holders, since both change in one step; a block that is
tested for zero, or was ever given back, had no holder then and can have none later, since a
reference is made only from one that is held. That the two threads of `PoolLast` free a block twice
does not contradict it: nobody holds the block. That the pool ends up clean needs more
(`CleanInv`): a block without references has been given back or has a thread about to read its
word, and what was released is the number of blocks given back, as long as none was twice.

### Model-checked only

Every liveness property and the fair part of `ImplementsRelay`, as liveness under fairness and
ENABLED are out of the prover's reach here. Every invariant that a passing run checks is proved.

## 6. Not modelled, and the plan

Not modelled: creation and matching of Fast DDS entities, security and transport set-up, YAML,
addresses, QoS values, logging, generated type support, formatting. They have no state of
their own that other components depend on, or their state belongs to Fast DDS.

Much the largest part of the lines of the repository is of that kind: the type support that
fastddsgen generated for the monitoring and logging topics, in two versions, the YAML reader,
and the constructors that set Fast DDS attributes. What consumers do with a report is left out,
as is how a type is registered and passed to a schema handler. The writers by QoS (MultiWriter)
keep a map of writers, but every access is under the mutex of BaseWriter, and nothing is ever
removed; Track and RpcBridge have the BaseWriter around it.

Still to do, in order of importance:

1. The writers by QoS with the repeater and self filters, on the side of the pool as well.
2. Dynamic types: registration, the internal reader and the schema handler, of which a Track
   shows the reader.
3. The choice of the routes of a bridge (`RoutesConfiguration` and `TopicRoutesConfiguration`) as
   an operator.

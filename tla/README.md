# A TLA+ model of aion-core

aion-core runs microservices on edge devices. Microservices exchange *kanbans*
(small messages, with files beside them) through redis streams; a *service
broker* starts the microservices in kubernetes, watches what they output and
starts the services that come next, on this device or on another one; in
cluster mode a *master* distributes settings to *workers* and collects their
states. This directory models those parts in TLA+, checks the models with TLC
and proves the safety properties of all eight components with state with TLAPS.

Paths below are relative to `src/`.

## 1. Components

### 1.1 Kanban server (`cmd/kanban-server`, `internal/kanban/redis.go`, `pkg/my_redis`)

* **State.** One redis stream per unit and direction
  (`kanban:before:<service>:<number>`, `kanban:after:...`) or static topic.
  For each call of `ReceiveKanban`/`ReceiveStaticKanban` a handler goroutine
  (`res`) and a `WatchKanban` goroutine (`prevID`, `nextID`), joined by an
  unbuffered channel.
* **Operations.** `SendKanban`/`SendStaticKanban` (XADD MAXLEN 50),
  `ReceiveKanban` (XREAD from 0, one entry at a time; XDEL of the *previous*
  entry when the next one is read), `DeleteStaticKanban`, a flush when the
  service broker boots.
* **Hard.** A watcher outlives its handler, because neither XREAD nor the
  channel look at the context; several sessions read and delete in one stream;
  trimming removes entries that nobody has read.
* **Correct means.** A session skips, repeats and reorders nothing by itself,
  loses at most the kanban that it is sending, and sends what stays there.

### 1.2 Service broker (`cmd/service-broker/app`)

* **State.** The controller's `aionSetting`, `microserviceList` and context;
  the watcher's own `aionSetting`, read without its lock by one
  `WatchMicroservice` goroutine for each unit that was started.
* **Channels.** `aionCh` (1), `aionChForWatcher` (0), `startCh` (0), the
  device controller's `recvCh` and `sendCh` (1 each).
* **Operations.** A setting is deployed (stop all, pass it to the watchers,
  replace the list, start the startup services); a kanban in an after stream is
  routed to the before stream of the next service, which is then started, or to
  another device; a kanban of another device starts a service.
* **Hard.** Redeploys while kanbans are routed and starts are pending; three
  kinds of goroutines that block on each other.
* **Correct means.** Watchers route by the deployed setting; a unit has one
  watcher; a kanban is forwarded once per deployment; nobody waits for ever.

### 1.3 Scale container (`internal/microservice`, `pkg/k8s`)

* **State.** The service's entry, one `NumOfUpState` per container number, and
  the config map, workload (job or deployment) and service of each container in
  kubernetes.
* **Operations.** `NewScaleContainer` (a container per number, from one entry),
  `StartMicroservice` (three Applies, stops at an error), `StopMicroservice`
  (three Deletes, goes on after an error), and on SIGTERM a stop by main.
* **Hard.** Calls that fail, that fail after they had their effect, whose
  retries run out before the object is gone; jobs that expire; objects that an
  earlier process or declaration left; a stop by main beside the controller.
* **Correct means.** The counter agrees with what exists, a start brings what is
  declared now, a stop and an exit leave nothing, the objects fit together.

### 1.4 Send-anything (`cmd/send-anything/app`)

* **State.** Per transfer: the client's list, the stream, the handler's
  directory/file/chunk position and counts; the receiver's disk; a channel of
  capacity 1 to its service broker.
* **Operations.** A kanban, then files and directories chunk by chunk, EOS with
  the number of files; an MD5 hash of each file; hand-over of the kanban.
* **Hard.** Faults of client, stream and file system at each step, concurrent
  handlers on one disk, the defer
  that blocks the answer until the kanban is taken.
* **Correct means.** OK means complete; failures have a reason; every transfer
  ends and every kanban that arrived is handed over.

### 1.5 Project server (`internal/services/project_service.go`)

* **State.** `p.prj`, a pointer to some request's message, shared by concurrent
  handlers with hardly any lock; `AionCh` (1).
* **Operations.** `Apply`, `Delete`, `Status` (only reads redis).
* **Hard.** Overlapping handlers; messages that change after they were pushed.
* **Correct means.** Devices agree on what is deployed; a request alone has the
  effect it asks for; handlers do not wait for ever.

### 1.6 Cluster (`internal/services/worker_watcher_service.go`, `worker_status_monitor.go`, `main.go`)

* **State.** On the master `ClientStream`, `ServicesStatus`, the monitor's copy
  and the redis hash; on each worker `aionCh`, `updateTrigger` (1) and the
  status map of its controller.
* **Operations.** A worker joins, gets settings and reports; the master sends a
  setting to the workers one by one; the monitor writes reports to redis.
* **Hard.** A worker joins again while the handler of its old stream is still
  there; a controller that reports in the middle of a deployment.
* **Correct means.** What was sent is deployed; what redis shows is the last
  status.

### 1.7 Microservice client library (`pkg/go-client/msclient`)

* **State.** Two connections, a channel of five kanbans and the goroutine that
  fills it; the calls under way.
* **Operations.** `NewKanbanClient`, `GetOneKanban`, `OutputKanban` (times out
  after a second), `GetStaticKanban`, `DeleteStaticKanban`, `Close` (sends the
  terminate kanban first).
* **Hard.** Calls whose answer is lost or that are carried out after the
  timeout; a goroutine that waits at a full channel; connections that break.
* **Correct means.** A microservice gets the kanbans of its session in order and
  without gaps, what it is told of its outputs is true, and nothing hangs.

### 1.8 Device link (`internal/devices/controller.go`, `ServiceBrokerConn`)

* **State.** `sendCh` and `recvCh` of the device controller and
  `sendToServiceBrokerCh` of send-anything (1 each), which outlive the streams;
  for each stream a sender and a receive loop at both ends.
* **Operations.** Connect and connect again, send, receive.
* **Hard.** The goroutines of a stream learn one by one that it has broken, and
  until then compete with those of the next stream.
* **Correct means.** Nothing is brought twice or out of order, losses are bounded
  by the streams that break, and no goroutine is left over.

### 1.9 Configuration (`config/`)

* **State.** None beyond the loaded setting, which the components above share.
* **Operations.** Loading a `services.yml` or a message of the project API,
  defaults, lookups of services, next services and numbers.
* **Correct means.** A file that cannot be used is answered with an error; the
  rest of the system gets entries without holes.

### 1.10 Interactions

```
 aionctl --grpc--> ProjectServer --aionCh--> [master: SendToWorker --grpc--> worker]
                                        \--> controller --aionChForWatcher--> WatchReceiveKanban
 microservice --(MsClient) SendKanban--> after stream --WatchKanban--> WatchMicroservice
     ^                                             |  |--startCh--> controller --> ScaleContainer --> kubernetes
     |                                             |  \--sendCh--> device controller <--grpc--> send-anything <--grpc--> other device
     \--ReceiveKanban-- before stream <------------/
```

Components meet in channels and streams only, so most are modelled alone with
the others as their environment: `ServiceBroker` treats what a start does in
kubernetes as an outcome (`ScaleContainer` has the details), takes settings
from an `aionCh` that anybody may fill (`ProjectServer` and `Cluster` do) and
its link to send-anything always works (`DeviceLink` has the breaks);
`Cluster` contains the controller only as far as it reports; `ProjectServer`
and `SendAnything` have a consumer for their channel. Two compositions are
real ones: `MsClient` extends `KanbanStream`, so that clients and kanban server
run together and implement `KanbanLog` up to the microservice, and `ScaleContainer` starts from `services.yml` files
(`AionSetting`) and makes the objects of `Manifest`. The units, lists of next
services, devices and device names of `MCServiceBroker` are those of settings that
`AionSetting` loads (`LoadedAssumption`, which TLC evaluates).

### 1.11 Not modelled

* The **kanban replicator**: its main calls `StartWatchKanban` (main.go:27),
  which waits for a setting that main would only send afterwards. The program
  never gets beyond that, so there is no behaviour to check.
* The **pods watcher** (`k8s.PodsWatcher`), which only logs; **aionctl** (one
  request of the project server); process set-up, logging, generated code.
* In the modelled parts: the syntax of YAML, of stream keys and of kubernetes
  manifests; the clean-up of `ClientConn`s; a crash of the master.

Redis, kubernetes, gRPC and microservices are the environment: their answers and
failures are nondeterministic.

## 2. Modules

| module | models | state and actions in the code |
|---|---|---|
| `KanbanStream` | one stream of the kanban server, all its sessions | `wpc` is the position in `WatchKanban` (redis.go:60-95), `hpc` the one in the handlers (server.go:65-110); `XReadOne`, `DeleteOldKanban`, `WriteKanban` are the redis calls |
| `KanbanLog` | what a stream promises | abstract: `Write`, `Remove`, `Deliver` |
| `KanbanStreamProofs` | proofs | |
| `ServiceBroker` | controller, receiver and watchers | `cpc`, `rpc`, `gpc`, `ipc` are the positions of the four kinds of goroutines; a rendezvous on an unbuffered channel is one action of both |
| `ServiceBrokerProofs` | proofs | |
| `AionSetting` | package `config` | pure: what loading answers, defaults, lookups |
| `Manifest` | the contents of package `k8s`' objects | pure: one operator per function; names made by formats are tuples |
| `ScaleContainer` | one container: its counter and objects | one action per kubernetes call; `Create`, `Delete`, `Apply` give each call's outcomes; `op`, `at` are the controller's call, `term`, `mat` main's after SIGTERM |
| `ScaleContainerProofs` | proofs | |
| `MsClient` | microservices and their client library, on `KanbanStream` | `queue` is the channel with the kanban that waits to go in, `pending` the calls that the server may still carry out, `call` the one the microservice waits for |
| `MsClientProofs` | proofs, with those of `KanbanStream` | |
| `DeviceLink` | service broker and send-anything on one device | `senders`, `handlers`, `receivers` are the streams whose goroutine runs, `shold`, `hhold`, `ghold` what it holds |
| `DeviceLinkProofs` | proofs | |
| `SendAnything` | transfers, both ends | `Messages(t)` is what `sendAnything` puts on the stream, `rpc` the handler's position in the receive functions |
| `SendAnythingProofs` | proofs | |
| `ProjectServer` | Apply and Delete | `prj`, `arg`, `aionCh`, `taken` hold *pointers* (request names); `services` is what they point to |
| `ProjectServerProofs` | proofs | |
| `Cluster` | master, monitor, workers | `hpc` per stream, `mpc`, `cpc` per worker; maps are partial functions as Go maps are |
| `ClusterProofs` | proofs | |
| `MC*` | instances for TLC | constants only; in `MCServiceBroker` an assumption says that they are what the settings loaded by `AionSetting` contain |

Conventions. Definitions are named after the functions they stand for. A
definition with the comment "Mutant" is a plausible mistake in the action that
follows it; it is not part of `Next` and serves to see that a property notices
the mistake (`PROJECT.json`, `mutants`). "history" variables are not in the
program; they are written but never read by guards. Constants called `Max...`
are bounds of the instance, except `MaxLen` (the MAXLEN of XADD).

Abstractions. A kanban is a number (its redis ID) or its kind; formatting of
stream keys, metadata and messages is left out. Time is left out: a
timeout is a step that may happen. Files are sequences of numbered chunks, the
hash is "the content is what was hashed". A gRPC stream is a sequence of
messages that may break and then loses what is in flight.

Details worth knowing when reading the code with the models:

* A terminate kanban of an always service falls through to the "default"
  connection key (watcher.go:97-103).
* The list of next services is read once per kanban, but each entry is routed on
  its own, by the device list and the device name of the setting that the
  watchers have *then* (watcher.go:112, 117; `ChooseDevice`, `ForwardLocal`):
  a redeploy between two entries routes the rest of an old list by the new
  setting. After a kanban has gone to a local service it carries this device's
  name (`gname`), so the entries after it in the list are local, too, unless the
  device list names this device.
* A setting is handed by the master to the devices that it names itself; a
  worker that has not joined is passed over, and an error of SendMsg is only
  logged (worker_watcher_service.go:66-77; `HandTo`). SendMsg is assumed to
  return in the end.
* `connectToServer` looks neither at its stream nor at its context while it waits
  at a full `recvCh` (devices/controller.go:90). `WatchReceiveKanban`, which
  empties it, may have ended or may wait for its start to be taken, for ever in
  `broker_boot`; then the link hangs (`DeviceLink!Hangs`).
* The receiver of a transfer may fail to create a directory (which is only
  logged), to create, write or read back a file (`FileSystemFails`), for reasons of
  its own or because a file is where a directory is needed (`Clash`). Not
  modelled: that os.Stat fails for another reason than a missing file, for
  example below something that is no directory (the nil FileInfo at server.go:282
  or 318 then ends the process), and that os.Remove removes an empty directory at
  a file's path.
* The receiver of a transfer lists directories before files (server.go).
* In default mode a setting from `services.yml` does not go through the project
  server, so `p.prj` stays nil until the first Apply. A message that came by
  gRPC holds no nil microservice, so the error branches that depend on one
  (project_service.go:36, main.go:141) cannot be taken there; in `services.yml`
  an empty entry panics while it is mapped (yaml_model.go:109) before
  `setInitializeValue` could refuse it (`LoadConfigFromDirectory`).
* The object names drop the directory and the tag of a service's name
  (k8s.go:100): services with equal base names share their objects.
* In `volumeMountPathList` the second part is the path on the host and the
  first the one in the container (pod.go:178, 220), although the constants are
  called the other way round. An entry without a colon, or a quantity that does
  not parse, panics when the pod is made, after the config map was applied.
* The library reads its number from `MSNUMBER` (an untagged field), pods set
  `MS_NUMBER`: Go clients take themselves for number 1. `MsClient` has one
  stream and does not depend on it.
* `GracefulStop` of send-anything waits for `ServiceBrokerConn`, which does not
  return by itself; kubernetes then kills the process (`DeviceLink!Restart`).

## 3. Runs

All runs end within five minutes with two workers.

| run | instance | shows |
|---|---|---|
| `kanban_stream` | 2 sessions, MAXLEN 2, 3 kanbans, before or static stream | bounded loss, no silent skips, the newest kanban stays, refinement of `KanbanLog` (order, at most once) |
| `ms_client` | 1 client, MAXLEN 2, 2 kanbans, channel of 1, 1 repeated output, before or static stream | order without gaps up to the microservice, which gets what `KanbanLog` promises, true answers, progress, the channel is closed |
| `broker` | 2 units, 2 settings with and without another device, a redeploy, 1 kanban per unit, which names that device, 1 from a device, 3 watchers | the watchers' setting, one watcher per unit, forwarding once, reasons for starts |
| `broker_live` | 1 deployment, 2 kanbans, routes to a device and a local unit | nothing gets stuck |
| `broker_boot` | boot with a kanban of another device | *violated*: see findings |
| `scale_job` | 5 `services.yml` files: a job, a multiple deployment of 2, a pod that cannot be made, 2 that cannot be loaded; counter up to 2 | counter, repairs, stops, exit, numbers, names |
| `send` | 2 transfers to one service, each of a file, a socket and a directory of 2 files, or of 2 files of one name; faults of clients, streams and the receiver's file system | what OK and Failed mean; each transfer ends, its kanban is handed over |
| `send_same_name` | 2 transfers with files of one name | *violated*: see findings |
| `device_link` | 2 streams, up to 2 kanbans each way, 3 in all, restarts, a cancel, a receiver that ends or waits at `startCh` | order, bounded loss; progress and no goroutine left over, unless the broker hangs at `recvCh` |
| `project` | 2 Applies that name different devices, a Delete that names none, 2 workers that join at any time | agreement, effect of lone and of overlapping requests, panics, progress |
| `cluster` | 2 workers that join once, 1 setting | recorded status |
| `cluster_again` | 1 worker that rejoins, 2 settings | deployed settings, progress of deployments |

**Why the bounds are enough.** Each is the smallest at which the hazard it is
about occurs. Streams: two sessions interfere, and with MAXLEN 2 and three
kanbans an entry that a session stands on, has read, or has not read can be
trimmed. Broker: two settings of which the second drops a unit, so that a
pending start can be stale; three watcher goroutines let a unit be watched
before and after a redeploy beside another one. Scale container: every
sequence of failing calls is explored, the counter only matters as 0, 1, more;
two entries that differ in kind, scale and volumes let a start meet the leftovers
of another declaration. Client: a channel of one place can be full with two
kanbans, and one repetition shows a kanban that is written twice. Device link:
two streams let the goroutines of an old one meet those of the next, and a
second kanban overtake the first, and a second kanban that comes in waits at a
full `recvCh`; three kanbans in all keep the run at 1.7 million states.
Transfers: two chunks show a wrong reference number, zero chunks an empty file,
a socket an entry that is skipped; one message on the wire and the next one at
the client are enough for a break to lose either (`SendTree.cfg` and
`send_same_name` have two). Project: an Apply for both workers and one for one of them
show settings that get to different devices. Cluster: two workers for the loop over workers and the shared
map; one worker twice for old handlers. The proofs (section 5) remove the
bounds for the properties they cover.

Deadlock is checked in `scale_job`, whose calls and restarts can always be repeated. The
other instances end, with no more kanbans, settings or joins to come
(`CHECK_DEADLOCK FALSE`); that nobody waits for ever is stated as liveness
there.

## 4. Fairness

The fair specifications assume only that a goroutine that can take a step does
take one (weak fairness per goroutine). Strong fairness is used where a
goroutine waits at a channel with others: Go serves waiting senders in their
order (`SendAnything!Handler`, `ProjectServer!Handler`, `Cluster!HandlerStep`). In
`SendAnything` it is of a handler's step or its failure at the file system, so
that a failing disk ends a transfer but never needs to fail.
`BrokerTakes` (send) assumes a service broker that is connected again and
again, `DeviceSend` (broker_live) a connection to send-anything that works.
`ms_client` (`FairClientSpec`) assumes of a microservice that it goes on with the
kanbans it has, and of a call that it returns, by its timeout if not otherwise;
it need not close. `device_link` assumes that each of the two processes goes on
while one of its goroutines can, which is enough as the bounds leave none of them
anything to do for ever; nothing is assumed of who takes a start from `startCh`,
which is why `LinkKeepsGoing` excepts `Hangs`. Nothing is assumed of kubernetes, failures, disconnects
or crashes; reads of redis by `WatchKanban` are fair only when there is an entry
to read.

## 5. Proofs

All theorems are for arbitrary constants under the named assumptions
(`MaxLenAssumption`, `MaxUpAssumption`, `RequestAssumption`,
`SettingAssumption`, ...), which TLC evaluates in the runs. They state types:
`FileAssumption` that a `services.yml` which could be read has the types of
`yaml_model.go`, `ListAssumption` and `PathAssumption` that a file of a kanban
is one file, a socket none, and that paths are sequences of names (a data path
a non-empty one),
`NoneAssumption` that the markers for "none" are not among the data. Each module
follows one pattern: an inductive invariant (`IInv`, `ClientInv`, `SendInv`),
that it holds initially and through each action, and the properties as
consequences. The invariants of the proofs were checked by TLC on the instances
of the runs before they were proved.

* **KanbanStreamProofs.** The stated safety properties are not inductive: that
  a session skips nothing depends on where *all* earlier entries are.
  `Accounted` says that each ID is in the stream, evicted or deleted by
  someone, `IDsInOrder` relates `deletedBy < prevID`, `sent <= res <= prevID`,
  `Lifecycle` ties a handler's return to its `cancel()`, and `Position` says
  for each control point what is known of the entries up to `prevID`. From it
  follow the other safety theorems and `Refinement`: with `removed` mapped to
  what anyone has taken from redis and `delivered` to `sent`, every step is a
  step of `KanbanLog` or a stutter.
* **ScaleContainerProofs.** `StartInStep` and `StopInStep` describe the objects
  in the middle of a start or stop in which nothing has failed; that a stop
  with a missing object fails needs `whole` (all objects were there when the
  stop began) connected to the object still to be deleted. `StartFresh` follows
  the declaration that the objects applied so far come from, which gives
  `StartRepairs`. `ExitInStep` follows main's stop after SIGTERM object by object;
  it holds only while the controller is idle, which is what `raced` excludes.
  `NumbersAreOwn` and `ObjectsFit` are about what is made, not when: from
  `FileAssumption`, `ServiceTypes` follows an entry through loading, mapping and
  defaults to the controller's list (a scale is positive there, the volumes are
  those of the file), `Numbered` goes on to a container of the list, and
  `OneVolume` counts the volumes of a name in a list of any length.
* **ProjectServerProofs.** `InStep` (no handler between its first step and the
  channel => devices that are done have what the deployed message contains
  *now*) is what makes `DevicesInStep` hold although Deletes change messages in
  place; `Reached` are the devices that it is about: those that the setting names
  and that its receiver got to. `LoneProgress` follows one request through its
  handler, the channel and the receiver; `Fresh` (messages that have not come in
  are unchanged and not in `p.prj`) starts it. `OverlapsCount` is about requests that
  do overlap: `Overlaps` says that running beside is mutual, `Near` that an Apply
  has loaded a message of a request that ran beside it, `LastPushed` that what was
  pushed last was loaded beside the last request, unless one is on its way.
* **ServiceBrokerProofs.** `SettingInStep` needs that the setting which the
  receiver holds is the controller's unless the controller is at its next
  send (`Holding`); `OneWatcher` needs that a unit watched under the live
  context is up, and that no goroutine has the live context between the stop
  of everything and the new list (`Watched`); `UndeclaredStartIsStale` needs
  that what a watcher has still to work through is the rest of the list of the
  setting it took that list from (`Routed`), whatever setting routes it; nothing is
  assumed of the lists, which may name services that nobody declares. `Held` (a
  kanban that is held is in the stream) is there for the device which it names,
  and `Attached`, `Deploying` and `AfterBound` are for the
  types: a goroutine that reads has a unit, a controller that deploys has a
  setting. `ForwardedAtMostOnce` is a statement about a sum, proved by giving each
  kanban in a before stream a witness: `Forwards(t)` are the pairs of a deployment
  and a kanban of a feeding unit that some goroutine has passed on to `t`, and
  `Counted` says that `before[t]`, with what is in `recvCh`, is at most their
  number and what other devices sent. A step that writes a kanban adds a pair,
  as no other goroutine has the same unit and context (`OneWatcher`) and this one
  has not yet been there in its list (`Routing`).
* **MsClientProofs.** `ClientRefinesStream` says that clients make the kanban
  server take no step that `KanbanStream` does not have; its theorems carry over
  and are used. `LibraryRefinement` goes further: with `delivered` mapped to what
  the microservices have *taken*, handler, connection, goroutine and channel
  together implement `KanbanLog`: `GetOneKanban` is its `Deliver`, and only what
  the session has passed over (`NoSilentSkip`) is left out, as a connection that
  breaks loses nothing that is older than what arrives. `NoGap` puts what was sent to a session in one line (taken, in
  the channel, on the connection): it is in order, and what is missing is later
  than all that is in it. That is inductive although the connection may break
  at any moment, because nothing is put behind a gap. `AnswersAreTrue` needs the
  calls: `AtHand` says that the calls for the kanban at hand, but for the one
  under way, have failed and are numbered from 1, `OthersFailed` that all others
  that are not written have failed, `Undone` what Close leaves.
* **SendAnythingProofs.** `Position` gives the entries of the list that are not
  finished and, for each control point of the handler, the exact messages that
  are still to come for them; the line (what is in flight and what the client has
  yet to send) `Carries` these messages up to a fault, where it may end or go on
  with a notice of failure. `Progress` relates those entries to the handler's
  lists and counts, `Settled` to the disk: a file that is not owed any more is
  there with its content, but for one that the handler is writing again. OK is
  answered where nothing is left, which gives `OKMeansComplete` and `FilesStay`.
  A step of `FileSystemFails` ends the transfer with its `fault`; `FileSystemDisk`
  says that it touches no path but that transfer's own.
  `FailuresHaveReasons` is about transfers with neither a fault nor a conflict:
  `Good` says that their handler has the right chunks and an empty file at each
  point, so that no check of the code fails; that the directory of a flat file is
  there follows from MkdirAll. It needs that other handlers leave the paths alone,
  which `Alone` says about the place of a file and about the path that `dequeue`
  creates for it.

* **DeviceLinkProofs.** Both properties are about where kanbans are, in either
  direction. Going out, `OutTaken` and `OutOwned` say who took a kanban from the
  channel and that a stream carries only what its own sender took, `OutCarried`
  that the stream which is up has lost none of it, `OutQueued` that it carries it
  in order. That suffices within one stream; across streams `OutWired` is
  needed: a later stream takes only kanbans that are later than all that got
  onto an earlier one, whereas the sender of a broken stream, which still
  competes for the channel, may take any but brings none of them on the way.
  Coming in, the broker reads one stream to its end before the next one, so
  `InQueued` need only be about the last stream. Neither needs that anybody takes
  from `recvCh`: a link that hangs loses and reorders nothing.
* **ClusterProofs.** `Delivered` follows the last setting: it is the newest of
  what is on the stream, in `aionCh` or deployed, for each worker that listens on
  the stream in `ClientStream`. `Reported` and `Recorded` follow a report along
  `updateTrigger`, the stream, `ServicesStatus`, the monitor's copy and redis,
  with what each place has to contain unless the next step is due. They are
  about workers that have joined once, as the handler of an older stream may drop
  reports (section 6). `Streams` ties handlers and `ClientStream` to joins.

The type invariants of `KanbanStream`, `ServiceBroker`, `ScaleContainer`,
`SendAnything`, `ProjectServer` and `Cluster` are proved here and not checked again
by the runs;
those of `DeviceLink` and `MsClient` are stated in their proof modules.

Every invariant and every action property of a passing run is proved. What stays
with TLC alone is

* liveness under fairness and ENABLED, which the prover does not treat
  (`DeployCompletes`, `OutputIsTaken`, `StartIsServed`, `KanbanIsHandedOver`,
  `TransferEnds`, `RequestsAnswered`, `SentIsDeployed`, `EventuallyTaken`,
  `ChannelIsClosed`, `LinkKeepsGoing`);
* the properties that the code violates (section 6);
* the parts of `AionSetting` and `Manifest` that no property above depends on
  (lookups of next services, resources, ports), evaluated as part of
  `ScaleContainer` and `MCServiceBroker`.

Induction. The theorems of the library that take an operator (`NatInduction`)
cannot be used. Where the line of a transfer needs induction, over
`FlattenSeq`, it goes over a *set*: `Least` gets the least element of a set of
naturals from the well-foundedness of `<`, `Induction` follows, and each use
defines the set of the numbers for which its claim holds.

## 6. Findings

Two disagreements between code and documentation are listed with the runs that
show them: **broker_boot** (controller and receiver wait for each other when a
kanban of another device comes while the first setting is handed over; no
startup service is ever started) and **send_same_name** (of two transfers with
files of one name, one removes the file for which the other answers OK).

Further behaviours that the models show. Their properties are at the end of the
modules and not part of the runs above; TLC finds each violated with the
configuration named:

| configuration | module | property | behaviour |
|---|---|---|---|
| `ProjectDelete.cfg` | `MCProjectServer` | `DeletedStaysDeleted` | Apply{camera, display}, Delete{camera}, Delete{display}: the camera runs again, because Delete keeps its own request in `p.prj` (project_service.go:68) |
| `SendTree.cfg` | `MCSendAnything` | `DirectoriesArrive` | a directory with a subdirectory can never be transferred: the path is joined with RelDir twice (server.go:440) |
| `BrokerRemoved.cfg` | `MCServiceBroker` | `StartsOnlyDeclared` | a start pending during a redeploy starts a service that the new setting does not declare |
| `ClusterRejoin.cfg` | `MCCluster` | `DistributedToAll` | a worker that joins after a setting was sent gets none |
| `ClusterStatus.cfg` | `MCCluster` | `StatusCanBeSeen` | the handler of a worker's old stream wipes the report of its new one |

More follow from the actions without a property of their own: Apply updates a
deployment that is being deleted, which disappears although the start has
succeeded (`ApplyByUpdate`, `Finalize`); and when a stop of a job fails and the
service is then declared `always`, the job stays beside the deployment, as no
later stop knows of it (`SetMicroservice`); a Delete whose own message names no
devices becomes `p.prj`, so that the next Delete deploys to nobody (`Finish`,
`HandTo`); of a list with a local entry before one for another device both go
to local streams (`ForwardLocal`); and the controller of the device link hangs
at `recvCh` once nobody takes from there (`Hangs`).

## 7. Plan

Done, in this order: `KanbanStream` with its abstract log and proofs,
`ServiceBroker`, `ScaleContainer`, `SendAnything`, `ProjectServer`, `Cluster`;
then `AionSetting` and `Manifest` under a `ScaleContainer` with redeclarations,
crashes and SIGTERM, `MsClient` on `KanbanStream`, and `DeviceLink`; proofs of
`DeviceLink` and `Cluster`; proofs of `MsClient`, of `SendAnything`, of
`ForwardedOncePerDeploy` and of the objects that `ScaleContainer` makes.

Next modules, most important first:

1. The SIGTERM path for all units: `StopAllMicroservice` in main waits for the
   lock that `SetServiceStatusActive` holds at `updateTrigger` in worker mode.
   Property: the process ends.
2. `Cluster` with the outcomes of starts and a crash of the master.
3. `DeviceLink` under `ServiceBroker`: routes to devices over a link that breaks.

Next proofs: safety properties of `ProjectServer` and `Cluster` that no run
states yet (what a Delete leaves in place, what a worker that joined again can
rely on), and what `LoadConfigFromDirectory` guarantees to all its users, as
lemmas of `AionSetting`.

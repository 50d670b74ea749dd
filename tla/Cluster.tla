-------------------------------- MODULE Cluster --------------------------------
(***************************************************************************)
(* A master and its workers: the master hands every setting that its       *)
(* project server pushes to the workers that have joined                   *)
(* (SendAionSettingToWorker), each worker deploys it and reports which of  *)
(* its services are active, and a handler for each worker's stream         *)
(* (JoinMasterAion) and the status monitor bring the reports into redis,   *)
(* where aionctl status reads them.                                        *)
(*                                                                         *)
(* A worker process ends when its stream breaks and joins again with a new *)
(* one; the handler of the old stream may notice that only later.          *)
(***************************************************************************)
EXTENDS Naturals, Sequences

CONSTANTS
  Worker,      \* the workers, all of them named in every setting's devices
  Service,     \* the services they may deploy
  MaxApply,    \* bound: settings distributed
  MaxJoin,     \* MaxJoin[w]: bound on how often w joins
  Startup,     \* Startup[n]: the services of the n-th setting, all to start at once
  MaxWire      \* bound: messages in flight in one direction of a stream

ASSUME BoundAssumption ==
  /\ MaxApply \in Nat
  /\ MaxJoin \in [Worker -> Nat]
  /\ Startup \in [1..MaxApply -> SUBSET Service]
  /\ MaxWire \in Nat \ {0}

\* Stream <<w, i>> is that of the i-th join of w.
Stream == UNION {{w} \X (1..MaxJoin[w]) : w \in Worker}

VARIABLES
  \* master
  sent,          \* how many settings SendAionSettingToWorker has taken
  ltodo,         \* the workers it has not come to yet
  clientStream,  \* w.ClientStream: a map from workers to streams
  servicesStatus,\* w.ServicesStatus: a map from workers to reports
  hpc,           \* handlers: "none", "register", "recv", "send" (at
                 \* StatusMonitorCh <-) or "done"
  mpc,           \* status monitor: "recv", "copy" or "hset"
  mtodo,         \* the workers whose reports it has not copied yet
  nodeMap,       \* its copy of the reports
  redis,         \* the hash aion-cluster-status
  \* streams
  toMaster, toWorker,  \* the messages in flight
  broken,
  \* workers
  joined,        \* joined[w]: how often the process of w has joined
  running,       \* the workers whose process runs
  workerCh,      \* aionCh, capacity 1
  cpc,           \* controller: "select", "stop", "set" or "start"
  ctodo,         \* the services it has not stopped, set or started yet
  cwait,         \* it waits at updateTrigger <-
  trigger,       \* updateTrigger, capacity 1, is full
  msList,        \* the services in microserviceList
  status,        \* microservicesStatus
  deployed,      \* the setting that was deployed last
  \* history
  hsetOK,        \* the last HSet has not failed
  takenAt        \* takenAt[w]: sent when the stream of w was put into ClientStream

masterVars == <<sent, ltodo, clientStream, servicesStatus, hpc>>
monitorVars == <<mpc, mtodo, nodeMap, redis>>
streamVars == <<toMaster, toWorker, broken>>
workerVars == <<joined, running, workerCh, cpc, ctodo, cwait, trigger, msList, status, deployed>>
history == <<hsetOK, takenAt>>
vars == <<masterVars, monitorVars, streamVars, workerVars, history>>

\* The stream of the process of w.
Current(w) == <<w, joined[w]>>

NoStatus == [s \in Service |-> "unknown"]

\* m[k] = v of a Go map
Put(m, k, v) == [x \in DOMAIN m \cup {k} |-> IF x = k THEN v ELSE m[x]]

-----------------------------------------------------------------------------
(* SendAionSettingToWorker *)

\* aionSetting := <-aionSettingCh
TakeSetting ==
  /\ sent < MaxApply
  /\ ltodo = {}
  /\ sent' = sent + 1
  /\ ltodo' = Worker
  /\ UNCHANGED <<clientStream, servicesStatus, hpc, monitorVars, streamVars, workerVars, history>>

\* ClientStream has a stream for w, and a message can be sent on it.
Reachable(w) == w \in DOMAIN clientStream /\ ~broken[clientStream[w]]

\* One worker of the loop: it has no stream, its stream is broken (an error
\* that is only logged), or the setting is sent to it.
SendToWorker(w) ==
  /\ w \in ltodo
  /\ ltodo' = ltodo \ {w}
  /\ \/ /\ ~Reachable(w)
        /\ UNCHANGED toWorker
     \/ /\ Reachable(w)
        /\ LET st == clientStream[w] IN
             /\ Len(toWorker[st]) < MaxWire
             /\ toWorker' = [toWorker EXCEPT ![st] = Append(@, sent)]
  /\ UNCHANGED <<sent, clientStream, servicesStatus, hpc, monitorVars, toMaster, broken,
                 workerVars, history>>

-----------------------------------------------------------------------------
(* JoinMasterAion, one handler for each stream *)

Register(st) ==
  /\ hpc[st] = "register"
  /\ clientStream' = Put(clientStream, st[1], st)
  /\ takenAt' = [takenAt EXCEPT ![st[1]] = sent]
  /\ hpc' = [hpc EXCEPT ![st] = "recv"]
  /\ UNCHANGED <<sent, ltodo, servicesStatus, monitorVars, streamVars, workerVars, hsetOK>>

\* A report is stored; the handler goes on to StatusMonitorCh <-.
ReceiveStatus(st) ==
  /\ hpc[st] = "recv"
  /\ toMaster[st] # <<>>
  /\ servicesStatus' = Put(servicesStatus, st[1], Head(toMaster[st]))
  /\ toMaster' = [toMaster EXCEPT ![st] = Tail(@)]
  /\ hpc' = [hpc EXCEPT ![st] = "send"]
  /\ UNCHANGED <<sent, ltodo, clientStream, monitorVars, toWorker, broken, workerVars, history>>

\* RecvMsg fails, with or without what was still in flight: the reports of the
\* node are dropped, of whichever stream they were.
StreamClosed(st) ==
  /\ hpc[st] = "recv"
  /\ broken[st]
  /\ servicesStatus' = Put(servicesStatus, st[1], NoStatus)
  /\ hpc' = [hpc EXCEPT ![st] = "done"]
  /\ toMaster' = [toMaster EXCEPT ![st] = <<>>]
  /\ UNCHANGED <<sent, ltodo, clientStream, monitorVars, toWorker, broken, workerVars, history>>

\* w.StatusMonitorCh <- w.ServicesStatus meets the monitor: what goes over is
\* the map itself, not a copy.
HandOver(st) ==
  /\ hpc[st] = "send"
  /\ mpc = "recv"
  /\ hpc' = [hpc EXCEPT ![st] = "recv"]
  /\ mpc' = "copy"
  /\ mtodo' = DOMAIN servicesStatus
  /\ UNCHANGED <<sent, ltodo, clientStream, servicesStatus, nodeMap, redis, streamVars,
                 workerVars, history>>

-----------------------------------------------------------------------------
(* The status monitor *)

\* The reports are copied one by one, beside handlers that store new ones.
CopyStatus(w) ==
  /\ mpc = "copy"
  /\ w \in mtodo
  /\ nodeMap' = Put(nodeMap, w, servicesStatus[w])
  /\ mtodo' = mtodo \ {w}
  /\ mpc' = IF mtodo = {w} THEN "hset" ELSE "copy"
  /\ UNCHANGED <<masterVars, redis, streamVars, workerVars, history>>

\* An error of HSet is only logged.
HSet ==
  /\ mpc = "hset"
  /\ \/ redis' = [w \in DOMAIN nodeMap \cup DOMAIN redis |->
                  IF w \in DOMAIN nodeMap THEN nodeMap[w] ELSE redis[w]] /\ hsetOK' = TRUE
     \/ redis' = redis /\ hsetOK' = FALSE
  /\ nodeMap' = <<>>
  /\ mpc' = "recv"
  /\ UNCHANGED <<masterVars, mtodo, streamVars, workerVars, takenAt>>

-----------------------------------------------------------------------------
(* A worker: workerClient and the status side of its controller *)

\* A process starts, joins and sends its first report, which is empty.
Join(w) ==
  /\ w \notin running
  /\ joined[w] < MaxJoin[w]
  /\ joined' = [joined EXCEPT ![w] = @ + 1]
  /\ running' = running \cup {w}
  /\ toMaster' = [toMaster EXCEPT ![<<w, joined[w] + 1>>] = <<NoStatus>>]
  /\ hpc' = [hpc EXCEPT ![<<w, joined[w] + 1>>] = "register"]
  /\ UNCHANGED <<sent, ltodo, clientStream, servicesStatus, monitorVars, toWorker, broken,
                 workerCh, cpc, ctodo, cwait, trigger, msList, status, deployed, history>>

\* The stream breaks.
Break(w) ==
  /\ w \in running
  /\ ~broken[Current(w)]
  /\ broken' = [broken EXCEPT ![Current(w)] = TRUE]
  /\ toWorker' = [toWorker EXCEPT ![Current(w)] = <<>>]
  /\ UNCHANGED <<masterVars, monitorVars, toMaster, workerVars, history>>

\* log.Fatalf after RecvMsg or Send has failed: nothing of the process is left.
Fatal(w) ==
  /\ w \in running
  /\ broken[Current(w)]
  /\ running' = running \ {w}
  /\ workerCh' = [workerCh EXCEPT ![w] = <<>>]
  /\ cpc' = [cpc EXCEPT ![w] = "select"]
  /\ ctodo' = [ctodo EXCEPT ![w] = {}]
  /\ cwait' = [cwait EXCEPT ![w] = FALSE]
  /\ trigger' = [trigger EXCEPT ![w] = FALSE]
  /\ msList' = [msList EXCEPT ![w] = {}]
  /\ status' = [status EXCEPT ![w] = NoStatus]
  /\ deployed' = [deployed EXCEPT ![w] = 0]
  /\ UNCHANGED <<masterVars, monitorVars, streamVars, joined, history>>

\* Mutant: a setting is dropped while another one waits in aionCh.
ReceiveApplyOrDrop(w) ==
  /\ w \in running
  /\ toWorker[Current(w)] # <<>>
  /\ workerCh' = [workerCh EXCEPT ![w] = IF @ = <<>> THEN <<Head(toWorker[Current(w)])>> ELSE @]
  /\ toWorker' = [toWorker EXCEPT ![Current(w)] = Tail(@)]
  /\ UNCHANGED <<masterVars, monitorVars, toMaster, broken, joined, running, cpc, ctodo, cwait,
                 trigger, msList, status, deployed, history>>

\* A setting comes in and goes into aionCh.
ReceiveApply(w) ==
  /\ w \in running
  /\ toWorker[Current(w)] # <<>>
  /\ workerCh[w] = <<>>
  /\ workerCh' = [workerCh EXCEPT ![w] = <<Head(toWorker[Current(w)])>>]
  /\ toWorker' = [toWorker EXCEPT ![Current(w)] = Tail(@)]
  /\ UNCHANGED <<masterVars, monitorVars, toMaster, broken, joined, running, cpc, ctodo, cwait,
                 trigger, msList, status, deployed, history>>

\* Mutant: reports are sent while no deployment is under way.
SendStatusWhenIdle(w) ==
  /\ w \in running
  /\ trigger[w]
  /\ cpc[w] = "select"
  /\ ~broken[Current(w)]
  /\ Len(toMaster[Current(w)]) < MaxWire
  /\ trigger' = [trigger EXCEPT ![w] = FALSE]
  /\ toMaster' = [toMaster EXCEPT ![Current(w)] = Append(@, status[w])]
  /\ UNCHANGED <<masterVars, monitorVars, toWorker, broken, joined, running, workerCh, cpc,
                 ctodo, cwait, msList, status, deployed, history>>

\* updatedStatus := <-updateTrigger and Send; the message is made from the map
\* as it is then.
SendStatus(w) ==
  /\ w \in running
  /\ trigger[w]
  /\ ~broken[Current(w)]
  /\ Len(toMaster[Current(w)]) < MaxWire
  /\ trigger' = [trigger EXCEPT ![w] = FALSE]
  /\ toMaster' = [toMaster EXCEPT ![Current(w)] = Append(@, status[w])]
  /\ UNCHANGED <<masterVars, monitorVars, toWorker, broken, joined, running, workerCh, cpc,
                 ctodo, cwait, msList, status, deployed, history>>

\* The controller takes a setting up: all services are stopped first.
Deploy(w) ==
  /\ w \in running
  /\ cpc[w] = "select"
  /\ workerCh[w] # <<>>
  /\ workerCh' = [workerCh EXCEPT ![w] = <<>>]
  /\ deployed' = [deployed EXCEPT ![w] = Head(workerCh[w])]
  /\ cpc' = [cpc EXCEPT ![w] = "stop"]
  /\ ctodo' = [ctodo EXCEPT ![w] = msList[w]]
  /\ UNCHANGED <<masterVars, monitorVars, streamVars, joined, running, cwait, trigger, msList,
                 status, history>>

\* The status of s is changed; the controller then waits at updateTrigger.
SetStatus(w, s, v) ==
  /\ status' = [status EXCEPT ![w][s] = v]
  /\ cwait' = [cwait EXCEPT ![w] = TRUE]

\* stopMicroservice of one service, whether its containers could be stopped
\* or not, and SetServiceStatusDeactivate.
Stop(w) ==
  /\ w \in running
  /\ cpc[w] = "stop"
  /\ ~cwait[w]
  /\ \E s \in ctodo[w] :
       /\ SetStatus(w, s, "inactive")
       /\ ctodo' = [ctodo EXCEPT ![w] = @ \ {s}]
  /\ UNCHANGED <<masterVars, monitorVars, streamVars, joined, running, workerCh, cpc, trigger,
                 msList, deployed, history>>

\* One loop is done and the next one begins, or the controller is back at its
\* select.
NextLoop(w) ==
  /\ w \in running
  /\ cpc[w] # "select"
  /\ ~cwait[w]
  /\ ctodo[w] = {}
  /\ \/ /\ cpc[w] = "stop"
        /\ cpc' = [cpc EXCEPT ![w] = "set"]
        /\ ctodo' = [ctodo EXCEPT ![w] = Startup[deployed[w]]]
     \/ /\ cpc[w] = "set"
        /\ cpc' = [cpc EXCEPT ![w] = "start"]
        /\ ctodo' = [ctodo EXCEPT ![w] = Startup[deployed[w]]]
     \/ /\ cpc[w] = "start"
        /\ cpc' = [cpc EXCEPT ![w] = "select"]
        /\ UNCHANGED ctodo
  /\ UNCHANGED <<masterVars, monitorVars, streamVars, joined, running, workerCh, cwait, trigger,
                 msList, status, deployed, history>>

\* setMicroserviceList, one service, and SetServiceStatusDeactivate.
SetMicroservice(w) ==
  /\ w \in running
  /\ cpc[w] = "set"
  /\ ~cwait[w]
  /\ \E s \in ctodo[w] :
       /\ msList' = [msList EXCEPT ![w] = @ \cup {s}]
       /\ SetStatus(w, s, "inactive")
       /\ ctodo' = [ctodo EXCEPT ![w] = @ \ {s}]
  /\ UNCHANGED <<masterVars, monitorVars, streamVars, joined, running, workerCh, cpc, trigger,
                 deployed, history>>

\* Mutant: a start is not reported.
StartQuietly(w) ==
  /\ w \in running
  /\ cpc[w] = "start"
  /\ ~cwait[w]
  /\ \E s \in ctodo[w] :
       /\ status' = [status EXCEPT ![w][s] = "active"]
       /\ ctodo' = [ctodo EXCEPT ![w] = @ \ {s}]
  /\ UNCHANGED <<masterVars, monitorVars, streamVars, joined, running, workerCh, cpc, cwait,
                 trigger, msList, deployed, history>>

\* startMicroservice returns nil whether its containers could be started or
\* not, and SetServiceStatusActive follows.
Start(w) ==
  /\ w \in running
  /\ cpc[w] = "start"
  /\ ~cwait[w]
  /\ \E s \in ctodo[w] :
       /\ SetStatus(w, s, "active")
       /\ ctodo' = [ctodo EXCEPT ![w] = @ \ {s}]
  /\ UNCHANGED <<masterVars, monitorVars, streamVars, joined, running, workerCh, cpc, trigger,
                 msList, deployed, history>>

\* msc.updateTrigger <- updated blocks while the channel is full.
SendTrigger(w) ==
  /\ w \in running
  /\ cwait[w]
  /\ ~trigger[w]
  /\ trigger' = [trigger EXCEPT ![w] = TRUE]
  /\ cwait' = [cwait EXCEPT ![w] = FALSE]
  /\ UNCHANGED <<masterVars, monitorVars, streamVars, joined, running, workerCh, cpc, ctodo,
                 msList, status, deployed, history>>

-----------------------------------------------------------------------------
Init ==
  /\ sent = 0
  /\ ltodo = {}
  /\ clientStream = <<>>
  /\ servicesStatus = <<>>
  /\ hpc = [st \in Stream |-> "none"]
  /\ mpc = "recv"
  /\ mtodo = {}
  /\ nodeMap = <<>>
  /\ redis = <<>>
  /\ toMaster = [st \in Stream |-> <<>>]
  /\ toWorker = [st \in Stream |-> <<>>]
  /\ broken = [st \in Stream |-> FALSE]
  /\ joined = [w \in Worker |-> 0]
  /\ running = {}
  /\ workerCh = [w \in Worker |-> <<>>]
  /\ cpc = [w \in Worker |-> "select"]
  /\ ctodo = [w \in Worker |-> {}]
  /\ cwait = [w \in Worker |-> FALSE]
  /\ trigger = [w \in Worker |-> FALSE]
  /\ msList = [w \in Worker |-> {}]
  /\ status = [w \in Worker |-> NoStatus]
  /\ deployed = [w \in Worker |-> 0]
  /\ hsetOK = TRUE
  /\ takenAt = [w \in Worker |-> 0]

Sender == TakeSetting \/ \E w \in Worker : SendToWorker(w)

HandlerStep(st) == Register(st) \/ ReceiveStatus(st) \/ StreamClosed(st) \/ HandOver(st)

Monitor == HSet \/ \E w \in Worker : CopyStatus(w)

Controller(w) == 
  Deploy(w) \/ NextLoop(w) \/ Stop(w) \/ SetMicroservice(w) \/ Start(w) \/ SendTrigger(w)

Client(w) == ReceiveApply(w) \/ SendStatus(w) \/ Fatal(w)

Next ==
  \/ Sender
  \/ \E st \in Stream : HandlerStep(st)
  \/ Monitor
  \/ \E w \in Worker : Join(w) \/ Break(w) \/ Client(w) \/ Controller(w)

Spec == Init /\ [][Next]_vars

\* Goroutines that can run do run.  The handlers that wait at StatusMonitorCh
\* are served in their order, hence strong fairness.  Settings need not come,
\* streams need not break and a process that has ended need not come back.
FairSpec ==
  /\ Spec
  /\ WF_vars(\E w \in Worker : SendToWorker(w))
  /\ \A st \in Stream : SF_vars(HandlerStep(st))
  /\ WF_vars(Monitor)
  /\ \A w \in Worker : WF_vars(ReceiveApply(w)) /\ WF_vars(SendStatus(w)) /\ WF_vars(Fatal(w))
                     /\ WF_vars(Controller(w))

-----------------------------------------------------------------------------
(* Properties *)

Status == [Service -> {"unknown", "active", "inactive"}]

\* A Go map with keys in S and values in T.
MapOf(S, T) == UNION {[D -> T] : D \in SUBSET S}

\* The types of the maps, channels, streams and locals.
TypeOK ==
  /\ sent \in 0..MaxApply
  /\ ltodo \subseteq Worker
  /\ clientStream \in MapOf(Worker, Stream)
  /\ servicesStatus \in MapOf(Worker, Status)
  /\ hpc \in [Stream -> {"none", "register", "recv", "send", "done"}]
  /\ mpc \in {"recv", "copy", "hset"}
  /\ mtodo \subseteq DOMAIN servicesStatus
  /\ nodeMap \in MapOf(Worker, Status)
  /\ redis \in MapOf(Worker, Status)
  /\ \A st \in Stream : toMaster[st] \in Seq(Status) /\ Len(toMaster[st]) <= MaxWire
  /\ \A st \in Stream : toWorker[st] \in Seq(1..MaxApply) /\ Len(toWorker[st]) <= MaxWire
  /\ broken \in [Stream -> BOOLEAN]
  /\ \A w \in Worker : joined[w] \in 0..MaxJoin[w]
  /\ running \subseteq Worker
  /\ workerCh \in [Worker -> {<<>>} \cup {<<n>> : n \in 1..MaxApply}]
  /\ cpc \in [Worker -> {"select", "stop", "set", "start"}]
  /\ ctodo \in [Worker -> SUBSET Service]
  /\ cwait \in [Worker -> BOOLEAN]
  /\ trigger \in [Worker -> BOOLEAN]
  /\ msList \in [Worker -> SUBSET Service]
  /\ status \in [Worker -> Status]
  /\ deployed \in [Worker -> 0..MaxApply]

\* Nothing is on its way to worker w or being deployed by it.
DeploySettled(w) ==
  /\ ltodo = {}
  /\ w \in running /\ ~broken[Current(w)] /\ hpc[Current(w)] # "register"
  /\ toWorker[Current(w)] = <<>> /\ workerCh[w] = <<>> /\ cpc[w] = "select"

\* Nothing is on its way from worker w to redis.
StatusSettled(w) ==
  /\ w \in running /\ ~broken[Current(w)]
  /\ ~cwait[w] /\ ~trigger[w]
  /\ mpc = "recv"
  /\ \A st \in Stream :
       st[1] = w => /\ hpc[st] \in {"none", "recv", "done"}
                    /\ toMaster[st] = <<>>
                    /\ broken[st] => hpc[st] = "done"

\* Once everything has come to rest, a worker has deployed the last setting
\* if its stream was in ClientStream when that setting was taken, unless the
\* handler of an older stream has put that one into ClientStream since.
RegisteredIsDeployed ==
  \A w \in Worker :
    /\ DeploySettled(w)
    /\ w \in DOMAIN clientStream /\ clientStream[w] = Current(w)
    /\ takenAt[w] < sent
    => deployed[w] = sent

\* The reports are triggered through a channel of one place, sent from a map
\* that is still changing, and copied from another map while other workers'
\* reports are stored.  Nevertheless redis has the last status of a worker
\* that has joined once, as soon as its reports have come to rest and unless
\* the last HSet has failed.
StatusIsRecorded ==
  hsetOK => \A w \in Worker :
              StatusSettled(w) /\ joined[w] = 1 => w \in DOMAIN redis /\ redis[w] = status[w]

\* A setting that was sent to a worker is deployed, or a later one is, unless
\* the stream breaks: the reports that the controller has to send in between
\* (to a channel that fills up) do not hold it up for ever.
SentIsDeployed ==
  \A w \in Worker : \A i \in 1..MaxJoin[w] : \A n \in 1..MaxApply :
    toWorker[<<w, i>>] # <<>> /\ Head(toWorker[<<w, i>>]) = n
      ~> (deployed[w] >= n /\ cpc[w] = "select") \/ broken[<<w, i>>]

\* README: the instructions to deploy are distributed from master-aion to each
\* worker-aion.  Once everything has come to rest each worker that has joined
\* has deployed the last setting.
DistributedToAll ==
  \A w \in Worker : DeploySettled(w) => deployed[w] = sent

\* README: the state of the deployment can be seen on master-aion.  Once
\* everything has come to rest redis has the status of each worker.
StatusCanBeSeen ==
  hsetOK => \A w \in Worker :
              StatusSettled(w) => w \in DOMAIN redis /\ redis[w] = status[w]
=============================================================================

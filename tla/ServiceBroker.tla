---------------------------- MODULE ServiceBroker ---------------------------
(***************************************************************************)
(* The goroutines of one service broker: the controller                    *)
(* (WatchKanbanForMicroservice), the receiver of kanbans from other        *)
(* devices (WatchReceiveKanban) and one WatchMicroservice, with the        *)
(* WatchKanban it starts, for every microservice that was started.  They   *)
(* meet on the unbuffered channels startCh and aionChForWatcher.           *)
(*                                                                         *)
(* A unit is one numbered container of a microservice (name and number);   *)
(* the units of a setting are those within the scale of its services.      *)
(* What kubernetes does is a choice of outcomes (see ScaleContainer).      *)
(***************************************************************************)
EXTENDS Naturals, Sequences, FiniteSets

CONSTANTS
  Unit,        \* the containers that any setting mentions
  Setting,     \* the settings that may be applied
  NoSetting,   \* the nil *AionSetting
  Declared,    \* Declared[s]: the units of setting s
  Startup,     \* Startup[s]: those with startup: yes
  Always,      \* Always[s]: those with always: yes
  Multiple,    \* Multiple[s]: those with multiple: yes
  NextService, \* NextService[s][u]: where kanbans of u go to, in order: a unit
               \* and the device that the entry names, or NoName
  DeviceName,  \* the names of devices
  NoName,      \* the empty name
  Devices,     \* Devices[s]: the keys of the device list of s
  OwnName,     \* OwnName[s]: how s calls this device
  Carried,     \* the devices that microservices name in their kanbans
  Watcher,     \* bound: the WatchMicroservice goroutines that can exist
  MaxApply,    \* bound: settings applied after the first
  MaxKanban,   \* bound: kanbans output by one unit
  MaxReceive   \* bound: kanbans received from other devices

ASSUME SettingAssumption ==
  /\ NoSetting \notin Setting
  /\ Declared \in [Setting -> SUBSET Unit]
  /\ Startup \in [Setting -> SUBSET Unit]
  /\ Always \in [Setting -> SUBSET Unit]
  /\ Multiple \in [Setting -> SUBSET Unit]
  /\ NextService \in [Setting -> [Unit -> Seq([to : Unit, device : DeviceName])]]
  /\ Devices \in [Setting -> SUBSET DeviceName]
  /\ OwnName \in [Setting -> DeviceName]
  /\ Carried \subseteq DeviceName
  /\ NoName \in DeviceName
  /\ \A s \in Setting : Startup[s] \subseteq Declared[s]

ASSUME UnitAssumption == IsFiniteSet(Unit)

ASSUME BoundAssumption == MaxApply \in Nat /\ MaxKanban \in Nat /\ MaxReceive \in Nat

VARIABLES
  aionCh,      \* channel of capacity 1: settings to deploy
  applied,     \* how many settings were sent to it
  \* controller
  cpc,         \* "select", "push" (at aionChForWatcher <- as) or "deploy"
  setting,     \* msc.aionSetting
  gen,         \* which childCtx is the live one (0: none yet)
  msList,      \* the units of microserviceList
  multiple,    \* the units of msList whose ScaleContainer allows multiple
  up,          \* up[u]: NumOfUpState
  toStart,     \* the startup units that startStartupMicroservice has left
  \* WatchReceiveKanban
  rpc,         \* "select", "assign" or "start" (at startCh <-)
  rarg,        \* the setting or the unit it holds
  wSetting,    \* w.aionSetting, which all WatchMicroservices read
  recvCh,      \* channel of capacity 1: kanbans from the device controller
  received,    \* how many were put into it
  sendCh,      \* how many kanbans are in the device controller's sendCh
  \* WatchMicroservice goroutines
  gpc,         \* "free", "select", "next" (one entry of its list), "send" (at
               \* sendCh <-), "write", "start" (at startCh <-), "done"
  gunit,       \* the unit each one watches
  ggen,        \* the context it was started with
  gset,        \* the setting that its last nextServiceList is from
  gtodo,       \* the rest of that nextServiceList
  gname,       \* k.NextDeviceName of the kanban it works on
  ipc,         \* its WatchKanban: "check", "read", "hold" (at kanbanCh <-), "closed"
  gpos,        \* the position of that WatchKanban in the after stream
  \* redis and kubernetes
  after,       \* after[u]: the after stream of u
  before,      \* before[u]: how many WriteKanbans to its before stream were
               \* made (an error of XADD is only logged)
  pods,        \* the units whose pod runs
  panicked,    \* a nil dereference has ended the process
  out          \* history: out[u]: the kanbans put into sendCh for a unit u elsewhere

ctlVars  == <<cpc, setting, gen, msList, multiple, up, toStart>>
recvVars == <<rpc, rarg, wSetting, recvCh, received>>
goVars   == <<gpc, gunit, ggen, gset, gtodo, gname, ipc, gpos>>
sendVars == <<sendCh, out>>
vars == <<aionCh, applied, ctlVars, recvVars, sendVars, goVars, after, before, pods, panicked>>

\* The context of goroutine g has been cancelled by the controller.
Cancelled(g) == ggen[g] # gen

\* Where a WatchMicroservice goes after one item of its nextServiceList.
AfterItem(g) == IF Len(gtodo[g]) = 1 THEN "select" ELSE "next"

-----------------------------------------------------------------------------
(* ScaleContainer and kubernetes, as the controller sees them *)

\* Mutant: the check that the unit is not up already is forgotten.
RefusedUnlisted(u) == u \notin msList

\* StartMicroservice is refused: not in the list, or up and not multiple.
Refused(u) == u \notin msList \/ (up[u] > 0 /\ u \notin multiple)

\* StartMicroservice(u) and, when it succeeds, go WatchMicroservice(ctx, u);
\* pc is gpc after the step of the goroutine that asked for it, if any.  A
\* StartProcess that fails may have created the pod nevertheless.
StartMicroservice(u, pc) ==
  \/ /\ Refused(u)
     /\ gpc' = pc
     /\ UNCHANGED <<up, pods, gunit, ggen, gset, ipc, gpos>>
  \/ /\ ~Refused(u)
     /\ pods' \in {pods, pods \cup {u}}
     /\ gpc' = pc
     /\ UNCHANGED <<up, gunit, ggen, gset, ipc, gpos>>
  \/ /\ ~Refused(u)
     /\ up' = [up EXCEPT ![u] = @ + 1]
     /\ pods' = pods \cup {u}
     /\ \E h \in Watcher :
          /\ gpc[h] = "free"
          /\ gpc' = [pc EXCEPT ![h] = "select"]
          /\ gunit' = [gunit EXCEPT ![h] = u]
          /\ ggen' = [ggen EXCEPT ![h] = gen]
          /\ ipc' = [ipc EXCEPT ![h] = "check"]
          /\ gpos' = [gpos EXCEPT ![h] = 0]
          /\ UNCHANGED gset

-----------------------------------------------------------------------------
(* The controller: WatchKanbanForMicroservice *)

\* case as := <-aionCh, up to the blocking send: the watchers' context is
\* cancelled and every unit is stopped; a stop may fail and leave its unit up.
ReceiveSetting ==
  /\ cpc = "select"
  /\ aionCh # <<>>
  /\ gen' = gen + 1
  /\ \E failed \in SUBSET {u \in msList : up[u] > 0} :
       /\ up' = [u \in Unit |-> IF u \in failed THEN up[u] ELSE 0]
       /\ \E left \in SUBSET (failed \cap pods) :
            pods' = (pods \ {u \in msList : up[u] > 0}) \cup left
  /\ setting' = Head(aionCh)
  /\ aionCh' = Tail(aionCh)
  /\ cpc' = "push"
  /\ UNCHANGED <<applied, msList, multiple, toStart, recvVars, sendVars, goVars,
                 after, before, panicked>>

\* Mutant: the setting is not passed on to the watchers.
DeploySetting ==
  /\ cpc = "push"
  /\ msList' = msList \cup Declared[setting]
  /\ multiple' = (multiple \ Declared[setting]) \cup (Multiple[setting] \cap Declared[setting])
  /\ up' = [u \in Unit |-> IF u \in Declared[setting] THEN 0 ELSE up[u]]
  /\ toStart' = Startup[setting]
  /\ cpc' = "deploy"
  /\ UNCHANGED <<aionCh, applied, setting, gen, recvVars, sendVars, goVars, after, before, pods,
                 panicked>>

\* Mutant: every service of the list is started, not the startup services.
PushAndStartList ==
  /\ cpc = "push"
  /\ rpc = "select"
  /\ rpc' = "assign"
  /\ rarg' = setting
  /\ msList' = msList \cup Declared[setting]
  /\ multiple' = (multiple \ Declared[setting]) \cup (Multiple[setting] \cap Declared[setting])
  /\ up' = [u \in Unit |-> IF u \in Declared[setting] THEN 0 ELSE up[u]]
  /\ toStart' = msList'
  /\ cpc' = "deploy"
  /\ UNCHANGED <<aionCh, applied, setting, gen, wSetting, recvCh, received, sendVars,
                 goVars, after, before, pods, panicked>>

\* aionChForWatcher <- as meets the select of WatchReceiveKanban; then
\* setMicroserviceList puts a fresh ScaleContainer into the list for every
\* declared service and keeps the entries of all earlier settings.
PushSetting ==
  /\ cpc = "push"
  /\ rpc = "select"
  /\ rpc' = "assign"
  /\ rarg' = setting
  /\ msList' = msList \cup Declared[setting]
  /\ multiple' = (multiple \ Declared[setting]) \cup (Multiple[setting] \cap Declared[setting])
  /\ up' = [u \in Unit |-> IF u \in Declared[setting] THEN 0 ELSE up[u]]
  /\ toStart' = Startup[setting]
  /\ cpc' = "deploy"
  /\ UNCHANGED <<aionCh, applied, setting, gen, wSetting, recvCh, received, sendVars,
                 goVars, after, before, pods, panicked>>

\* Mutant: the unit is started by way of startCh, which the controller itself
\* reads at its select.
StartStartupByChannel(u) ==
  /\ cpc = "select"
  /\ u \in toStart
  /\ toStart' = toStart \ {u}
  /\ StartMicroservice(u, gpc)
  /\ UNCHANGED <<aionCh, applied, cpc, setting, gen, msList, multiple, recvVars,
                 sendVars, gtodo, gname, after, before, panicked>>

\* startStartupMicroservice: one unit, in no particular order (a Go map).
StartStartup(u) ==
  /\ cpc = "deploy"
  /\ u \in toStart
  /\ toStart' = toStart \ {u}
  /\ StartMicroservice(u, gpc)
  /\ UNCHANGED <<aionCh, applied, cpc, setting, gen, msList, multiple, recvVars,
                 sendVars, gtodo, gname, after, before, panicked>>

StartupDone ==
  /\ cpc = "deploy"
  /\ toStart = {}
  /\ cpc' = "select"
  /\ UNCHANGED <<aionCh, applied, setting, gen, msList, multiple, up, toStart, recvVars,
                 sendVars, goVars, after, before, pods, panicked>>

\* Mutant: only a request that can be granted is received.
StartForWatcherIfGranted(g) ==
  /\ cpc = "select"
  /\ gpc[g] = "start"
  /\ ~Refused(Head(gtodo[g]).to)
  /\ gtodo' = [gtodo EXCEPT ![g] = Tail(@)]
  /\ StartMicroservice(Head(gtodo[g]).to, [gpc EXCEPT ![g] = AfterItem(g)])
  /\ UNCHANGED <<aionCh, applied, cpc, setting, gen, msList, multiple, toStart, recvVars,
                 sendVars, gname, after, before, panicked>>

\* case ms := <-startCh from a WatchMicroservice: startMicroserviceByNum, and
\* the goroutine goes on with the rest of its list.
StartForWatcher(g) ==
  /\ cpc = "select"
  /\ gpc[g] = "start"
  /\ gtodo' = [gtodo EXCEPT ![g] = Tail(@)]
  /\ StartMicroservice(Head(gtodo[g]).to, [gpc EXCEPT ![g] = AfterItem(g)])
  /\ UNCHANGED <<aionCh, applied, cpc, setting, gen, msList, multiple, toStart, recvVars,
                 sendVars, gname, after, before, panicked>>

\* The same for a unit that WatchReceiveKanban asks for.
StartForDevice ==
  /\ cpc = "select"
  /\ rpc = "start"
  /\ rpc' = "select"
  /\ rarg' = NoSetting
  /\ StartMicroservice(rarg, gpc)
  /\ UNCHANGED <<aionCh, applied, cpc, setting, gen, msList, multiple, toStart, wSetting,
                 recvCh, received, sendVars, gtodo, gname, after, before, panicked>>

-----------------------------------------------------------------------------
(* WatchReceiveKanban *)

\* w.aionSetting = as, after the receive and concurrent with the controller.
AssignSetting ==
  /\ rpc = "assign"
  /\ wSetting' = rarg
  /\ rpc' = "select"
  /\ rarg' = NoSetting
  /\ UNCHANGED <<aionCh, applied, ctlVars, recvCh, received, sendVars, goVars, after, before,
                 pods, panicked>>

\* A kanban from another device: it is written to the before stream and its
\* unit is to be started.
ReceiveKanban ==
  /\ rpc = "select"
  /\ recvCh # <<>>
  /\ LET u == Head(recvCh) IN
       /\ rarg' = u
       /\ before' = [before EXCEPT ![u] = @ + 1]
  /\ recvCh' = Tail(recvCh)
  /\ rpc' = "start"
  /\ UNCHANGED <<aionCh, applied, ctlVars, wSetting, received, sendVars, goVars, after,
                 pods, panicked>>

-----------------------------------------------------------------------------
(* WatchMicroservice and its WatchKanban on the after stream *)

\* The context of WatchKanban is done: cancelled by the controller or by the
\* deferred cancel() of its WatchMicroservice.
ChildDone(g) == Cancelled(g) \/ gpc[g] = "done"

WatchKanbanCheck(g) ==
  /\ gpc[g] # "free"
  /\ ipc[g] = "check"
  /\ ipc' = [ipc EXCEPT ![g] = IF ChildDone(g) THEN "closed" ELSE "read"]
  /\ UNCHANGED <<aionCh, applied, ctlVars, recvVars, sendVars, gpc, gunit, ggen, gset, gtodo, gname,
                 gpos, after, before, pods, panicked>>

\* Mutant: prevID is never updated, the first entry is read for ever.
ReadFirst(g) ==
  /\ ipc[g] = "read"
  /\ after[gunit[g]] # <<>>
  /\ gpos' = [gpos EXCEPT ![g] = 1]
  /\ ipc' = [ipc EXCEPT ![g] = "hold"]
  /\ UNCHANGED <<aionCh, applied, ctlVars, recvVars, sendVars, gpc, gunit, ggen, gset, gtodo, gname,
                 after, before, pods, panicked>>

\* Mutant: the last entry is left until another one follows.
ReadAllButLast(g) ==
  /\ ipc[g] = "read"
  /\ gpos[g] + 1 < Len(after[gunit[g]])
  /\ gpos' = [gpos EXCEPT ![g] = @ + 1]
  /\ ipc' = [ipc EXCEPT ![g] = "hold"]
  /\ UNCHANGED <<aionCh, applied, ctlVars, recvVars, sendVars, gpc, gunit, ggen, gset, gtodo, gname,
                 after, before, pods, panicked>>

\* The blocking XREAD returns the next entry; entries are not deleted.
WatchKanbanRead(g) ==
  /\ ipc[g] = "read"
  /\ gpos[g] < Len(after[gunit[g]])
  /\ gpos' = [gpos EXCEPT ![g] = @ + 1]
  /\ ipc' = [ipc EXCEPT ![g] = "hold"]
  /\ UNCHANGED <<aionCh, applied, ctlVars, recvVars, sendVars, gpc, gunit, ggen, gset, gtodo, gname,
                 after, before, pods, panicked>>

\* XREAD fails: the channel is closed.
WatchKanbanFails(g) ==
  /\ ipc[g] = "read"
  /\ ipc' = [ipc EXCEPT ![g] = "closed"]
  /\ UNCHANGED <<aionCh, applied, ctlVars, recvVars, sendVars, gpc, gunit, ggen, gset, gtodo, gname,
                 gpos, after, before, pods, panicked>>

\* ctx.Done(), or the channel was closed: WatchMicroservice returns.
WatchReturns(g) ==
  /\ gpc[g] = "select"
  /\ Cancelled(g) \/ ipc[g] = "closed"
  /\ gpc' = [gpc EXCEPT ![g] = "done"]
  /\ UNCHANGED <<aionCh, applied, ctlVars, recvVars, sendVars, gunit, ggen, gset, gtodo, gname, ipc,
                 gpos, after, before, pods, panicked>>

\* A kanban of the unit arrives (the select may prefer it to a cancelled
\* context): a terminate kanban of a service that is not always ends the
\* goroutine, an undeclared service is skipped, otherwise the next services
\* of w.aionSetting are worked through.
TakeKanban(g) ==
  LET u == gunit[g]
      k == after[u][gpos[g]]
  IN
  /\ gpc[g] = "select"
  /\ ipc[g] = "hold"
  /\ ipc' = [ipc EXCEPT ![g] = "check"]
  /\ \/ /\ wSetting = NoSetting
        /\ panicked' = TRUE
        /\ UNCHANGED <<gpc, gset, gtodo, gname>>
     \/ /\ wSetting # NoSetting
        /\ u \in Declared[wSetting]
        /\ k.terminate /\ u \notin Always[wSetting]
        /\ gpc' = [gpc EXCEPT ![g] = "done"]
        /\ UNCHANGED <<gset, gtodo, gname, panicked>>
     \/ /\ wSetting # NoSetting
        /\ u \in Declared[wSetting]
        /\ ~k.terminate \/ u \in Always[wSetting]
        /\ gset' = [gset EXCEPT ![g] = wSetting]
        /\ gtodo' = [gtodo EXCEPT ![g] = NextService[wSetting][u]]
        /\ gname' = [gname EXCEPT ![g] = k.device]
        /\ gpc' = [gpc EXCEPT ![g] = IF NextService[wSetting][u] = <<>>
                                     THEN "select" ELSE "next"]
        /\ UNCHANGED panicked
     \/ /\ wSetting # NoSetting
        /\ u \notin Declared[wSetting]
        /\ UNCHANGED <<gpc, gset, gtodo, gname, panicked>>
  /\ UNCHANGED <<aionCh, applied, ctlVars, recvVars, sendVars, gunit, ggen, gpos, after, before,
                 pods>>

\* One entry of the list: the kanban goes to another device if the name that it
\* carries, or else the entry's, is in the device list of the setting that the
\* watchers have now, which may be a later one than the entry is from.
ChooseDevice(g) ==
  LET device == IF gname[g] # NoName THEN gname[g] ELSE Head(gtodo[g]).device IN
  /\ gpc[g] = "next"
  /\ gpc' = [gpc EXCEPT ![g] = IF device \in Devices[wSetting] THEN "send" ELSE "write"]
  /\ UNCHANGED <<aionCh, applied, ctlVars, recvVars, sendVars, gunit, ggen, gset, gtodo, gname,
                 ipc, gpos, after, before, pods, panicked>>

\* The next service is local: the kanban is marked with this device's name and
\* written, then the service is to be started.
ForwardLocal(g) ==
  LET u == Head(gtodo[g]).to IN
  /\ gpc[g] = "write"
  /\ gname' = [gname EXCEPT ![g] = OwnName[wSetting]]
  /\ before' = [before EXCEPT ![u] = @ + 1]
  /\ gpc' = [gpc EXCEPT ![g] = "start"]
  /\ UNCHANGED <<aionCh, applied, ctlVars, recvVars, sendVars, gunit, ggen, gset, gtodo, ipc, gpos,
                 after, pods, panicked>>

\* It is on another device: SendFileToDevice blocks while the device
\* controller's sendCh, of capacity 1, is full.
ForwardToDevice(g) ==
  LET u == Head(gtodo[g]).to IN
  /\ gpc[g] = "send"
  /\ sendCh = 0
  /\ sendCh' = 1
  /\ out' = [out EXCEPT ![u] = @ + 1]
  /\ gtodo' = [gtodo EXCEPT ![g] = Tail(@)]
  /\ gpc' = [gpc EXCEPT ![g] = AfterItem(g)]
  /\ UNCHANGED <<aionCh, applied, ctlVars, recvVars, gunit, ggen, gset, gname, ipc, gpos, after,
                 before, pods, panicked>>

-----------------------------------------------------------------------------
(* The environment: project server, devices, microservices *)

\* Apply or Delete of the project server, or a setting from the master.
Apply ==
  /\ applied < MaxApply
  /\ aionCh = <<>>
  /\ \E s \in Setting : aionCh' = <<s>>
  /\ applied' = applied + 1
  /\ UNCHANGED <<ctlVars, recvVars, sendVars, goVars, after, before, pods, panicked>>

\* The device controller passes on a kanban from another device.
DeviceReceive ==
  /\ received < MaxReceive
  /\ recvCh = <<>>
  /\ \E u \in Unit : recvCh' = <<u>>
  /\ received' = received + 1
  /\ UNCHANGED <<aionCh, applied, ctlVars, rpc, rarg, wSetting, sendVars, goVars, after, before,
                 pods, panicked>>

\* Its sender takes a kanban from sendCh while it is connected.
DeviceSend ==
  /\ sendCh = 1
  /\ sendCh' = 0
  /\ UNCHANGED <<aionCh, applied, ctlVars, recvVars, out, goVars, after, before, pods, panicked>>

\* A running microservice outputs a kanban, and may name a device.
Output(u) ==
  /\ u \in pods
  /\ Len(after[u]) < MaxKanban
  /\ \E d \in Carried :
       after' = [after EXCEPT ![u] = Append(@, [terminate |-> FALSE, device |-> d])]
  /\ UNCHANGED <<aionCh, applied, ctlVars, recvVars, sendVars, goVars, before, pods, panicked>>

\* A microservice ends: it sends the terminate kanban and, unless kubernetes
\* restarts it, its pod goes away.
Terminate(u) ==
  /\ u \in pods
  /\ Len(after[u]) < MaxKanban
  /\ after' = [after EXCEPT ![u] = Append(@, [terminate |-> TRUE, device |-> NoName])]
  /\ pods' \in {pods, pods \ {u}}
  /\ UNCHANGED <<aionCh, applied, ctlVars, recvVars, sendVars, goVars, before, panicked>>

-----------------------------------------------------------------------------
\* main puts the setting of services.yml into aionCh before it starts the
\* controller (default mode), or nothing (master and worker).
Init ==
  /\ aionCh \in {<<>>} \cup {<<s>> : s \in Setting}
  /\ applied = 0
  /\ cpc = "select"
  /\ setting = NoSetting
  /\ gen = 0
  /\ msList = {}
  /\ multiple = {}
  /\ up = [u \in Unit |-> 0]
  /\ toStart = {}
  /\ rpc = "select"
  /\ rarg = NoSetting
  /\ wSetting = NoSetting
  /\ recvCh = <<>>
  /\ received = 0
  /\ sendCh = 0
  /\ gpc = [g \in Watcher |-> "free"]
  /\ gunit = [g \in Watcher |-> NoSetting]
  /\ ggen = [g \in Watcher |-> 0]
  /\ gset = [g \in Watcher |-> NoSetting]
  /\ gtodo = [g \in Watcher |-> <<>>]
  /\ gname = [g \in Watcher |-> NoName]
  /\ ipc = [g \in Watcher |-> "closed"]
  /\ gpos = [g \in Watcher |-> 0]
  /\ after = [u \in Unit |-> <<>>]
  /\ before = [u \in Unit |-> 0]
  /\ pods = {}
  /\ panicked = FALSE
  /\ out = [u \in Unit |-> 0]

Controller ==
  \/ ReceiveSetting
  \/ PushSetting
  \/ \E u \in Unit : StartStartup(u)
  \/ StartupDone
  \/ StartForDevice
  \/ \E g \in Watcher : StartForWatcher(g)

Receiver == AssignSetting \/ ReceiveKanban

WatchMicroservice(g) ==
  \/ WatchKanbanCheck(g)
  \/ WatchKanbanRead(g)
  \/ WatchReturns(g)
  \/ TakeKanban(g)
  \/ ChooseDevice(g)
  \/ ForwardLocal(g)
  \/ ForwardToDevice(g)

Environment ==
  \/ Apply
  \/ DeviceReceive
  \/ DeviceSend
  \/ \E u \in Unit : Output(u) \/ Terminate(u)
  \/ \E g \in Watcher : WatchKanbanFails(g)

Next ==
  /\ ~panicked
  /\ Controller \/ Receiver \/ Environment \/ \E g \in Watcher : WatchMicroservice(g)

Spec == Init /\ [][Next]_vars

\* Goroutines that can run do run, and the device controller stays connected.
Fairness ==
  /\ WF_vars(~panicked /\ Controller)
  /\ WF_vars(~panicked /\ Receiver)
  /\ WF_vars(~panicked /\ DeviceSend)
  /\ \A g \in Watcher : WF_vars(~panicked /\ WatchMicroservice(g))

FairSpec == Spec /\ Fairness

-----------------------------------------------------------------------------
(* Properties *)

\* The types of the channels, of the goroutines' locals and of the shared state.
TypeOK ==
  /\ aionCh \in {<<>>} \cup {<<s>> : s \in Setting}
  /\ applied \in 0..MaxApply
  /\ cpc \in {"select", "push", "deploy"}
  /\ setting \in Setting \cup {NoSetting}
  /\ gen \in Nat
  /\ msList \subseteq Unit /\ multiple \subseteq Unit /\ toStart \subseteq Unit
  /\ up \in [Unit -> Nat]
  /\ rpc \in {"select", "assign", "start"}
  /\ rarg \in Setting \cup Unit \cup {NoSetting}
  /\ wSetting \in Setting \cup {NoSetting}
  /\ recvCh \in {<<>>} \cup {<<u>> : u \in Unit}
  /\ received \in 0..MaxReceive
  /\ sendCh \in {0, 1}
  /\ gpc \in [Watcher -> {"free", "select", "next", "send", "write", "start", "done"}]
  /\ gunit \in [Watcher -> Unit \cup {NoSetting}]
  /\ ggen \in [Watcher -> Nat]
  /\ gset \in [Watcher -> Setting \cup {NoSetting}]
  /\ gtodo \in [Watcher -> Seq([to : Unit, device : DeviceName])]
  /\ gname \in [Watcher -> DeviceName]
  /\ ipc \in [Watcher -> {"check", "read", "hold", "closed"}]
  /\ gpos \in [Watcher -> 0..MaxKanban]
  /\ after \in [Unit -> Seq([terminate : BOOLEAN, device : DeviceName])]
  /\ before \in [Unit -> Nat]
  /\ pods \subseteq Unit
  /\ panicked \in BOOLEAN
  /\ out \in [Unit -> Nat]

\* The watchers' copy of the setting differs from the controller's only while
\* the controller is stuck at aionChForWatcher or the receiver is between its
\* receive and the assignment (when a kanban is routed by the old setting, or
\* by none).
SettingInStep == wSetting = setting \/ cpc = "push" \/ rpc = "assign"

\* A unit that is not multiple has at most one WatchMicroservice under one
\* context, whoever asked for its start and however its stops failed.
OneWatcher ==
  \A g, h \in Watcher :
    /\ g # h /\ gpc[g] # "free" /\ gpc[h] # "free"
    /\ gunit[g] = gunit[h] /\ ggen[g] = ggen[h]
    => \E s \in Setting : gunit[g] \in Multiple[s]

\* The units whose kanbans some setting passes on to t.
Feeding(t) ==
  {u \in Unit : \E s \in Setting : \E i \in DOMAIN NextService[s][u] :
                  NextService[s][u][i].to = t}

\* Their kanbans, by unit and position in the after stream.
Outputs(t) == {k \in Feeding(t) \X (1..MaxKanban) : k[2] <= Len(after[k[1]])}

\* No list of next services names a unit twice.
NamedOnce ==
  \A s \in Setting : \A u \in Unit : \A i, j \in DOMAIN NextService[s][u] :
    NextService[s][u][i].to = NextService[s][u][j].to => i = j

\* Where no service is multiple and no list names a service twice, a kanban is
\* forwarded to a service at most once per deployed setting (each redeploy
\* reads the after streams from their start again), either here or on another
\* device, whatever settings its list and its route are taken from: the
\* kanbans written and sent for t are never more than the deployments times
\* the outputs of the units that feed it, plus what other devices sent.
ForwardedOncePerDeploy ==
  (\A s \in Setting : Multiple[s] = {}) /\ NamedOnce =>
    \A t \in Unit : before[t] + out[t] <= received + gen * Cardinality(Outputs(t))

\* The units that setting s lists after u.
NextOf(s, u) == {NextService[s][u][i].to : i \in DOMAIN NextService[s][u]}

\* A unit that the deployed setting does not declare is started only for
\* another device or for a WatchMicroservice that works on a list which names
\* it: the list of the deployed setting, if that lists a service it does not
\* declare, or else the list of an earlier one (the goroutine was blocked on a
\* channel during the redeploy, or read w.aionSetting before the receiver had
\* replaced it).
UndeclaredStartIsStale ==
  [][\A u \in Unit : up'[u] > up[u] /\ u \notin Declared[setting] =>
       \/ rpc = "start" /\ rpc' = "select" /\ rarg = u
       \/ \E g \in Watcher : /\ gpc[g] = "start" /\ gpc'[g] # "start"
                             /\ u \in NextOf(gset[g], gunit[g])]_vars

\* services.yml "describes the microservices to run on this device": no start
\* of a unit that the deployed setting does not declare.
StartsOnlyDeclared ==
  [][\A u \in Unit : up'[u] > up[u] => u \in Declared[setting]]_vars

\* A setting that the controller took up is deployed to the end: all startup
\* services are tried and the controller is back at its select.
DeployCompletes == cpc # "select" ~> cpc = "select" \/ panicked

\* services.yml: a startup service is started as soon as AION is up.  Of every
\* setting that the controller takes up, each startup unit gets started, or its
\* start was at least tried when the controller is back at its select.
StartupServicesTried ==
  \A u \in Unit : cpc = "push" /\ u \in Startup[setting]
                    ~> up[u] > 0 \/ cpc = "select" \/ panicked

\* A kanban in the after stream of a watched unit is taken by its
\* WatchMicroservice, unless the goroutine ends.
OutputIsTaken ==
  \A g \in Watcher : \A i \in 1..MaxKanban :
    (gpc[g] \notin {"free", "done"} /\ i <= Len(after[gunit[g]]))
      ~> \/ gpos[g] >= i /\ ipc[g] # "hold"
         \/ gpos[g] > i
         \/ gpc[g] = "done"
         \/ panicked

\* A start request is answered: nobody stays blocked on startCh.
StartIsServed ==
  \A g \in Watcher : gpc[g] = "start" ~> gpc[g] # "start" \/ panicked
=============================================================================

-------------------------- MODULE ServiceBrokerProofs --------------------------
(***************************************************************************)
(* Type correctness, three invariants and an action property of            *)
(* ServiceBroker, for any units, settings and number of watchers.          *)
(***************************************************************************)
EXTENDS ServiceBroker, Integers, SequenceTheorems, FiniteSetTheorems, TLAPS

Gpc == {"free", "select", "next", "send", "write", "start", "done"}

\* Where a WatchMicroservice has a list to work through.
Working == {"next", "send", "write", "start"}

\* The entries of a nextServiceList, and the kanbans of an after stream.
Entry == [to : Unit, device : DeviceName]
Kanban == [terminate : BOOLEAN, device : DeviceName]

\* TypeOK in two parts: the prover of sequences and the prover of flags.
DataOK ==
  /\ aionCh \in {<<>>} \cup {<<s>> : s \in Setting}
  /\ applied \in 0..MaxApply
  /\ cpc \in {"select", "push", "deploy"}
  /\ setting \in Setting \cup {NoSetting}
  /\ gen \in Nat
  /\ msList \subseteq Unit /\ multiple \subseteq Unit /\ toStart \subseteq Unit
  /\ up \in [Unit -> Nat]
  /\ rpc \in {"select", "assign", "start"}
  /\ rarg \in Setting \cup Unit \cup {NoSetting}
  /\ wSetting \in Setting \cup {NoSetting}
  /\ recvCh \in {<<>>} \cup {<<u>> : u \in Unit}
  /\ received \in 0..MaxReceive
  /\ sendCh \in {0, 1}
  /\ gpc \in [Watcher -> Gpc]
  /\ gunit \in [Watcher -> Unit \cup {NoSetting}]
  /\ ggen \in [Watcher -> Nat]
  /\ gset \in [Watcher -> Setting \cup {NoSetting}]
  /\ gtodo \in [Watcher -> Seq(Entry)]
  /\ gname \in [Watcher -> DeviceName]
  /\ ipc \in [Watcher -> {"check", "read", "hold", "closed"}]
  /\ gpos \in [Watcher -> 0..MaxKanban]
  /\ after \in [Unit -> Seq(Kanban)]
  /\ before \in [Unit -> Nat]
  /\ pods \subseteq Unit
  /\ out \in [Unit -> Nat]

FlagOK == panicked \in BOOLEAN

\* The after streams stay within the bound of the instance.
AfterBound == \A u \in Unit : Len(after[u]) <= MaxKanban

\* The controller has a setting to deploy, and starts what this one declares.
Deploying ==
  /\ cpc # "select" => setting \in Setting
  /\ cpc = "deploy" => toStart \subseteq Declared[setting]

\* What the receiver holds: the setting that the controller handed over, or,
\* when the controller is at its next send already, an earlier one.
Holding ==
  /\ rpc = "assign" => rarg \in Setting /\ (rarg = setting \/ cpc = "push")
  /\ rpc = "start" => rarg \in Unit

\* Every WatchMicroservice has a unit.  Under the live context this unit is
\* up, and there is none between the stop of all units and the new list.
Watched ==
  \A g \in Watcher : gpc[g] # "free" =>
    /\ gunit[g] \in Unit
    /\ ggen[g] <= gen
    /\ ggen[g] = gen => cpc # "push" /\ up[gunit[g]] > 0

\* A WatchKanban runs only for a WatchMicroservice.
Attached == \A g \in Watcher : ipc[g] # "closed" => gpc[g] # "free"

\* A WatchKanban has read no more than there is, and holds what it has read.
Held ==
  \A g \in Watcher :
    /\ gpc[g] # "free" => gpos[g] <= Len(after[gunit[g]])
    /\ ipc[g] = "hold" => gpos[g] > 0

MultipleDeclared == \A u \in multiple : \E s \in Setting : u \in Multiple[s]

\* What a WatchMicroservice has still to do is from the list that the setting
\* gset[g] has for its unit, and there is a setting to route it by.
Routed ==
  \A g \in Watcher : gpc[g] \in Working =>
    /\ gtodo[g] # <<>>
    /\ wSetting # NoSetting
    /\ \A i \in DOMAIN gtodo[g] : gtodo[g][i].to \in NextOf(gset[g], gunit[g])

IInv ==
  /\ DataOK /\ FlagOK /\ AfterBound
  /\ Deploying /\ Holding /\ SettingInStep
  /\ Watched /\ Attached /\ Held /\ MultipleDeclared /\ OneWatcher
  /\ Routed

\* The two parts make up TypeOK.
LEMMA TypeParts == (TypeOK <=> DataOK /\ FlagOK) /\ (TypeOK' <=> DataOK' /\ FlagOK')
  BY DEF TypeOK, DataOK, FlagOK, Gpc, Entry, Kanban

\* Nothing runs at the start and at most one setting is in aionCh.
LEMMA InitIInv == Init => IInv
<1> SUFFICES ASSUME Init PROVE IInv
  OBVIOUS
<1> USE SettingAssumption, BoundAssumption DEF Init
<1>1. DataOK /\ AfterBound
  BY DEF DataOK, AfterBound, Gpc, Entry, Kanban
<1>2. FlagOK
  BY Zenon DEF FlagOK
<1>3. Deploying /\ Holding /\ SettingInStep /\ MultipleDeclared
  BY DEF Deploying, Holding, SettingInStep, MultipleDeclared
<1>4. Watched /\ Attached /\ Held /\ OneWatcher
  BY DEF Watched, Attached, Held, OneWatcher
<1>5. Routed
  BY DEF Routed, Working
<1> QED
  BY <1>1, <1>2, <1>3, <1>4, <1>5 DEF IInv

\* The state of the goroutines and of the units after StartMicroservice: the
\* goroutines are where pc has them, a new WatchMicroservice is at its select.
AfterStart(pc) ==
  /\ up' \in [Unit -> Nat]
  /\ pods' \subseteq Unit
  /\ gpc' \in [Watcher -> Gpc]
  /\ gunit' \in [Watcher -> Unit \cup {NoSetting}]
  /\ ggen' \in [Watcher -> Nat]
  /\ ipc' \in [Watcher -> {"check", "read", "hold", "closed"}]
  /\ gpos' \in [Watcher -> 0..MaxKanban]
  /\ gset' = gset
  /\ Watched' /\ Attached' /\ Held' /\ OneWatcher'
  /\ \A g \in Watcher : gpc'[g] = pc[g] \/ gpc'[g] = "select"

\* What a start does to the goroutines: pc differs from gpc by a step of the
\* goroutine that asked for the start.
LEMMA StartWatched ==
  ASSUME IInv, cpc \in {"select", "deploy"}, cpc' = cpc,
         UNCHANGED <<gen, msList, multiple, after>>,
         NEW u, NEW pc \in [Watcher -> Gpc],
         \A g \in Watcher : pc[g] = "free" <=> gpc[g] = "free",
         StartMicroservice(u, pc)
  PROVE  AfterStart(pc)
<1> USE BoundAssumption DEF IInv, DataOK, AfterStart
<1>1. CASE /\ UNCHANGED <<up, gunit, ggen, gset, ipc, gpos>>
           /\ gpc' = pc
           /\ pods' \in {pods, pods \cup {u}}
           /\ u \in msList \/ pods' = pods
  BY <1>1 DEF Watched, Attached, Held, OneWatcher
<1>2. ASSUME ~Refused(u),
             up' = [up EXCEPT ![u] = @ + 1],
             pods' = pods \cup {u},
             NEW h \in Watcher,
             gpc[h] = "free",
             gpc' = [pc EXCEPT ![h] = "select"],
             gunit' = [gunit EXCEPT ![h] = u],
             ggen' = [ggen EXCEPT ![h] = gen],
             ipc' = [ipc EXCEPT ![h] = "check"],
             gpos' = [gpos EXCEPT ![h] = 0],
             gset' = gset
      PROVE  AfterStart(pc)
  <2>1. u \in Unit
    BY <1>2 DEF Refused
  <2>2. up[u] = 0 \/ \E s \in Setting : u \in Multiple[s]
    BY <1>2, <2>1 DEF Refused, MultipleDeclared
  <2>3. Watched' /\ Attached' /\ Held'
    <3>1. Watched' /\ Attached'
      BY <1>2, <2>1 DEF Watched, Attached, Gpc
    <3>2. Len(after[u]) \in Nat
      <4>1. after[u] \in Seq(Kanban)
        BY <2>1
      <4> QED
        BY <4>1
    <3>3. Held'
      BY <1>2, <2>1, <3>2 DEF Held
    <3> QED
      BY <3>1, <3>3
  <2>4. ASSUME NEW k \in Watcher, k # h, gpc[k] # "free", gunit[k] = u, ggen[k] = gen
        PROVE  \E s \in Setting : u \in Multiple[s]
    BY <2>2, <2>4 DEF Watched
  <2>5. \A k \in Watcher \ {h} :
          /\ gunit'[k] = gunit[k]
          /\ ggen'[k] = ggen[k]
          /\ gpc'[k] # "free" => gpc[k] # "free"
    BY <1>2
  <2>6. gunit'[h] = u /\ ggen'[h] = gen
    BY <1>2
  <2>7. OneWatcher'
    <3> SUFFICES ASSUME NEW a \in Watcher, NEW b \in Watcher, a # b,
                        gpc'[a] # "free", gpc'[b] # "free",
                        gunit'[a] = gunit'[b], ggen'[a] = ggen'[b]
                 PROVE  \E s \in Setting : gunit'[a] \in Multiple[s]
      BY DEF OneWatcher
    <3>1. CASE a = h
      BY <3>1, <2>4, <2>5, <2>6
    <3>2. CASE b = h
      BY <3>2, <2>4, <2>5, <2>6
    <3>3. CASE a # h /\ b # h
      BY <3>3, <2>5 DEF OneWatcher
    <3> QED
      BY <3>1, <3>2, <3>3
  <2> QED
    BY <1>2, <2>1, <2>3, <2>7 DEF Gpc
<1> QED
  BY <1>1, <1>2 DEF StartMicroservice, Refused

\* A start gives a unit only to a WatchMicroservice that is at its select.
LEMMA StartKeeps ==
  ASSUME NEW u, NEW pc \in [Watcher -> Gpc], gunit \in [Watcher -> Unit \cup {NoSetting}],
         StartMicroservice(u, pc), NEW h \in Watcher, gpc'[h] \in Working
  PROVE  gpc'[h] = pc[h] /\ gunit'[h] = gunit[h]
BY DEF StartMicroservice, Working

\* A goroutine that works goes on with the same list.
LEMMA RoutedStays ==
  ASSUME Routed, wSetting # NoSetting => wSetting' # NoSetting,
         \A g \in Watcher : gpc'[g] \in Working =>
           gpc[g] \in Working /\ UNCHANGED <<gtodo[g], gset[g], gunit[g]>>
  PROVE  Routed'
<1> SUFFICES ASSUME NEW g \in Watcher, gpc'[g] \in Working
             PROVE  /\ gtodo'[g] # <<>> /\ wSetting' # NoSetting
                    /\ \A i \in DOMAIN gtodo'[g] : gtodo'[g][i].to \in NextOf(gset'[g], gunit'[g])
  BY DEF Routed
<1> QED
  BY DEF Routed

\* What is left of a list is a part of it.
LEMMA TailEntries ==
  ASSUME NEW S, NEW s \in Seq(S), s # <<>>
  PROVE  /\ Tail(s) \in Seq(S) /\ Head(s) \in S /\ Head(s) = s[1] /\ 1 \in DOMAIN s
         /\ \A i \in DOMAIN Tail(s) : i + 1 \in DOMAIN s /\ Tail(s)[i] = s[i + 1]
<1>1. Len(s) \in Nat /\ Len(s) > 0
  OBVIOUS
<1> QED
  BY <1>1

\* The types of an entry's and of a kanban's parts.
LEMMA Parts ==
  /\ \A e \in Entry : e.to \in Unit /\ e.device \in DeviceName
  /\ \A k \in Kanban : k.device \in DeviceName
BY DEF Entry, Kanban

\* The lists of next services have entries.
LEMMA Lists ==
  /\ \A s \in Setting, u \in Unit : NextService[s][u] \in Seq(Entry)
  /\ OwnName \in [Setting -> DeviceName]
<1>1. NextService \in [Setting -> [Unit -> Seq(Entry)]]
  BY SettingAssumption, Zenon DEF Entry
<1>2. OwnName \in [Setting -> DeviceName]
  BY SettingAssumption
<1> QED
  BY <1>1, <1>2

\* AfterItem goes on with the list exactly when something is left of it.
LEMMA LongerThanOne ==
  ASSUME NEW S, NEW s \in Seq(S), s # <<>>, Len(s) # 1
  PROVE  Tail(s) # <<>>
<1>1. Len(s) \in Nat /\ Len(s) # 0
  OBVIOUS
<1>2. Len(Tail(s)) # 0
  BY <1>1, HeadTailProperties
<1>3. \A t : t = <<>> => Len(t) = 0
  OBVIOUS
<1> QED
  BY <1>2, <1>3, Zenon

\* A kanban is appended to an after stream that has room for it.
LEMMA AppendBound ==
  ASSUME after \in [Unit -> Seq(Kanban)], AfterBound, NEW u \in Unit, NEW e \in Kanban,
         Len(after[u]) < MaxKanban, after' = [after EXCEPT ![u] = Append(@, e)]
  PROVE  /\ after' \in [Unit -> Seq(Kanban)] /\ AfterBound'
         /\ \A v \in Unit : Len(after[v]) \in Nat /\ Len(after[v]) <= Len(after'[v])
<1>1. Append(after[u], e) \in Seq(Kanban) /\ Len(Append(after[u], e)) = Len(after[u]) + 1
  OBVIOUS
<1>2. \A v \in Unit : Len(after[v]) \in Nat
  <2>1. \A v \in Unit : after[v] \in Seq(Kanban)
    OBVIOUS
  <2> QED
    BY <2>1
<1> QED
  BY <1>1, <1>2, BoundAssumption DEF AfterBound

\* One step for each action.  Types and bound, the setting, the goroutines and
\* their lists are kept for different reasons, hence the five parts.
LEMMA NextIInv == IInv /\ [Next]_vars => IInv'
<1> SUFFICES ASSUME IInv, [Next]_vars PROVE IInv'
  OBVIOUS
<1> USE SettingAssumption, BoundAssumption DEF IInv, ctlVars, recvVars, goVars, sendVars
<1>1. ASSUME ReceiveSetting PROVE IInv'
  <2> USE <1>1 DEF ReceiveSetting
  <2>1. DataOK' /\ AfterBound'
    <3>1. PICK s \in Setting : aionCh = <<s>>
      BY DEF DataOK
    <3>2. aionCh' = <<>> /\ setting' = s
      BY <3>1
    <3>3. gen' \in Nat
      BY DEF DataOK
    <3>4. up' \in [Unit -> Nat] /\ pods' \subseteq Unit
      BY DEF DataOK
    <3> QED
      BY <3>1, <3>2, <3>3, <3>4 DEF DataOK, AfterBound
  <2>2. FlagOK'
    BY Zenon DEF FlagOK
  <2>3. Deploying' /\ Holding' /\ SettingInStep' /\ MultipleDeclared'
    BY DEF DataOK, Deploying, Holding, SettingInStep, MultipleDeclared
  <2>4. Watched' /\ Attached' /\ Held' /\ OneWatcher'
    BY DEF DataOK, Watched, Attached, Held, OneWatcher
  <2>5. Routed'
    <3>1. /\ wSetting' = wSetting
          /\ \A h \in Watcher : gpc'[h] \in Working =>
               gpc[h] \in Working /\ UNCHANGED <<gtodo[h], gset[h], gunit[h]>>
      BY DEF DataOK, Working
    <3> QED
      BY <3>1, RoutedStays
  <2> QED
    BY <2>1, <2>2, <2>3, <2>4, <2>5
<1>2. ASSUME PushSetting PROVE IInv'
  <2> USE <1>2 DEF PushSetting
  <2>1. DataOK' /\ AfterBound'
    <3>1. rarg' \in Setting
      BY DEF DataOK, Deploying
    <3>2. Declared[setting] \subseteq Unit /\ Startup[setting] \subseteq Unit
      BY DEF Deploying
    <3>3. msList' \subseteq Unit /\ multiple' \subseteq Unit /\ toStart' \subseteq Unit
      BY <3>2 DEF DataOK
    <3>4. up' \in [Unit -> Nat]
      BY DEF DataOK
    <3> QED
      BY <3>1, <3>2, <3>3, <3>4 DEF DataOK, AfterBound
  <2>2. FlagOK'
    BY Zenon DEF FlagOK
  <2>3. Deploying' /\ Holding' /\ SettingInStep' /\ MultipleDeclared'
    BY DEF DataOK, Deploying, Holding, SettingInStep, MultipleDeclared
  <2>4. Watched' /\ Attached' /\ Held' /\ OneWatcher'
    BY DEF DataOK, Watched, Attached, Held, OneWatcher
  <2>5. Routed'
    <3>1. /\ wSetting' = wSetting
          /\ \A h \in Watcher : gpc'[h] \in Working =>
               gpc[h] \in Working /\ UNCHANGED <<gtodo[h], gset[h], gunit[h]>>
      BY DEF DataOK, Working
    <3> QED
      BY <3>1, RoutedStays
  <2> QED
    BY <2>1, <2>2, <2>3, <2>4, <2>5
<1>3. ASSUME NEW u \in Unit, StartStartup(u) PROVE IInv'
  <2> USE <1>3 DEF StartStartup
  <2>0. AfterStart(gpc)
    <3>1. gpc \in [Watcher -> Gpc]
      BY DEF DataOK
    <3> QED
      BY <3>1, StartWatched
  <2>9. \A h \in Watcher : gpc'[h] \in Working => gpc'[h] = gpc[h] /\ gunit'[h] = gunit[h]
    <3>1. gpc \in [Watcher -> Gpc] /\ gunit \in [Watcher -> Unit \cup {NoSetting}]
      BY DEF DataOK
    <3> QED
      BY <3>1, StartKeeps
  <2>1. DataOK' /\ AfterBound'
    BY <2>0 DEF AfterStart, DataOK, AfterBound
  <2>2. FlagOK'
    BY Zenon DEF FlagOK
  <2>3. Deploying' /\ Holding' /\ SettingInStep' /\ MultipleDeclared'
    BY DEF DataOK, Deploying, Holding, SettingInStep, MultipleDeclared
  <2>4. Watched' /\ Attached' /\ Held' /\ OneWatcher'
    BY <2>0 DEF AfterStart
  <2>5. Routed'
    <3>1. \A h \in Watcher : gpc'[h] \in Working =>
            gpc[h] \in Working /\ UNCHANGED <<gtodo[h], gset[h], gunit[h]>>
      BY <2>0, <2>9 DEF AfterStart
    <3>2. wSetting' = wSetting
      OBVIOUS
    <3> QED
      BY <3>1, <3>2, RoutedStays
  <2> QED
    BY <2>1, <2>2, <2>3, <2>4, <2>5
<1>4. ASSUME StartupDone PROVE IInv'
  <2> USE <1>4 DEF StartupDone
  <2>1. DataOK' /\ AfterBound'
    BY DEF DataOK, AfterBound, Gpc
  <2>2. FlagOK'
    BY Zenon DEF FlagOK
  <2>3. Deploying' /\ Holding' /\ SettingInStep' /\ MultipleDeclared'
    BY DEF DataOK, Deploying, Holding, SettingInStep, MultipleDeclared
  <2>4. Watched' /\ Attached' /\ Held' /\ OneWatcher'
    BY DEF DataOK, Watched, Attached, Held, OneWatcher
  <2>5. Routed'
    <3>1. /\ wSetting' = wSetting
          /\ \A h \in Watcher : gpc'[h] \in Working =>
               gpc[h] \in Working /\ UNCHANGED <<gtodo[h], gset[h], gunit[h]>>
      BY DEF DataOK, Working
    <3> QED
      BY <3>1, RoutedStays
  <2> QED
    BY <2>1, <2>2, <2>3, <2>4, <2>5
<1>5. ASSUME StartForDevice PROVE IInv'
  <2> USE <1>5 DEF StartForDevice
  <2>0. AfterStart(gpc)
    <3>1. gpc \in [Watcher -> Gpc]
      BY DEF DataOK
    <3> QED
      BY <3>1, StartWatched
  <2>9. \A h \in Watcher : gpc'[h] \in Working => gpc'[h] = gpc[h] /\ gunit'[h] = gunit[h]
    <3>1. gpc \in [Watcher -> Gpc] /\ gunit \in [Watcher -> Unit \cup {NoSetting}]
      BY DEF DataOK
    <3> QED
      BY <3>1, StartKeeps
  <2>1. DataOK' /\ AfterBound'
    BY <2>0 DEF AfterStart, DataOK, AfterBound
  <2>2. FlagOK'
    BY Zenon DEF FlagOK
  <2>3. Deploying' /\ Holding' /\ SettingInStep' /\ MultipleDeclared'
    BY DEF DataOK, Deploying, Holding, SettingInStep, MultipleDeclared
  <2>4. Watched' /\ Attached' /\ Held' /\ OneWatcher'
    BY <2>0 DEF AfterStart
  <2>5. Routed'
    <3>1. \A h \in Watcher : gpc'[h] \in Working =>
            gpc[h] \in Working /\ UNCHANGED <<gtodo[h], gset[h], gunit[h]>>
      BY <2>0, <2>9 DEF AfterStart
    <3>2. wSetting' = wSetting
      OBVIOUS
    <3> QED
      BY <3>1, <3>2, RoutedStays
  <2> QED
    BY <2>1, <2>2, <2>3, <2>4, <2>5
<1>6. ASSUME NEW g \in Watcher, StartForWatcher(g) PROVE IInv'
  <2> USE <1>6 DEF StartForWatcher
  <2>0. AfterStart([gpc EXCEPT ![g] = AfterItem(g)])
    <3> DEFINE pc == [gpc EXCEPT ![g] = AfterItem(g)]
    <3>1. pc \in [Watcher -> Gpc]
      BY DEF DataOK, Gpc, AfterItem
    <3>2. \A h \in Watcher : pc[h] = "free" <=> gpc[h] = "free"
      BY DEF DataOK, AfterItem
    <3>3. StartMicroservice(Head(gtodo[g]).to, pc)
      OBVIOUS
    <3>4. cpc \in {"select", "deploy"} /\ UNCHANGED <<cpc, gen, msList, multiple, after>>
      OBVIOUS
    <3>5. AfterStart(pc)
      <4> HIDE <1>6 DEF pc
      <4> QED
        BY <3>1, <3>2, <3>3, <3>4, StartWatched
    <3> QED
      BY <3>5 DEF pc
  <2>1. DataOK' /\ AfterBound'
    <3>1. gtodo' \in [Watcher -> Seq(Entry)]
      <4>1. gtodo[g] \in Seq(Entry) /\ gtodo[g] # <<>> /\ gtodo \in [Watcher -> Seq(Entry)]
        BY DEF DataOK, Routed, Working
      <4> QED
        BY <4>1, TailEntries
    <3> QED
      BY <2>0, <3>1 DEF AfterStart, DataOK, AfterBound
  <2>2. FlagOK'
    BY Zenon DEF FlagOK
  <2>3. Deploying' /\ Holding' /\ SettingInStep' /\ MultipleDeclared'
    BY DEF DataOK, Deploying, Holding, SettingInStep, MultipleDeclared
  <2>4. Watched' /\ Attached' /\ Held' /\ OneWatcher'
    BY <2>0 DEF AfterStart
  <2>5. Routed'
    <3> DEFINE pc == [gpc EXCEPT ![g] = AfterItem(g)]
    <3>1. gtodo[g] # <<>> /\ gtodo[g] \in Seq(Entry) /\ gpc[g] \in Working
      BY DEF Routed, DataOK, Working
    <3>2. gtodo'[g] = Tail(gtodo[g])
      BY DEF DataOK
    <3>3. \A h \in Watcher : gpc'[h] \in Working => gpc'[h] = pc[h] /\ gunit'[h] = gunit[h]
      <4>1. pc \in [Watcher -> Gpc] /\ gunit \in [Watcher -> Unit \cup {NoSetting}]
        BY DEF DataOK, Gpc, AfterItem
      <4>2. StartMicroservice(Head(gtodo[g]).to, pc)
        OBVIOUS
      <4> HIDE <1>6 DEF pc
      <4> QED
        BY <4>1, <4>2, StartKeeps
    <3>4. gpc'[g] \in Working => gtodo'[g] # <<>>
      <4>1. gpc'[g] \in Working => gpc'[g] = AfterItem(g)
        BY <3>3 DEF DataOK
      <4>2. Len(gtodo[g]) # 1 => Tail(gtodo[g]) # <<>>
        BY <3>1, LongerThanOne
      <4> QED
        BY <3>2, <4>1, <4>2 DEF AfterItem, Working
    <3>5. \A i \in DOMAIN gtodo'[g] : gtodo'[g][i].to \in NextOf(gset[g], gunit[g])
      <4>1. \A i \in DOMAIN Tail(gtodo[g]) :
              i + 1 \in DOMAIN gtodo[g] /\ Tail(gtodo[g])[i] = gtodo[g][i + 1]
        BY <3>1, TailEntries, Zenon
      <4>2. \A i \in DOMAIN gtodo'[g] : i + 1 \in DOMAIN gtodo[g] /\ gtodo'[g][i] = gtodo[g][i + 1]
        BY <3>2, <4>1, Zenon
      <4> QED
        BY <3>1, <4>2 DEF Routed
    <3>6. \A h \in Watcher \ {g} : gtodo'[h] = gtodo[h] /\ pc[h] = gpc[h]
      BY DEF DataOK
    <3>7. gset' = gset /\ wSetting' = wSetting
      BY <2>0 DEF AfterStart
    <3> HIDE <1>6 DEF pc
    <3>8. ASSUME NEW h \in Watcher, gpc'[h] \in Working
          PROVE  /\ gtodo'[h] # <<>> /\ wSetting' # NoSetting
                 /\ \A i \in DOMAIN gtodo'[h] : gtodo'[h][i].to \in NextOf(gset'[h], gunit'[h])
      <4>1. CASE h = g
        BY <3>1, <3>3, <3>4, <3>5, <3>7, <3>8, <4>1 DEF Routed
      <4>2. CASE h # g
        BY <3>3, <3>6, <3>7, <3>8, <4>2 DEF Routed
      <4> QED
        BY <4>1, <4>2
    <3> QED
      BY <3>8 DEF Routed
  <2> QED
    BY <2>1, <2>2, <2>3, <2>4, <2>5
<1>7. ASSUME AssignSetting PROVE IInv'
  <2> USE <1>7 DEF AssignSetting
  <2>1. DataOK' /\ AfterBound'
    <3>1. wSetting' \in Setting
      BY DEF DataOK, Holding
    <3> QED
      BY <3>1 DEF DataOK, AfterBound
  <2>2. FlagOK'
    BY Zenon DEF FlagOK
  <2>3. Deploying' /\ Holding' /\ SettingInStep' /\ MultipleDeclared'
    BY DEF DataOK, Deploying, Holding, SettingInStep, MultipleDeclared
  <2>4. Watched' /\ Attached' /\ Held' /\ OneWatcher'
    BY DEF DataOK, Watched, Attached, Held, OneWatcher
  <2>5. Routed'
    <3>1. wSetting' # NoSetting
      BY DEF DataOK, Holding
    <3>2. UNCHANGED <<gpc, gtodo, gset, gunit>>
      OBVIOUS
    <3> QED
      BY <3>1, <3>2, RoutedStays
  <2> QED
    BY <2>1, <2>2, <2>3, <2>4, <2>5
<1>8. ASSUME ReceiveKanban PROVE IInv'
  <2> USE <1>8 DEF ReceiveKanban
  <2>1. DataOK' /\ AfterBound'
    <3>1. PICK u \in Unit : recvCh = <<u>>
      BY DEF DataOK
    <3>2. recvCh' = <<>> /\ rarg' = u
      BY <3>1
    <3>3. before' \in [Unit -> Nat]
      BY DEF DataOK
    <3> QED
      BY <3>1, <3>2, <3>3 DEF DataOK, AfterBound
  <2>2. FlagOK'
    BY Zenon DEF FlagOK
  <2>3. Deploying' /\ Holding' /\ SettingInStep' /\ MultipleDeclared'
    BY DEF DataOK, Deploying, Holding, SettingInStep, MultipleDeclared
  <2>4. Watched' /\ Attached' /\ Held' /\ OneWatcher'
    BY DEF DataOK, Watched, Attached, Held, OneWatcher
  <2>5. Routed'
    <3>1. /\ wSetting' = wSetting
          /\ \A h \in Watcher : gpc'[h] \in Working =>
               gpc[h] \in Working /\ UNCHANGED <<gtodo[h], gset[h], gunit[h]>>
      BY DEF DataOK, Working
    <3> QED
      BY <3>1, RoutedStays
  <2> QED
    BY <2>1, <2>2, <2>3, <2>4, <2>5
<1>9. ASSUME Apply PROVE IInv'
  <2> USE <1>9 DEF Apply
  <2>1. DataOK' /\ AfterBound'
    BY DEF DataOK, AfterBound, Gpc
  <2>2. FlagOK'
    BY Zenon DEF FlagOK
  <2>3. Deploying' /\ Holding' /\ SettingInStep' /\ MultipleDeclared'
    BY DEF DataOK, Deploying, Holding, SettingInStep, MultipleDeclared
  <2>4. Watched' /\ Attached' /\ Held' /\ OneWatcher'
    BY DEF DataOK, Watched, Attached, Held, OneWatcher
  <2>5. Routed'
    <3>1. /\ wSetting' = wSetting
          /\ \A h \in Watcher : gpc'[h] \in Working =>
               gpc[h] \in Working /\ UNCHANGED <<gtodo[h], gset[h], gunit[h]>>
      BY DEF DataOK, Working
    <3> QED
      BY <3>1, RoutedStays
  <2> QED
    BY <2>1, <2>2, <2>3, <2>4, <2>5
<1>10. ASSUME DeviceReceive PROVE IInv'
  <2> USE <1>10 DEF DeviceReceive
  <2>1. DataOK' /\ AfterBound'
    BY DEF DataOK, AfterBound, Gpc
  <2>2. FlagOK'
    BY Zenon DEF FlagOK
  <2>3. Deploying' /\ Holding' /\ SettingInStep' /\ MultipleDeclared'
    BY DEF DataOK, Deploying, Holding, SettingInStep, MultipleDeclared
  <2>4. Watched' /\ Attached' /\ Held' /\ OneWatcher'
    BY DEF DataOK, Watched, Attached, Held, OneWatcher
  <2>5. Routed'
    <3>1. /\ wSetting' = wSetting
          /\ \A h \in Watcher : gpc'[h] \in Working =>
               gpc[h] \in Working /\ UNCHANGED <<gtodo[h], gset[h], gunit[h]>>
      BY DEF DataOK, Working
    <3> QED
      BY <3>1, RoutedStays
  <2> QED
    BY <2>1, <2>2, <2>3, <2>4, <2>5
<1>11. ASSUME DeviceSend PROVE IInv'
  <2> USE <1>11 DEF DeviceSend
  <2>1. DataOK' /\ AfterBound'
    BY DEF DataOK, AfterBound, Gpc
  <2>2. FlagOK'
    BY Zenon DEF FlagOK
  <2>3. Deploying' /\ Holding' /\ SettingInStep' /\ MultipleDeclared'
    BY DEF DataOK, Deploying, Holding, SettingInStep, MultipleDeclared
  <2>4. Watched' /\ Attached' /\ Held' /\ OneWatcher'
    BY DEF DataOK, Watched, Attached, Held, OneWatcher
  <2>5. Routed'
    <3>1. /\ wSetting' = wSetting
          /\ \A h \in Watcher : gpc'[h] \in Working =>
               gpc[h] \in Working /\ UNCHANGED <<gtodo[h], gset[h], gunit[h]>>
      BY DEF DataOK, Working
    <3> QED
      BY <3>1, RoutedStays
  <2> QED
    BY <2>1, <2>2, <2>3, <2>4, <2>5
<1>12. ASSUME NEW u \in Unit, Output(u) PROVE IInv'
  <2> USE <1>12 DEF Output
  <2>1. DataOK' /\ AfterBound'
    <3>1. PICK e \in Kanban : after' = [after EXCEPT ![u] = Append(@, e)]
      BY DEF Kanban
    <3> QED
      BY <3>1, AppendBound DEF DataOK, AfterBound
  <2>2. FlagOK'
    BY Zenon DEF FlagOK
  <2>3. Deploying' /\ Holding' /\ SettingInStep' /\ MultipleDeclared'
    BY DEF DataOK, Deploying, Holding, SettingInStep, MultipleDeclared
  <2>4. Watched' /\ Attached' /\ Held' /\ OneWatcher'
    <3>1. \A v \in Unit : Len(after[v]) \in Nat /\ Len(after[v]) <= Len(after'[v])
      <4>1. PICK e \in Kanban : after' = [after EXCEPT ![u] = Append(@, e)]
        BY DEF Kanban
      <4> QED
        BY <4>1, AppendBound DEF DataOK
    <3>2. \A v \in Unit : Len(after'[v]) \in Nat
      <4>1. \A v \in Unit : after'[v] \in Seq(Kanban)
        BY <2>1 DEF DataOK
      <4> QED
        BY <4>1
    <3>3. Watched' /\ Attached' /\ OneWatcher'
      BY DEF Watched, Attached, OneWatcher
    <3>4. Held'
      BY <3>1, <3>2, BoundAssumption DEF DataOK, Held, Watched
    <3> QED
      BY <3>3, <3>4
  <2>5. Routed'
    <3>1. /\ wSetting' = wSetting
          /\ \A h \in Watcher : gpc'[h] \in Working =>
               gpc[h] \in Working /\ UNCHANGED <<gtodo[h], gset[h], gunit[h]>>
      BY DEF DataOK, Working
    <3> QED
      BY <3>1, RoutedStays
  <2> QED
    BY <2>1, <2>2, <2>3, <2>4, <2>5
<1>13. ASSUME NEW u \in Unit, Terminate(u) PROVE IInv'
  <2> USE <1>13 DEF Terminate
  <2>1. DataOK' /\ AfterBound'
    <3>1. PICK e \in Kanban : after' = [after EXCEPT ![u] = Append(@, e)]
      BY DEF Kanban
    <3> QED
      BY <3>1, AppendBound DEF DataOK, AfterBound
  <2>2. FlagOK'
    BY Zenon DEF FlagOK
  <2>3. Deploying' /\ Holding' /\ SettingInStep' /\ MultipleDeclared'
    BY DEF DataOK, Deploying, Holding, SettingInStep, MultipleDeclared
  <2>4. Watched' /\ Attached' /\ Held' /\ OneWatcher'
    <3>1. \A v \in Unit : Len(after[v]) \in Nat /\ Len(after[v]) <= Len(after'[v])
      <4>1. PICK e \in Kanban : after' = [after EXCEPT ![u] = Append(@, e)]
        BY DEF Kanban
      <4> QED
        BY <4>1, AppendBound DEF DataOK
    <3>2. \A v \in Unit : Len(after'[v]) \in Nat
      <4>1. \A v \in Unit : after'[v] \in Seq(Kanban)
        BY <2>1 DEF DataOK
      <4> QED
        BY <4>1
    <3>3. Watched' /\ Attached' /\ OneWatcher'
      BY DEF Watched, Attached, OneWatcher
    <3>4. Held'
      BY <3>1, <3>2, BoundAssumption DEF DataOK, Held, Watched
    <3> QED
      BY <3>3, <3>4
  <2>5. Routed'
    <3>1. /\ wSetting' = wSetting
          /\ \A h \in Watcher : gpc'[h] \in Working =>
               gpc[h] \in Working /\ UNCHANGED <<gtodo[h], gset[h], gunit[h]>>
      BY DEF DataOK, Working
    <3> QED
      BY <3>1, RoutedStays
  <2> QED
    BY <2>1, <2>2, <2>3, <2>4, <2>5
<1>14. ASSUME NEW g \in Watcher, WatchKanbanFails(g) PROVE IInv'
  <2> USE <1>14 DEF WatchKanbanFails
  <2>1. DataOK' /\ AfterBound'
    BY DEF DataOK, AfterBound, Gpc
  <2>2. FlagOK'
    BY Zenon DEF FlagOK
  <2>3. Deploying' /\ Holding' /\ SettingInStep' /\ MultipleDeclared'
    BY DEF DataOK, Deploying, Holding, SettingInStep, MultipleDeclared
  <2>4. Watched' /\ Attached' /\ Held' /\ OneWatcher'
    BY DEF DataOK, Watched, Attached, Held, OneWatcher
  <2>5. Routed'
    <3>1. /\ wSetting' = wSetting
          /\ \A h \in Watcher : gpc'[h] \in Working =>
               gpc[h] \in Working /\ UNCHANGED <<gtodo[h], gset[h], gunit[h]>>
      BY DEF DataOK, Working
    <3> QED
      BY <3>1, RoutedStays
  <2> QED
    BY <2>1, <2>2, <2>3, <2>4, <2>5
<1>15. ASSUME NEW g \in Watcher, WatchKanbanCheck(g) PROVE IInv'
  <2> USE <1>15 DEF WatchKanbanCheck
  <2>1. DataOK' /\ AfterBound'
    BY DEF DataOK, AfterBound, Gpc
  <2>2. FlagOK'
    BY Zenon DEF FlagOK
  <2>3. Deploying' /\ Holding' /\ SettingInStep' /\ MultipleDeclared'
    BY DEF DataOK, Deploying, Holding, SettingInStep, MultipleDeclared
  <2>4. Watched' /\ Attached' /\ Held' /\ OneWatcher'
    BY DEF DataOK, Watched, Attached, Held, OneWatcher
  <2>5. Routed'
    <3>1. /\ wSetting' = wSetting
          /\ \A h \in Watcher : gpc'[h] \in Working =>
               gpc[h] \in Working /\ UNCHANGED <<gtodo[h], gset[h], gunit[h]>>
      BY DEF DataOK, Working
    <3> QED
      BY <3>1, RoutedStays
  <2> QED
    BY <2>1, <2>2, <2>3, <2>4, <2>5
<1>16. ASSUME NEW g \in Watcher, WatchKanbanRead(g) PROVE IInv'
  <2> USE <1>16 DEF WatchKanbanRead
  <2>1. DataOK' /\ AfterBound'
    <3>1. gunit[g] \in Unit
      BY DEF Attached, Watched
    <3>2. Len(after[gunit[g]]) \in Nat /\ Len(after[gunit[g]]) <= MaxKanban
      BY <3>1 DEF DataOK, AfterBound
    <3>3. gpos' \in [Watcher -> 0..MaxKanban]
      BY <3>2 DEF DataOK
    <3> QED
      BY <3>1, <3>2, <3>3 DEF DataOK, AfterBound
  <2>2. FlagOK'
    BY Zenon DEF FlagOK
  <2>3. Deploying' /\ Holding' /\ SettingInStep' /\ MultipleDeclared'
    BY DEF DataOK, Deploying, Holding, SettingInStep, MultipleDeclared
  <2>4. Watched' /\ Attached' /\ Held' /\ OneWatcher'
    BY DEF DataOK, Watched, Attached, Held, OneWatcher
  <2>5. Routed'
    <3>1. /\ wSetting' = wSetting
          /\ \A h \in Watcher : gpc'[h] \in Working =>
               gpc[h] \in Working /\ UNCHANGED <<gtodo[h], gset[h], gunit[h]>>
      BY DEF DataOK, Working
    <3> QED
      BY <3>1, RoutedStays
  <2> QED
    BY <2>1, <2>2, <2>3, <2>4, <2>5
<1>17. ASSUME NEW g \in Watcher, WatchReturns(g) PROVE IInv'
  <2> USE <1>17 DEF WatchReturns
  <2>1. DataOK' /\ AfterBound'
    BY DEF DataOK, AfterBound, Gpc
  <2>2. FlagOK'
    BY Zenon DEF FlagOK
  <2>3. Deploying' /\ Holding' /\ SettingInStep' /\ MultipleDeclared'
    BY DEF DataOK, Deploying, Holding, SettingInStep, MultipleDeclared
  <2>4. Watched' /\ Attached' /\ Held' /\ OneWatcher'
    BY DEF DataOK, Watched, Attached, Held, OneWatcher
  <2>5. Routed'
    <3>1. /\ wSetting' = wSetting
          /\ \A h \in Watcher : gpc'[h] \in Working =>
               gpc[h] \in Working /\ UNCHANGED <<gtodo[h], gset[h], gunit[h]>>
      BY DEF DataOK, Working
    <3> QED
      BY <3>1, RoutedStays
  <2> QED
    BY <2>1, <2>2, <2>3, <2>4, <2>5
<1>18. ASSUME NEW g \in Watcher, TakeKanban(g) PROVE IInv'
  <2> USE <1>18 DEF TakeKanban
  <2>1. DataOK' /\ AfterBound'
    <3>1. gpc' \in [Watcher -> Gpc]
      BY DEF DataOK, Gpc
    <3>2. gset' \in [Watcher -> Setting \cup {NoSetting}]
      BY DEF DataOK
    <3>3. gtodo' \in [Watcher -> Seq(Entry)]
      <4>1. gunit[g] \in Unit /\ wSetting \in Setting \cup {NoSetting}
        BY DEF Watched, DataOK
      <4>2. wSetting # NoSetting => NextService[wSetting][gunit[g]] \in Seq(Entry)
        BY <4>1, Lists
      <4>3. gtodo \in [Watcher -> Seq(Entry)]
        BY DEF DataOK
      <4> HIDE SettingAssumption
      <4> QED
        BY <4>2, <4>3
    <3>4. ipc' \in [Watcher -> {"check", "read", "hold", "closed"}]
      BY DEF DataOK
    <3>5. gname' \in [Watcher -> DeviceName]
      <4>1. gunit[g] \in Unit /\ after[gunit[g]] \in Seq(Kanban)
        BY DEF Watched, DataOK
      <4>2. gpos[g] \in 1..Len(after[gunit[g]])
        BY DEF DataOK, Held
      <4>3. after[gunit[g]][gpos[g]].device \in DeviceName
        <5>1. after[gunit[g]][gpos[g]] \in Kanban
          BY <4>1, <4>2
        <5> QED
          BY <5>1, Parts
      <4>4. gname \in [Watcher -> DeviceName]
        BY DEF DataOK
      <4> QED
        BY <4>3, <4>4
    <3> QED
      BY <3>1, <3>2, <3>3, <3>4, <3>5 DEF DataOK, AfterBound
  <2>2. FlagOK'
    BY Zenon DEF FlagOK
  <2>3. Deploying' /\ Holding' /\ SettingInStep' /\ MultipleDeclared'
    BY DEF DataOK, Deploying, Holding, SettingInStep, MultipleDeclared
  <2>4. Watched' /\ Attached' /\ Held' /\ OneWatcher'
    <3>1. gpc \in [Watcher -> Gpc] /\ ipc \in [Watcher -> {"check", "read", "hold", "closed"}]
      BY DEF DataOK
    <3>2. \A h \in Watcher : gpc'[h] # "free" <=> gpc[h] # "free"
      BY <3>1
    <3>3. \A h \in Watcher : (ipc'[h] # "closed" => ipc[h] # "closed")
                              /\ (ipc'[h] = "hold" => ipc[h] = "hold")
      BY <3>1
    <3> QED
      BY <3>2, <3>3 DEF Watched, Attached, Held, OneWatcher
  <2>5. Routed'
    <3>1. \A h \in Watcher \ {g} :
            gpc'[h] = gpc[h] /\ gset'[h] = gset[h] /\ gtodo'[h] = gtodo[h]
      BY DEF DataOK
    <3>2. CASE UNCHANGED <<gset, gtodo>> /\ gpc'[g] \in {"select", "done"}
      BY <3>1, <3>2 DEF Routed, Working
    <3>3. CASE /\ wSetting # NoSetting
               /\ gset' = [gset EXCEPT ![g] = wSetting]
               /\ gtodo' = [gtodo EXCEPT ![g] = NextService[wSetting][gunit[g]]]
               /\ gpc' = [gpc EXCEPT ![g] = IF NextService[wSetting][gunit[g]] = <<>>
                                            THEN "select" ELSE "next"]
      <4>1. gset'[g] = wSetting /\ gtodo'[g] = NextService[wSetting][gunit[g]]
        BY <3>3 DEF DataOK
      <4>2. gpc'[g] \in Working => gtodo'[g] # <<>>
        BY <3>3, <4>1 DEF DataOK, Working
      <4>3. \A i \in DOMAIN gtodo'[g] : gtodo'[g][i].to \in NextOf(gset'[g], gunit[g])
        BY <4>1 DEF NextOf
      <4>4. wSetting' = wSetting /\ gunit' = gunit
        OBVIOUS
      <4> HIDE SettingAssumption, <1>18 DEF TakeKanban
      <4> QED
        BY <3>1, <3>3, <4>2, <4>3, <4>4 DEF Routed
    <3> QED
      BY <3>2, <3>3 DEF DataOK
  <2> QED
    BY <2>1, <2>2, <2>3, <2>4, <2>5
<1>19. ASSUME NEW g \in Watcher, ForwardLocal(g) PROVE IInv'
  <2> USE <1>19 DEF ForwardLocal
  <2>1. DataOK' /\ AfterBound'
    <3>1. gpc' \in [Watcher -> Gpc]
      BY DEF DataOK, Gpc
    <3>2. gtodo[g] # <<>> /\ gtodo[g] \in Seq(Entry) /\ wSetting \in Setting
      BY DEF Routed, DataOK, Working
    <3>3. Head(gtodo[g]).to \in Unit
      <4>1. Head(gtodo[g]) \in Entry
        BY <3>2, TailEntries, Zenon
      <4> QED
        BY <4>1, Parts
    <3>4. before' \in [Unit -> Nat]
      <4>1. before' = [before EXCEPT ![Head(gtodo[g]).to] = @ + 1]
        OBVIOUS
      <4>2. before \in [Unit -> Nat]
        BY DEF DataOK
      <4> HIDE <1>19 DEF ForwardLocal
      <4> QED
        BY <3>3, <4>1, <4>2
    <3>5. gname' \in [Watcher -> DeviceName]
      BY <3>2 DEF DataOK
    <3> QED
      BY <3>1, <3>4, <3>5 DEF DataOK, AfterBound
  <2>2. FlagOK'
    BY Zenon DEF FlagOK
  <2>3. Deploying' /\ Holding' /\ SettingInStep' /\ MultipleDeclared'
    BY DEF DataOK, Deploying, Holding, SettingInStep, MultipleDeclared
  <2>4. Watched' /\ Attached' /\ Held' /\ OneWatcher'
    BY DEF DataOK, Watched, Attached, Held, OneWatcher
  <2>5. Routed'
    <3>1. /\ wSetting' = wSetting
          /\ \A h \in Watcher : gpc'[h] \in Working =>
               gpc[h] \in Working /\ UNCHANGED <<gtodo[h], gset[h], gunit[h]>>
      BY DEF DataOK, Working
    <3> QED
      BY <3>1, RoutedStays
  <2> QED
    BY <2>1, <2>2, <2>3, <2>4, <2>5
<1>20. ASSUME NEW g \in Watcher, ForwardToDevice(g) PROVE IInv'
  <2> USE <1>20 DEF ForwardToDevice
  <2>0. gtodo[g] # <<>> /\ gtodo[g] \in Seq(Entry) /\ gpc[g] \in Working /\ wSetting # NoSetting
    BY DEF Routed, DataOK, Working
  <2>1. DataOK' /\ AfterBound'
    <3>1. gpc' \in [Watcher -> Gpc]
      BY DEF DataOK, Gpc, AfterItem
    <3>2. gtodo' \in [Watcher -> Seq(Entry)]
      BY <2>0 DEF DataOK
    <3>3. Head(gtodo[g]).to \in Unit
      BY <2>0, TailEntries, Parts
    <3>4. out' \in [Unit -> Nat]
      BY <3>3 DEF DataOK
    <3> QED
      BY <3>1, <3>2, <3>4 DEF DataOK, AfterBound
  <2>2. FlagOK'
    BY Zenon DEF FlagOK
  <2>3. Deploying' /\ Holding' /\ SettingInStep' /\ MultipleDeclared'
    BY DEF DataOK, Deploying, Holding, SettingInStep, MultipleDeclared
  <2>4. Watched' /\ Attached' /\ Held' /\ OneWatcher'
    <3>1. \A h \in Watcher : gpc'[h] # "free" <=> gpc[h] # "free"
      BY DEF DataOK, AfterItem
    <3> QED
      BY <3>1 DEF Watched, Attached, Held, OneWatcher
  <2>5. Routed'
    <3>1. gtodo'[g] = Tail(gtodo[g]) /\ gpc'[g] = AfterItem(g)
      BY DEF DataOK
    <3>2. gpc'[g] \in Working => gtodo'[g] # <<>>
      <4>1. Len(gtodo[g]) # 1 => Tail(gtodo[g]) # <<>>
        BY <2>0, LongerThanOne
      <4> QED
        BY <3>1, <4>1 DEF AfterItem, Working
    <3>3. \A i \in DOMAIN gtodo'[g] : gtodo'[g][i].to \in NextOf(gset[g], gunit[g])
      <4>1. \A i \in DOMAIN Tail(gtodo[g]) :
              i + 1 \in DOMAIN gtodo[g] /\ Tail(gtodo[g])[i] = gtodo[g][i + 1]
        BY <2>0, TailEntries, Zenon
      <4>2. \A i \in DOMAIN gtodo'[g] : i + 1 \in DOMAIN gtodo[g] /\ gtodo'[g][i] = gtodo[g][i + 1]
        BY <3>1, <4>1, Zenon
      <4> QED
        BY <2>0, <4>2 DEF Routed
    <3>4. \A h \in Watcher \ {g} : gtodo'[h] = gtodo[h] /\ gpc'[h] = gpc[h]
      BY DEF DataOK
    <3>5. UNCHANGED <<gset, gunit, wSetting>>
      OBVIOUS
    <3> HIDE <1>20 DEF ForwardToDevice
    <3> QED
      <4>1. ASSUME NEW h \in Watcher, gpc'[h] \in Working
            PROVE  /\ gtodo'[h] # <<>> /\ wSetting' # NoSetting
                   /\ \A i \in DOMAIN gtodo'[h] : gtodo'[h][i].to \in NextOf(gset'[h], gunit'[h])
        BY <2>0, <3>2, <3>3, <3>4, <3>5, <4>1 DEF Routed
      <4> QED
        BY <4>1 DEF Routed
  <2> QED
    BY <2>1, <2>2, <2>3, <2>4, <2>5
<1>21. ASSUME NEW g \in Watcher, ChooseDevice(g) PROVE IInv'
  <2> USE <1>21 DEF ChooseDevice
  <2>1. DataOK' /\ AfterBound'
    BY DEF DataOK, AfterBound, Gpc
  <2>2. FlagOK'
    BY Zenon DEF FlagOK
  <2>3. Deploying' /\ Holding' /\ SettingInStep' /\ MultipleDeclared'
    BY DEF DataOK, Deploying, Holding, SettingInStep, MultipleDeclared
  <2>4. Watched' /\ Attached' /\ Held' /\ OneWatcher'
    BY DEF DataOK, Watched, Attached, Held, OneWatcher
  <2>5. Routed'
    <3>1. /\ wSetting' = wSetting
          /\ \A h \in Watcher : gpc'[h] \in Working =>
               gpc[h] \in Working /\ UNCHANGED <<gtodo[h], gset[h], gunit[h]>>
      BY DEF DataOK, Working
    <3> QED
      BY <3>1, RoutedStays
  <2> QED
    BY <2>1, <2>2, <2>3, <2>4, <2>5
<1>22. CASE UNCHANGED vars
  <2>1. Routed'
    BY <1>22, RoutedStays DEF vars
  <2> QED
    BY <1>22, <2>1 DEF vars, DataOK, FlagOK, AfterBound, Deploying, Holding, SettingInStep,
       Watched, Attached, Held, MultipleDeclared, OneWatcher
<1> QED
  BY <1>1, <1>2, <1>3, <1>4, <1>5, <1>6, <1>7, <1>8, <1>9, <1>10, <1>11,
     <1>12, <1>13, <1>14, <1>15, <1>16, <1>17, <1>18, <1>19, <1>20, <1>21, <1>22
  DEF Next, Controller, Receiver, WatchMicroservice, Environment

\* The inductive invariant holds of every behaviour of the goroutines.
THEOREM Invariance == Spec => []IInv
<1>1. Init => IInv
  BY InitIInv
<1>2. IInv /\ [Next]_vars => IInv'
  BY NextIInv
<1> QED
  BY <1>1, <1>2, PTL DEF Spec

\* The controller, the receiver, the watchers and the channels between them
\* stay in their types whatever is applied, received and output.
THEOREM TypeCorrect == Spec => []TypeOK
<1>1. IInv => TypeOK
  BY TypeParts DEF IInv
<1> QED
  BY <1>1, Invariance, PTL

\* w.aionSetting is msc.aionSetting unless a hand-over is under way, however
\* many settings follow each other and whatever else the receiver does.
THEOREM WatchersInStep == Spec => []SettingInStep
<1>1. IInv => SettingInStep
  BY DEF IInv
<1> QED
  BY <1>1, Invariance, PTL

\* One WatchMicroservice per context and unit that is not multiple, for any
\* number of units, settings and failing stops.
THEOREM UnitsHaveOneWatcher == Spec => []OneWatcher
<1>1. IInv => OneWatcher
  BY DEF IInv
<1> QED
  BY <1>1, Invariance, PTL

\* Only StartMicroservice makes a unit's NumOfUpState grow.
LEMMA StartRaises ==
  ASSUME IInv, NEW u, NEW pc, StartMicroservice(u, pc), NEW v \in Unit, up'[v] > up[v]
  PROVE  v = u /\ v \in msList
<1>1. CASE up' = up
  BY <1>1 DEF IInv, DataOK
<1>2. CASE ~Refused(u) /\ up' = [up EXCEPT ![u] = @ + 1]
  BY <1>2 DEF IInv, DataOK, Refused
<1> QED
  BY <1>1, <1>2 DEF StartMicroservice

\* A unit that the deployed setting does not declare is started for another
\* device, or for a goroutine whose list names it: the startup loop starts
\* declared units only.  Nothing is assumed of the settings: a list may name
\* services that its setting does not declare.
THEOREM StaleStarts == Spec => UndeclaredStartIsStale
<1> DEFINE Reason(u) ==
      \/ rpc = "start" /\ rpc' = "select" /\ rarg = u
      \/ \E g \in Watcher : /\ gpc[g] = "start" /\ gpc'[g] # "start"
                            /\ u \in NextOf(gset[g], gunit[g])
<1>1. ASSUME IInv, [Next]_vars, NEW u \in Unit, up'[u] > up[u], u \notin Declared[setting]
      PROVE  Reason(u)
  <2> USE <1>1, SettingAssumption
  <2>1. CASE StartForDevice
    BY <2>1, StartRaises DEF StartForDevice
  <2>2. ASSUME NEW v \in Unit, StartStartup(v) PROVE Reason(u)
    <3>1. v \in Declared[setting]
      BY <2>2 DEF StartStartup, IInv, Deploying
    <3>2. u = v
      BY <2>2, StartRaises DEF StartStartup
    <3> QED
      BY <3>1, <3>2
  <2>3. ASSUME NEW g \in Watcher, StartForWatcher(g) PROVE Reason(u)
    <3>1. u = Head(gtodo[g]).to
      BY <2>3, StartRaises DEF StartForWatcher
    <3>2. gtodo[g] \in Seq(Entry) /\ gtodo[g] # <<>>
      BY <2>3 DEF StartForWatcher, IInv, DataOK, Routed, Working
    <3>3. Head(gtodo[g]) = gtodo[g][1] /\ 1 \in DOMAIN gtodo[g]
      BY <3>2
    <3>4. u \in NextOf(gset[g], gunit[g])
      BY <2>3, <3>1, <3>3 DEF StartForWatcher, IInv, Routed, Working
    <3>5. gpc[g] = "start" /\ gpc'[g] # "start"
      <4>1. gpc \in [Watcher -> Gpc]
        BY DEF IInv, DataOK
      <4>2. [gpc EXCEPT ![g] = AfterItem(g)][g] # "start"
        BY <4>1 DEF AfterItem
      <4> QED
        BY <2>3, <4>1, <4>2 DEF StartForWatcher, StartMicroservice
    <3> QED
      BY <3>4, <3>5
  <2>4. ASSUME \A v \in Unit : up'[v] = 0 \/ up'[v] = up[v] PROVE FALSE
    <3>1. up[u] \in Nat
      BY DEF IInv, DataOK
    <3>2. up'[u] = 0 \/ up'[u] = up[u]
      BY <2>4
    <3> QED
      BY <3>1, <3>2
  <2>5. ReceiveSetting \/ PushSetting \/ StartupDone \/ Receiver \/ Environment
        \/ (\E g \in Watcher : WatchMicroservice(g)) \/ UNCHANGED vars
        => \A v \in Unit : up'[v] = 0 \/ up'[v] = up[v]
    BY DEF ReceiveSetting, PushSetting, StartupDone, Receiver, AssignSetting, ReceiveKanban,
         Environment, Apply, DeviceReceive, DeviceSend, Output, Terminate, WatchKanbanFails,
         WatchMicroservice, WatchKanbanCheck, WatchKanbanRead, WatchReturns, TakeKanban, ChooseDevice,
         ForwardLocal, ForwardToDevice, vars, ctlVars
  <2> QED
    BY <2>1, <2>2, <2>3, <2>4, <2>5 DEF Next, Controller
<1>2. IInv /\ [Next]_vars =>
        [\A u \in Unit : up'[u] > up[u] /\ u \notin Declared[setting] => Reason(u)]_vars
  BY <1>1
<1> QED
  BY <1>2, Invariance, PTL DEF Spec, UndeclaredStartIsStale

-----------------------------------------------------------------------------
(* How many kanbans are forwarded *)

\* The kanbans that g has taken from its WatchKanban, which may have read and
\* hold one more.
Taken(g) == IF ipc[g] = "hold" THEN gpos[g] - 1 ELSE gpos[g]

\* The places of gtodo[g] whose kanban is still to be written or sent.
ToForward(g) == IF gpc[g] \in {"next", "send", "write"} THEN 1..Len(gtodo[g])
                ELSE IF gpc[g] = "start" THEN 2..Len(gtodo[g]) ELSE {}

\* The kanbans of its unit that g may have forwarded to t: those it has taken,
\* but for the last one while t is still to come.
Passed(g, t) == IF \E i \in ToForward(g) : gtodo[g][i].to = t THEN Taken(g) - 1 ELSE Taken(g)

\* A WatchMicroservice has a context of the controller's, and works for the
\* last kanban it has taken through a list that feeds the units on it, each
\* once.
Route(g) ==
  /\ gpc[g] # "free" => ggen[g] > 0
  /\ gpc[g] \in Working =>
       /\ Taken(g) > 0
       /\ \A i \in DOMAIN gtodo[g] : gunit[g] \in Feeding(gtodo[g][i].to)
       /\ \A i, j \in DOMAIN gtodo[g] : gtodo[g][i].to = gtodo[g][j].to => i = j

Routing == \A g \in Watcher : Route(g)

\* Nothing can be started before the first setting is taken up.
NotYet == gen = 0 => msList = {} /\ cpc = "select"

\* The kanbans that may have been forwarded to t, by context.
Forwards(t) ==
  {f \in (1..gen) \X Outputs(t) :
     \E g \in Watcher : /\ gpc[g] # "free" /\ ggen[g] = f[1] /\ gunit[g] = f[2][1]
                        /\ f[2][2] <= Passed(g, t)}

\* One for each kanban written here or sent to another device, but for those
\* that other devices sent.
Counted ==
  \A t \in Unit : before[t] + out[t] + Len(recvCh) <= received + Cardinality(Forwards(t))

\* What a step does to a WatchMicroservice that runs: it goes on with its unit,
\* and what it has forwarded it has forwarded.
Kept(g) ==
  /\ gpc'[g] # "free" /\ ggen'[g] = ggen[g] /\ gunit'[g] = gunit[g]
  /\ \A t \in Unit : Passed(g, t) <= Passed(g, t)'

\* The goroutine and its locals are left alone.
Same(g) == UNCHANGED <<gpc[g], gunit[g], ggen[g], gtodo[g], ipc[g], gpos[g]>>

\* The after streams only grow.
Longer == \A u \in Unit : Len(after[u]) <= Len(after'[u])

\* What the types give for one goroutine.
LEMMA GoroutineTypes ==
  ASSUME IInv, NEW g \in Watcher
  PROVE  /\ gpos[g] \in Nat /\ ggen[g] \in Nat /\ gpc[g] \in Gpc
         /\ gtodo[g] \in Seq(Entry) /\ Len(gtodo[g]) \in Nat
         /\ Taken(g) \in Int /\ \A t : Passed(g, t) \in Int
         /\ gpc[g] # "free" => gunit[g] \in Unit /\ Len(after[gunit[g]]) \in Nat
<1>1. /\ gpos[g] \in Nat /\ ggen[g] \in Nat /\ gpc[g] \in Gpc
      /\ gtodo[g] \in Seq(Entry)
  BY BoundAssumption DEF IInv, DataOK
<1>2. gpc[g] # "free" => gunit[g] \in Unit /\ after[gunit[g]] \in Seq(Kanban)
  BY DEF IInv, DataOK, Watched
<1>3. Taken(g) \in Int
  BY <1>1 DEF Taken
<1> QED BY <1>1, <1>2, <1>3 DEF Passed

\* A goroutine that is left alone stays on its route.
LEMMA SameRoute ==
  ASSUME IInv, IInv', NEW g \in Watcher, Route(g), Same(g), Longer
  PROVE  Route(g)' /\ (gpc[g] # "free" => Kept(g))
<1>1. Taken(g)' = Taken(g) /\ ToForward(g)' = ToForward(g)
  BY DEF Same, Taken, ToForward
<1>2. \A t : Passed(g, t)' = Passed(g, t)
  BY <1>1 DEF Passed, Same
<1>3. Route(g)'
  BY <1>1, GoroutineTypes DEF Route, Same, Feeding
<1> QED BY <1>2, <1>3, GoroutineTypes DEF Kept, Same

\* A goroutine that WatchKanban works for: it has taken no other kanban.
LEMMA WatchKanbanRoute ==
  ASSUME IInv, IInv', NEW g \in Watcher, Route(g), UNCHANGED after,
         WatchKanbanCheck(g) \/ WatchKanbanRead(g) \/ WatchKanbanFails(g)
  PROVE  Route(g)' /\ (gpc[g] # "free" => Kept(g))
<1>1. UNCHANGED <<gpc, gunit, ggen, gtodo>>
  BY DEF WatchKanbanCheck, WatchKanbanRead, WatchKanbanFails
<1>2. gpos[g] \in Nat /\ gpos \in [Watcher -> 0..MaxKanban]
      /\ ipc \in [Watcher -> {"check", "read", "hold", "closed"}]
  BY GoroutineTypes DEF IInv, DataOK
<1>3. \/ gpos'[g] = gpos[g] /\ ipc[g] # "hold" /\ ipc'[g] # "hold"
      \/ /\ gpos'[g] = gpos[g] + 1 /\ ipc[g] # "hold" /\ ipc'[g] = "hold"
         /\ gpos[g] < Len(after[gunit[g]])
  BY <1>2 DEF WatchKanbanCheck, WatchKanbanRead, WatchKanbanFails
<1>4. Taken(g)' = Taken(g)
  BY <1>2, <1>3 DEF Taken
<1>5. \A t : Passed(g, t)' = Passed(g, t)
  BY <1>1, <1>4 DEF Passed, ToForward
<1>6. Route(g)'
  BY <1>1, <1>2, <1>3, <1>4, GoroutineTypes DEF Route, Feeding
<1> QED BY <1>1, <1>5, <1>6, GoroutineTypes DEF Kept

\* A goroutine ends, or takes the next kanban and the list that it goes to.
LEMMA TakeRoute ==
  ASSUME IInv, IInv', NamedOnce, NEW g \in Watcher, Route(g),
         WatchReturns(g) \/ TakeKanban(g)
  PROVE  Route(g)' /\ (gpc[g] # "free" => Kept(g))
<1>1. UNCHANGED <<gunit, ggen, gpos, after>> /\ gpc[g] = "select"
  BY DEF WatchReturns, TakeKanban
<1>2. /\ gpos[g] \in Nat /\ gpc \in [Watcher -> Gpc]
      /\ ipc \in [Watcher -> {"check", "read", "hold", "closed"}]
      /\ gtodo \in [Watcher -> Seq(Entry)]
  BY GoroutineTypes DEF IInv, DataOK
<1>3. \A t : Passed(g, t) = Taken(g)
  BY <1>1 DEF Passed, ToForward
<1>4. CASE WatchReturns(g)
  <2>1. gpc'[g] = "done" /\ ipc' = ipc
    BY <1>2, <1>4 DEF WatchReturns
  <2>2. Taken(g)' = Taken(g) /\ \A t : Passed(g, t)' = Taken(g)
    BY <1>1, <2>1 DEF Taken, Passed, ToForward
  <2> QED BY <1>1, <1>3, <2>1, <2>2, GoroutineTypes DEF Route, Kept, Working
<1>5. CASE TakeKanban(g)
  <2>1. ipc[g] = "hold" /\ ipc'[g] = "check" /\ gpos[g] > 0
    BY <1>1, <1>2, <1>5 DEF TakeKanban, IInv, Held
  <2>2. Taken(g)' = Taken(g) + 1 /\ Taken(g)' = gpos[g]
    BY <1>1, <1>2, <2>1 DEF Taken
  <2>3. \A t : Passed(g, t)' \in {Taken(g), Taken(g) + 1}
    BY <2>2, <1>2 DEF Passed, Taken
  <2>4. gpc'[g] # "free"
    BY <1>1, <1>2, <1>5 DEF TakeKanban, Gpc
  <2>5. gpc'[g] \in Working =>
          /\ wSetting \in Setting /\ gtodo'[g] = NextService[wSetting][gunit[g]]
    BY <1>1, <1>2, <1>5 DEF TakeKanban, IInv, DataOK, Working
  <2>6. gunit[g] \in Unit
    BY <1>1, GoroutineTypes
  <2>7. gpc'[g] \in Working =>
          /\ \A i \in DOMAIN gtodo'[g] : gunit[g] \in Feeding(gtodo'[g][i].to)
          /\ \A i, j \in DOMAIN gtodo'[g] : gtodo'[g][i].to = gtodo'[g][j].to => i = j
    BY <2>5, <2>6 DEF NamedOnce, Feeding
  <2>8. Route(g)'
    BY <1>1, <1>2, <2>1, <2>2, <2>4, <2>7 DEF Route, Feeding
  <2> QED BY <1>1, <1>3, <2>3, <2>4, <2>8, GoroutineTypes DEF Kept
<1> QED BY <1>4, <1>5

\* A goroutine goes on with the unit at the head of its list, or to the next.
LEMMA NextRoute ==
  ASSUME IInv, IInv', NEW g \in Watcher, Route(g), gpc[g] \in Working,
         UNCHANGED <<gunit[g], ggen[g], gpos[g], ipc[g], after>>,
         \/ /\ gpc[g] # "start" /\ gpc'[g] \in {"send", "write", "start"}
            /\ gtodo'[g] = gtodo[g]
         \/ /\ gpc'[g] \in {"next", "select"}
            /\ gtodo[g] # <<>> /\ gtodo'[g] = Tail(gtodo[g])
  PROVE  Route(g)' /\ Kept(g)
<1>1. Taken(g)' = Taken(g) /\ Taken(g) \in Int
  BY GoroutineTypes DEF Taken
<1>2. gtodo[g] \in Seq(Entry) /\ Len(gtodo[g]) \in Nat /\ DOMAIN gtodo[g] = 1..Len(gtodo[g])
  BY GoroutineTypes
<1>3. CASE /\ gpc[g] # "start" /\ gpc'[g] \in {"send", "write", "start"}
           /\ gtodo'[g] = gtodo[g]
  <2>1. ToForward(g)' \subseteq ToForward(g)
    BY <1>2, <1>3 DEF ToForward, Working
  <2>2. \A t : Passed(g, t) <= Passed(g, t)'
    BY <1>1, <1>3, <2>1 DEF Passed
  <2>3. Route(g)'
    BY <1>1, <1>3 DEF Route, Feeding, Working
  <2> QED BY <1>3, <2>2, <2>3 DEF Kept
<1>4. CASE /\ gpc'[g] \in {"next", "select"}
           /\ gtodo[g] # <<>> /\ gtodo'[g] = Tail(gtodo[g])
  <2>1. /\ Len(gtodo'[g]) = Len(gtodo[g]) - 1 /\ DOMAIN gtodo'[g] = 1..(Len(gtodo[g]) - 1)
        /\ \A i \in 1..(Len(gtodo[g]) - 1) : gtodo'[g][i] = gtodo[g][i + 1]
                                              /\ i + 1 \in 1..Len(gtodo[g])
    <3>1. Len(gtodo[g]) > 0
      BY <1>2, <1>4
    <3> QED BY <1>2, <1>4, <3>1
  <2>2. \A i \in ToForward(g)' : i + 1 \in ToForward(g) /\ gtodo'[g][i] = gtodo[g][i + 1]
    BY <1>2, <1>4, <2>1 DEF ToForward, Working
  <2>3. \A t : Passed(g, t) <= Passed(g, t)'
    BY <1>1, <2>2 DEF Passed
  <2>4. Route(g)'
    <3>1. ASSUME NEW i \in DOMAIN gtodo'[g]
          PROVE  gunit[g] \in Feeding(gtodo'[g][i].to)
      BY <1>2, <1>4, <2>1, <3>1 DEF Route
    <3>2. ASSUME NEW i \in DOMAIN gtodo'[g], NEW j \in DOMAIN gtodo'[g],
                 gtodo'[g][i].to = gtodo'[g][j].to
          PROVE  i = j
      <4>1. i + 1 = j + 1
        <5>1. i + 1 \in DOMAIN gtodo[g] /\ j + 1 \in DOMAIN gtodo[g]
              /\ gtodo[g][i + 1].to = gtodo[g][j + 1].to
          BY <1>2, <2>1, <3>2
        <5> QED BY <5>1 DEF Route
      <4> QED BY <2>1, <1>2, <4>1
    <3> QED BY <1>1, <1>4, <3>1, <3>2 DEF Route, Feeding, Working
  <2> QED BY <1>4, <2>3, <2>4 DEF Kept
<1> QED BY <1>3, <1>4

\* A new WatchMicroservice has taken nothing; the others are left alone.
LEMMA StartRoute ==
  ASSUME IInv, IInv', NotYet, NEW u, NEW pc, NEW g \in Watcher,
         pc[g] = gpc[g], pc \in [Watcher -> Gpc],
         StartMicroservice(u, pc), UNCHANGED <<gtodo[g], gen, after>>, Route(g)
  PROVE  Route(g)' /\ (gpc[g] # "free" => Kept(g))
<1>1. gunit \in [Watcher -> Unit \cup {NoSetting}] /\ ggen \in [Watcher -> Nat]
      /\ ipc \in [Watcher -> {"check", "read", "hold", "closed"}]
      /\ gpos \in [Watcher -> 0..MaxKanban] /\ gen \in Nat
  BY DEF IInv, DataOK
<1>2. Longer
  BY DEF Longer, IInv, DataOK
<1>3. CASE Same(g)
  BY <1>2, <1>3, SameRoute
<1>4. CASE /\ gpc[g] = "free" /\ gpc'[g] = "select" /\ gunit'[g] = u /\ ggen'[g] = gen
           /\ ipc'[g] = "check" /\ gpos'[g] = 0 /\ ~Refused(u)
  <2>1. gen > 0 /\ u \in Unit
    BY <1>1, <1>4 DEF NotYet, Refused, IInv, DataOK
  <2> QED BY <1>4, <2>1 DEF Route, Working
<1>5. Same(g) \/ /\ gpc[g] = "free" /\ gpc'[g] = "select" /\ gunit'[g] = u /\ ggen'[g] = gen
                 /\ ipc'[g] = "check" /\ gpos'[g] = 0 /\ ~Refused(u)
  <2>1. CASE gpc' = pc /\ UNCHANGED <<gunit, ggen, ipc, gpos>>
    BY <2>1 DEF Same
  <2>2. ASSUME NEW h \in Watcher,
               /\ gpc[h] = "free"
               /\ gpc' = [pc EXCEPT ![h] = "select"]
               /\ gunit' = [gunit EXCEPT ![h] = u]
               /\ ggen' = [ggen EXCEPT ![h] = gen]
               /\ ipc' = [ipc EXCEPT ![h] = "check"]
               /\ gpos' = [gpos EXCEPT ![h] = 0],
               ~Refused(u)
        PROVE  Same(g) \/ /\ gpc[g] = "free" /\ gpc'[g] = "select" /\ gunit'[g] = u
                          /\ ggen'[g] = gen /\ ipc'[g] = "check" /\ gpos'[g] = 0 /\ ~Refused(u)
    BY <1>1, <2>2 DEF Same
  <2> QED BY <2>1, <2>2 DEF StartMicroservice
<1> QED BY <1>3, <1>4, <1>5

\* Every goroutine stays on its route, and keeps what it has forwarded.
LEMMA RouteStep ==
  ASSUME IInv, IInv', NamedOnce, Routing, NotYet, [Next]_vars, NEW g \in Watcher
  PROVE  Route(g)' /\ (gpc[g] # "free" => Kept(g))
<1> USE DEF ctlVars, recvVars, goVars, sendVars
<1> DEFINE Goal == Route(g)' /\ (gpc[g] # "free" => Kept(g))
<1> HIDE DEF Goal
<1>0. /\ Route(g) /\ gpc \in [Watcher -> Gpc] /\ gtodo \in [Watcher -> Seq(Entry)]
      /\ \A u \in Unit : after[u] \in Seq(Kanban) /\ Len(after[u]) \in Nat
  <2>1. \A u \in Unit : after[u] \in Seq(Kanban)
    BY DEF IInv, DataOK
  <2> QED BY <2>1 DEF Routing, IInv, DataOK
<1>a. ASSUME Same(g), UNCHANGED after PROVE Goal
  <2>1. Longer
    BY <1>0, <1>a DEF Longer
  <2> QED BY <1>0, <1>a, <2>1, SameRoute DEF Goal
<1>1. ASSUME \/ ReceiveSetting \/ PushSetting \/ StartupDone \/ AssignSetting \/ ReceiveKanban
             \/ Apply \/ DeviceReceive \/ DeviceSend \/ UNCHANGED vars
      PROVE  Goal
  <2>1. Same(g) /\ UNCHANGED after
    BY <1>1
    DEF ReceiveSetting, PushSetting, StartupDone, AssignSetting, ReceiveKanban, Apply,
        DeviceReceive, DeviceSend, vars, Same
  <2> QED BY <1>a, <2>1
<1>2. ASSUME NEW u \in Unit, Output(u) \/ Terminate(u) PROVE Goal
  <2>1. Same(g)
    BY <1>2 DEF Output, Terminate, Same
  <2>2. PICK e \in Kanban : after' = [after EXCEPT ![u] = Append(@, e)]
    BY <1>2, SettingAssumption DEF Output, Terminate, Kanban
  <2>3. Longer
    <3>1. Len(Append(after[u], e)) = Len(after[u]) + 1
      BY <1>0
    <3> QED BY <1>0, <2>2, <3>1 DEF Longer, IInv, DataOK
  <2> QED BY <1>0, <2>1, <2>3, SameRoute DEF Goal
<1>3. ASSUME NEW u \in Unit, StartStartup(u) PROVE Goal
  BY <1>0, <1>3, StartRoute DEF StartStartup, Goal
<1>4. ASSUME StartForDevice PROVE Goal
  BY <1>0, <1>4, StartRoute DEF StartForDevice, Goal
<1>5. ASSUME NEW h \in Watcher, StartForWatcher(h) PROVE Goal
  <2> DEFINE pc == [gpc EXCEPT ![h] = AfterItem(h)]
  <2>1. pc \in [Watcher -> Gpc] /\ StartMicroservice(Head(gtodo[h]).to, pc)
        /\ UNCHANGED <<gen, after>> /\ gpc[h] = "start"
        /\ gtodo' = [gtodo EXCEPT ![h] = Tail(@)]
    BY <1>0, <1>5 DEF StartForWatcher, AfterItem, Gpc
  <2>2. CASE g = h
    <3>1. UNCHANGED <<gunit[h], ggen[h], gpos[h], ipc[h]>> /\ gpc'[h] = pc[h]
      <4> HIDE DEF pc
      <4>1. gunit \in [Watcher -> Unit \cup {NoSetting}] /\ ggen \in [Watcher -> Nat]
            /\ ipc \in [Watcher -> {"check", "read", "hold", "closed"}]
            /\ gpos \in [Watcher -> 0..MaxKanban]
        BY DEF IInv, DataOK
      <4> QED BY <2>1, <4>1 DEF StartMicroservice
    <3>2. /\ gtodo[h] # <<>> /\ gtodo'[h] = Tail(gtodo[h]) /\ gpc'[h] \in {"next", "select"}
          /\ gpc[h] \in Working
      BY <1>0, <2>1, <3>1 DEF IInv, Routed, AfterItem, Working
    <3> QED BY <1>0, <2>1, <2>2, <3>1, <3>2, NextRoute DEF Goal
  <2>3. CASE g # h
    <3>1. pc[g] = gpc[g] /\ gtodo'[g] = gtodo[g]
      BY <1>0, <2>1, <2>3
    <3> HIDE DEF pc
    <3> QED BY <1>0, <2>1, <3>1, StartRoute DEF Goal
  <2> QED BY <2>2, <2>3
<1>6. ASSUME NEW h \in Watcher,
             WatchKanbanCheck(h) \/ WatchKanbanRead(h) \/ WatchKanbanFails(h)
      PROVE  Goal
  <2>1. UNCHANGED after
    BY <1>6 DEF WatchKanbanCheck, WatchKanbanRead, WatchKanbanFails
  <2>2. g # h => Same(g)
    BY <1>6 DEF WatchKanbanCheck, WatchKanbanRead, WatchKanbanFails, Same, IInv, DataOK
  <2> QED BY <1>0, <1>6, <1>a, <2>1, <2>2, WatchKanbanRoute DEF Goal
<1>7. ASSUME NEW h \in Watcher, WatchReturns(h) \/ TakeKanban(h) PROVE Goal
  <2>1. UNCHANGED after
    BY <1>7 DEF WatchReturns, TakeKanban
  <2>2. g # h => Same(g)
    BY <1>7 DEF WatchReturns, TakeKanban, Same, IInv, DataOK
  <2> QED BY <1>0, <1>7, <1>a, <2>1, <2>2, TakeRoute DEF Goal
<1>8. ASSUME NEW h \in Watcher, ChooseDevice(h) \/ ForwardLocal(h) \/ ForwardToDevice(h)
      PROVE  Goal
  <2>1. UNCHANGED <<gunit[h], ggen[h], gpos[h], ipc[h], after>>
    BY <1>8 DEF ChooseDevice, ForwardLocal, ForwardToDevice
  <2>2. g # h => Same(g)
    BY <1>8 DEF ChooseDevice, ForwardLocal, ForwardToDevice, Same, IInv, DataOK
  <2>3. gtodo[h] # <<>> /\ gpc[h] \in Working /\ gpc[h] # "start"
    BY <1>8 DEF ChooseDevice, ForwardLocal, ForwardToDevice, IInv, Routed, Working
  <2>4. \/ gpc'[h] \in {"send", "write", "start"} /\ gtodo'[h] = gtodo[h]
        \/ gpc'[h] \in {"next", "select"} /\ gtodo'[h] = Tail(gtodo[h])
    BY <1>0, <1>8 DEF ChooseDevice, ForwardLocal, ForwardToDevice, AfterItem
  <2> QED BY <1>0, <1>a, <2>1, <2>2, <2>3, <2>4, NextRoute DEF Goal
<1>9. Goal
  BY <1>1, <1>2, <1>3, <1>4, <1>5, <1>6, <1>7, <1>8
  DEF Next, Controller, Receiver, WatchMicroservice, Environment
<1> QED BY <1>9 DEF Goal

\* The controller starts nothing before it has taken up a setting.
LEMMA NotYetStep ==
  ASSUME IInv, NotYet, [Next]_vars
  PROVE  NotYet'
<1> USE DEF NotYet, ctlVars
<1>1. gen \in Nat
  BY DEF IInv, DataOK
<1>2. ASSUME ReceiveSetting PROVE NotYet'
  BY <1>1, <1>2 DEF ReceiveSetting
<1>3. ASSUME PushSetting \/ StartupDone PROVE NotYet'
  BY <1>3 DEF PushSetting, StartupDone
<1>4. ASSUME NEW u \in Unit, StartStartup(u) PROVE NotYet'
  BY <1>4 DEF StartStartup
<1>5. ASSUME StartForDevice PROVE NotYet'
  BY <1>5 DEF StartForDevice
<1>6. ASSUME NEW g \in Watcher, StartForWatcher(g) PROVE NotYet'
  BY <1>6 DEF StartForWatcher
<1>7. ASSUME Receiver \/ Environment \/ (\E g \in Watcher : WatchMicroservice(g)) \/ UNCHANGED vars
      PROVE  NotYet'
  BY <1>7
  DEF Receiver, AssignSetting, ReceiveKanban, Environment, Apply, DeviceReceive, DeviceSend,
      Output, Terminate, WatchKanbanFails, WatchMicroservice, WatchKanbanCheck, WatchKanbanRead,
      WatchReturns, TakeKanban, ChooseDevice, ForwardLocal, ForwardToDevice, vars
<1> QED BY <1>2, <1>3, <1>4, <1>5, <1>6, <1>7 DEF Next, Controller

\* There are finitely many kanbans, and contexts, to be forwarded.
LEMMA OutputsFinite ==
  ASSUME IInv, NEW t
  PROVE  /\ IsFiniteSet(Outputs(t)) /\ IsFiniteSet((1..gen) \X Outputs(t))
         /\ Cardinality((1..gen) \X Outputs(t)) = gen * Cardinality(Outputs(t))
         /\ IsFiniteSet(Forwards(t)) /\ Cardinality(Forwards(t)) \in Nat
<1>1. gen \in Nat /\ MaxKanban \in Nat
  BY BoundAssumption DEF IInv, DataOK
<1>2. IsFiniteSet(Feeding(t))
  <2>1. Feeding(t) \subseteq Unit
    BY DEF Feeding
  <2> QED BY <2>1, UnitAssumption, FS_Subset
<1>3. IsFiniteSet(1..MaxKanban) /\ IsFiniteSet(1..gen) /\ Cardinality(1..gen) = gen
  BY <1>1, FS_Interval
<1>4. IsFiniteSet(Feeding(t) \X (1..MaxKanban))
  BY <1>2, <1>3, FS_Product
<1>5. IsFiniteSet(Outputs(t))
  <2>1. Outputs(t) \subseteq Feeding(t) \X (1..MaxKanban)
    BY DEF Outputs
  <2> QED BY <1>4, <2>1, FS_Subset
<1>6. /\ IsFiniteSet((1..gen) \X Outputs(t))
      /\ Cardinality((1..gen) \X Outputs(t)) = gen * Cardinality(Outputs(t))
  BY <1>3, <1>5, FS_Product
<1>7. IsFiniteSet(Forwards(t))
  <2>1. Forwards(t) \subseteq (1..gen) \X Outputs(t)
    BY DEF Forwards
  <2> QED BY <1>6, <2>1, FS_Subset
<1> QED BY <1>5, <1>6, <1>7, FS_CardinalityType

\* The kanbans that may have been forwarded can be counted.
LEMMA ForwardsFinite == IInv => \A t \in Unit : IsFiniteSet(Forwards(t)) /\ Cardinality(Forwards(t)) \in Nat
BY OutputsFinite

\* What a goroutine has forwarded is a number.
LEMMA PassedIsNumber == IInv => \A g \in Watcher, t \in Unit : Passed(g, t) \in Int
BY GoroutineTypes

\* Both in the next state.
LEMMA NextFinite ==
  IInv' => /\ (\A t \in Unit : IsFiniteSet(Forwards(t)) /\ Cardinality(Forwards(t)) \in Nat)'
           /\ (\A g \in Watcher, t \in Unit : Passed(g, t) \in Int)'
BY ForwardsFinite, PassedIsNumber, PTL

\* Entries of the after streams stay where they are, and contexts count up.
LEMMA Grows ==
  ASSUME IInv, IInv', [Next]_vars
  PROVE  gen <= gen' /\ Longer
<1> USE DEF ctlVars
<1>1. gen \in Nat /\ \A u \in Unit : after[u] \in Seq(Kanban) /\ Len(after[u]) \in Nat
  <2>1. \A u \in Unit : after[u] \in Seq(Kanban)
    BY DEF IInv, DataOK
  <2> QED BY <2>1 DEF IInv, DataOK
<1>2. ASSUME NEW u \in Unit, Output(u) \/ Terminate(u) PROVE gen <= gen' /\ Longer
  <2>1. PICK e \in Kanban : after' = [after EXCEPT ![u] = Append(@, e)]
    BY <1>2, SettingAssumption DEF Output, Terminate, Kanban
  <2>2. Len(Append(after[u], e)) = Len(after[u]) + 1
    BY <1>1
  <2>3. gen' = gen
    BY <1>2 DEF Output, Terminate
  <2> QED BY <1>1, <2>1, <2>2, <2>3 DEF Longer, IInv, DataOK
<1>3. ASSUME \/ Controller \/ Receiver \/ Apply \/ DeviceReceive \/ DeviceSend
             \/ (\E g \in Watcher : WatchKanbanFails(g) \/ WatchMicroservice(g)) \/ UNCHANGED vars
      PROVE  gen <= gen' /\ Longer
  <2>1. after' = after /\ gen' \in {gen, gen + 1}
    BY <1>3
    DEF Controller, ReceiveSetting, PushSetting, StartStartup, StartupDone, StartForDevice,
        StartForWatcher, Receiver, AssignSetting, ReceiveKanban, Apply, DeviceReceive, DeviceSend,
        WatchKanbanFails, WatchMicroservice, WatchKanbanCheck, WatchKanbanRead, WatchReturns,
        TakeKanban, ChooseDevice, ForwardLocal, ForwardToDevice, vars
  <2> QED BY <1>1, <2>1 DEF Longer
<1> QED BY <1>2, <1>3 DEF Next, Environment

\* What has been forwarded stays forwarded.
LEMMA ForwardsStay ==
  ASSUME IInv, IInv', gen <= gen', Longer, NEW t \in Unit,
         \A g \in Watcher : gpc[g] # "free" => Kept(g)
  PROVE  Forwards(t) \subseteq Forwards(t)' /\ Cardinality(Forwards(t)) <= Cardinality(Forwards(t)')
<1>1. Outputs(t) \subseteq Outputs(t)'
  <2> SUFFICES ASSUME NEW k \in Outputs(t) PROVE k \in Outputs(t)'
    OBVIOUS
  <2>1. k \in Feeding(t) \X (1..MaxKanban) /\ k[1] \in Unit /\ k[2] \in Nat /\ k[2] <= Len(after[k[1]])
    BY BoundAssumption DEF Outputs, Feeding
  <2>2. after[k[1]] \in Seq(Kanban) /\ after'[k[1]] \in Seq(Kanban)
    BY <2>1 DEF IInv, DataOK
  <2>3. k[2] <= Len(after'[k[1]])
    BY <2>1, <2>2 DEF Longer
  <2> QED BY <2>1, <2>3 DEF Outputs, Feeding
<1>2. Forwards(t) \subseteq Forwards(t)'
  <2> SUFFICES ASSUME NEW f \in Forwards(t) PROVE f \in Forwards(t)'
    OBVIOUS
  <2>1. f \in (1..gen) \X Outputs(t) /\ f[2][2] \in Nat
    BY BoundAssumption DEF Forwards, Outputs
  <2>2. PICK g \in Watcher : gpc[g] # "free" /\ ggen[g] = f[1] /\ gunit[g] = f[2][1]
                             /\ f[2][2] <= Passed(g, t)
    BY DEF Forwards
  <2>3. Passed(g, t) \in Int /\ Passed(g, t)' \in Int /\ Passed(g, t) <= Passed(g, t)'
    <3>1. Passed(g, t)' \in Int
      BY NextFinite
    <3> QED BY <2>2, <3>1, GoroutineTypes DEF Kept
  <2>4. gen \in Nat /\ gen' \in Nat
    BY DEF IInv, DataOK
  <2>5. f \in (1..gen') \X Outputs(t)'
    BY <1>1, <2>1, <2>4
  <2>6. gpc'[g] # "free" /\ ggen'[g] = f[1] /\ gunit'[g] = f[2][1] /\ f[2][2] <= Passed(g, t)'
    BY <2>1, <2>2, <2>3 DEF Kept
  <2> QED BY <2>5, <2>6 DEF Forwards
<1>3. IsFiniteSet(Forwards(t)')
  BY NextFinite
<1> QED BY <1>2, <1>3, FS_Subset

\* A kanban that is written here or sent to another device is one more: no
\* other WatchMicroservice works on the unit under the same context, and this
\* one has not yet forwarded it.
LEMMA ForwardIsNew ==
  ASSUME IInv, IInv', Routing, \A s \in Setting : Multiple[s] = {},
         \A g \in Watcher : gpc[g] # "free" => Kept(g),
         NEW h \in Watcher, ForwardLocal(h) \/ ForwardToDevice(h),
         NEW t \in Unit, t = Head(gtodo[h]).to
  PROVE  Cardinality(Forwards(t)) + 1 <= Cardinality(Forwards(t)')
<1> DEFINE f == <<ggen[h], <<gunit[h], Taken(h)>>>>
<1>1. /\ gpc[h] \in {"send", "write"}
      /\ UNCHANGED <<gen, after, gunit, ggen, ipc, gpos>>
      /\ \/ gpc'[h] = "start" /\ gtodo'[h] = gtodo[h]
         \/ gpc'[h] \in {"next", "select"} /\ gtodo'[h] = Tail(gtodo[h])
  <2>1. gpc \in [Watcher -> Gpc] /\ gtodo \in [Watcher -> Seq(Entry)]
    BY DEF IInv, DataOK
  <2> QED BY <2>1 DEF ForwardLocal, ForwardToDevice, AfterItem, ctlVars
<1>2. /\ gtodo[h] \in Seq(Entry) /\ gtodo[h] # <<>> /\ t = gtodo[h][1].to
      /\ Len(gtodo[h]) \in Nat /\ 1 \in 1..Len(gtodo[h]) /\ DOMAIN gtodo[h] = 1..Len(gtodo[h])
  <2>1. gtodo[h] \in Seq(Entry) /\ gtodo[h] # <<>>
    BY <1>1, GoroutineTypes DEF IInv, Routed, Working
  <2> QED BY <2>1
<1>3. /\ gunit[h] \in Feeding(t) /\ Taken(h) \in 1..MaxKanban /\ Taken(h) <= Len(after[gunit[h]])
      /\ ggen[h] \in 1..gen /\ gunit[h] \in Unit
  <2>1. gunit[h] \in Feeding(t) /\ Taken(h) > 0 /\ ggen[h] > 0 /\ gpos[h] <= Len(after[gunit[h]])
    BY <1>1, <1>2 DEF Routing, Route, Working, IInv, Held
  <2>2. gunit[h] \in Unit /\ Len(after[gunit[h]]) \in Nat /\ Taken(h) \in Int
    BY <1>1, GoroutineTypes
  <2>4. gpos[h] \in 0..MaxKanban /\ Taken(h) <= gpos[h]
    BY BoundAssumption DEF IInv, DataOK, Taken
  <2>3. ggen[h] <= gen /\ ggen[h] \in Nat /\ gen \in Nat
    BY <1>1 DEF IInv, DataOK, Watched
  <2> QED BY <2>1, <2>2, <2>3, <2>4, BoundAssumption
<1>4. f \notin Forwards(t)
  <2> SUFFICES ASSUME NEW g \in Watcher, gpc[g] # "free", ggen[g] = ggen[h], gunit[g] = gunit[h],
                      Taken(h) <= Passed(g, t)
               PROVE  FALSE
    BY DEF Forwards
  <2>1. g = h
    BY <1>1 DEF IInv, OneWatcher
  <2>2. Passed(h, t) = Taken(h) - 1
    <3>1. 1 \in ToForward(h) /\ gtodo[h][1].to = t
      BY <1>1, <1>2 DEF ToForward
    <3> QED BY <3>1 DEF Passed
  <2> QED BY <1>3, <2>1, <2>2
<1>5. f \in Forwards(t)'
  <2>1. \A i \in 2..Len(gtodo[h]) : gtodo[h][i].to # t
    <3> SUFFICES ASSUME NEW i \in 2..Len(gtodo[h]), gtodo[h][i].to = t PROVE FALSE
      OBVIOUS
    <3>1. i \in 1..Len(gtodo[h]) /\ i # 1
      BY <1>2
    <3> QED BY <1>1, <1>2, <3>1 DEF Routing, Route, Working
  <2>2. Passed(h, t)' = Taken(h)
    <3>1. Taken(h)' = Taken(h)
      BY <1>1 DEF Taken
    <3>2. \A i \in ToForward(h)' : gtodo'[h][i].to # t
      <4>1. CASE gpc'[h] = "start" /\ gtodo'[h] = gtodo[h]
        BY <2>1, <4>1 DEF ToForward
      <4>2. CASE gpc'[h] \in {"next", "select"} /\ gtodo'[h] = Tail(gtodo[h])
        <5>1. Len(gtodo'[h]) = Len(gtodo[h]) - 1
              /\ \A i \in 1..(Len(gtodo[h]) - 1) : gtodo'[h][i] = gtodo[h][i + 1]
                                                   /\ i + 1 \in 2..Len(gtodo[h])
          BY <1>2, <4>2
        <5> QED BY <2>1, <4>2, <5>1 DEF ToForward
      <4> QED BY <1>1, <4>1, <4>2
    <3> QED BY <3>1, <3>2 DEF Passed
  <2>3. <<gunit[h], Taken(h)>> \in Outputs(t)
    BY <1>3 DEF Outputs
  <2>4. Outputs(t)' = Outputs(t)
    BY <1>1 DEF Outputs, Feeding
  <2> QED BY <1>1, <1>3, <2>2, <2>3, <2>4 DEF Forwards
<1>6. gen <= gen' /\ Longer
  BY <1>1 DEF Longer, IInv, DataOK
<1>7. Forwards(t) \cup {f} \subseteq Forwards(t)'
  BY <1>5, <1>6, ForwardsStay
<1>8. IsFiniteSet(Forwards(t)) /\ IsFiniteSet(Forwards(t)')
  <2>1. IsFiniteSet(Forwards(t)')
    BY NextFinite
  <2> QED BY <2>1, OutputsFinite
<1> HIDE DEF f
<1>9. Cardinality(Forwards(t) \cup {f}) = Cardinality(Forwards(t)) + 1
  BY <1>4, <1>8, FS_AddElement
<1> QED BY <1>7, <1>8, <1>9, FS_Subset

\* Every kanban in a before stream, and every one sent away, is accounted for.
LEMMA CountedStep ==
  ASSUME IInv, IInv', NamedOnce, \A s \in Setting : Multiple[s] = {},
         Routing, NotYet, Counted, [Next]_vars
  PROVE  Counted'
<1> USE DEF recvVars, sendVars
<1> SUFFICES ASSUME NEW t \in Unit
             PROVE  before'[t] + out'[t] + Len(recvCh') <= received' + Cardinality(Forwards(t)')
  BY DEF Counted
<1>1. \A g \in Watcher : gpc[g] # "free" => Kept(g)
  BY RouteStep
<1>2. /\ Cardinality(Forwards(t)) <= Cardinality(Forwards(t)')
      /\ Cardinality(Forwards(t)) \in Nat /\ Cardinality(Forwards(t)') \in Nat
  <2>1. Cardinality(Forwards(t)') \in Nat
    BY NextFinite
  <2> QED BY <1>1, <2>1, Grows, ForwardsStay, OutputsFinite
<1>3. /\ before[t] + out[t] + Len(recvCh) <= received + Cardinality(Forwards(t))
      /\ before \in [Unit -> Nat] /\ out \in [Unit -> Nat] /\ received \in Nat /\ Len(recvCh) \in Nat
  <2>1. recvCh = <<>> \/ \E u \in Unit : recvCh = <<u>>
    BY DEF IInv, DataOK
  <2>2. Len(recvCh) \in Nat
    BY <2>1
  <2> QED BY <2>2, BoundAssumption DEF Counted, IInv, DataOK
<1>4. CASE UNCHANGED <<before, out, recvCh, received>>
  BY <1>2, <1>3, <1>4
<1>5. CASE ReceiveKanban
  <2>1. PICK u \in Unit : recvCh = <<u>>
    BY <1>5 DEF ReceiveKanban, IInv, DataOK
  <2>2. Len(recvCh) = 1 /\ Len(recvCh') = 0 /\ received' = received /\ out' = out
    BY <1>5, <2>1 DEF ReceiveKanban
  <2>3. before'[t] \in {before[t], before[t] + 1}
    BY <1>3, <1>5 DEF ReceiveKanban
  <2> QED BY <1>2, <1>3, <2>2, <2>3
<1>6. CASE DeviceReceive
  <2>1. PICK u \in Unit : recvCh' = <<u>>
    BY <1>6 DEF DeviceReceive
  <2>2. Len(recvCh) = 0 /\ Len(recvCh') = 1 /\ received' = received + 1 /\ UNCHANGED <<before, out>>
    BY <1>6, <2>1 DEF DeviceReceive
  <2> QED BY <1>2, <1>3, <2>2
<1>7. ASSUME NEW h \in Watcher, ForwardLocal(h) \/ ForwardToDevice(h)
      PROVE  before'[t] + out'[t] + Len(recvCh') <= received' + Cardinality(Forwards(t)')
  <2>1. /\ UNCHANGED <<recvCh, received>>
        /\ \/ before' = [before EXCEPT ![Head(gtodo[h]).to] = @ + 1] /\ out' = out
           \/ out' = [out EXCEPT ![Head(gtodo[h]).to] = @ + 1] /\ before' = before
    BY <1>7 DEF ForwardLocal, ForwardToDevice
  <2>2. CASE t = Head(gtodo[h]).to
    <3>1. Cardinality(Forwards(t)) + 1 <= Cardinality(Forwards(t)')
      BY <1>1, <1>7, <2>2, ForwardIsNew
    <3>2. before'[t] + out'[t] = before[t] + out[t] + 1
      BY <1>3, <2>1, <2>2
    <3>3. before[t] \in Nat /\ out[t] \in Nat
      BY <1>3
    <3> QED BY <1>2, <1>3, <2>1, <3>1, <3>2, <3>3
  <2>3. CASE t # Head(gtodo[h]).to
    BY <1>2, <1>3, <2>1, <2>3
  <2> QED BY <2>2, <2>3
<1>8. \/ UNCHANGED <<before, out, recvCh, received>>
      \/ ReceiveKanban \/ DeviceReceive \/ \E h \in Watcher : ForwardLocal(h) \/ ForwardToDevice(h)
  BY DEF Next, Controller, ReceiveSetting, PushSetting, StartStartup, StartupDone, StartForDevice,
     StartForWatcher, Receiver, AssignSetting, Environment, Apply, DeviceSend, Output, Terminate,
     WatchKanbanFails, WatchMicroservice, WatchKanbanCheck, WatchKanbanRead, WatchReturns,
     TakeKanban, ChooseDevice, vars
<1> QED BY <1>4, <1>5, <1>6, <1>7, <1>8

\* Where no service is multiple and every list names a unit once, a kanban is
\* forwarded at most once per deployment, be it written here or sent to another
\* device, and whatever is redeployed (so that the list and the routes of its
\* entries come from different settings), fails, ends or comes from other
\* devices meanwhile.
THEOREM ForwardedAtMostOnce == Spec => []ForwardedOncePerDeploy
<1> DEFINE Simple == (\A s \in Setting : Multiple[s] = {}) /\ NamedOnce
           Inv == Routing /\ NotYet /\ Counted
<1>1. Init /\ Simple => Inv
  <2> SUFFICES ASSUME Init PROVE Inv
    OBVIOUS
  <2> USE DEF Init
  <2>1. Routing /\ NotYet
    BY DEF Routing, Route, NotYet, Working
  <2>2. Counted
    <3>1. IInv
      BY InitIInv
    <3>2. \A t \in Unit : Cardinality(Forwards(t)) \in Nat
      BY <3>1, OutputsFinite
    <3> QED BY <3>2 DEF Counted
  <2> QED BY <2>1, <2>2
<1>2. Simple /\ IInv /\ IInv' /\ Inv /\ [Next]_vars => Inv'
  <2> SUFFICES ASSUME Simple, IInv, IInv', Inv, [Next]_vars PROVE Inv'
    OBVIOUS
  <2>1. Routing'
    BY RouteStep DEF Routing
  <2> QED BY <2>1, NotYetStep, CountedStep
<1>3. Simple /\ IInv /\ Inv => ForwardedOncePerDeploy
  <2> SUFFICES ASSUME IInv, Inv, NEW t \in Unit
               PROVE  before[t] + out[t] <= received + gen * Cardinality(Outputs(t))
    BY DEF ForwardedOncePerDeploy
  <2>1. Cardinality(Forwards(t)) <= Cardinality((1..gen) \X Outputs(t))
    <3>1. Forwards(t) \subseteq (1..gen) \X Outputs(t)
      BY DEF Forwards
    <3> QED BY <3>1, OutputsFinite, FS_Subset
  <2>2. /\ before[t] + out[t] + Len(recvCh) <= received + Cardinality(Forwards(t))
        /\ before[t] \in Nat /\ out[t] \in Nat /\ received \in Nat
    BY BoundAssumption DEF Counted, IInv, DataOK
  <2>3. Len(recvCh) \in Nat
    <3>1. recvCh = <<>> \/ \E u \in Unit : recvCh = <<u>>
      BY DEF IInv, DataOK
    <3> QED BY <3>1
  <2>4. gen * Cardinality(Outputs(t)) \in Nat
    <3>1. gen \in Nat /\ Cardinality(Outputs(t)) \in Nat
      BY OutputsFinite, FS_CardinalityType DEF IInv, DataOK
    <3> QED BY <3>1
  <2>5. Cardinality((1..gen) \X Outputs(t)) = gen * Cardinality(Outputs(t))
        /\ Cardinality(Forwards(t)) \in Nat
    BY OutputsFinite
  <2> DEFINE most == gen * Cardinality(Outputs(t))
  <2> HIDE DEF most
  <2>6. most \in Nat /\ Cardinality(Forwards(t)) <= most
    BY <2>1, <2>4, <2>5 DEF most
  <2>7. before[t] + out[t] <= received + most
    BY <2>2, <2>3, <2>5, <2>6
  <2> QED BY <2>7 DEF most
<1>4. ~Simple => ForwardedOncePerDeploy
  BY DEF ForwardedOncePerDeploy
<1>5. (Simple => Simple') /\ (~Simple => ~Simple')
  BY DEF NamedOnce
<1> HIDE DEF Simple, Inv
<1> QED BY <1>1, <1>2, <1>3, <1>4, <1>5, Invariance, PTL DEF Spec
=============================================================================

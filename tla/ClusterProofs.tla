----------------------------- MODULE ClusterProofs -----------------------------
(***************************************************************************)
(* The safety properties of Cluster, for any workers, services and         *)
(* settings and any number of joins.                                       *)
(***************************************************************************)
EXTENDS Cluster, TLAPS

-----------------------------------------------------------------------------
(* The inductive invariant *)

\* TypeOK in parts, with what it leaves open: which variables are functions,
\* and that there is a setting where one is handed out or deployed.
MasterOK ==
  /\ sent \in 0..MaxApply
  /\ ltodo \subseteq Worker /\ (ltodo # {} => sent # 0)
  /\ clientStream \in MapOf(Worker, Stream)
  /\ servicesStatus \in MapOf(Worker, Status)
  /\ hpc \in [Stream -> {"none", "register", "recv", "send", "done"}]
  /\ takenAt \in [Worker -> 0..MaxApply]
MonitorOK ==
  /\ mpc \in {"recv", "copy", "hset"}
  /\ mtodo \subseteq DOMAIN servicesStatus
  /\ nodeMap \in MapOf(Worker, Status) /\ redis \in MapOf(Worker, Status)
  /\ hsetOK \in BOOLEAN
WireOK ==
  /\ toMaster \in [Stream -> Seq(Status)]
  /\ toWorker \in [Stream -> Seq(1..MaxApply)]
  /\ \A st \in Stream : Len(toMaster[st]) <= MaxWire /\ Len(toWorker[st]) <= MaxWire
  /\ broken \in [Stream -> BOOLEAN]
ProcessOK ==
  /\ joined \in [Worker -> Nat] /\ (\A w \in Worker : joined[w] <= MaxJoin[w])
  /\ running \subseteq Worker /\ (\A w \in running : joined[w] # 0)
  /\ workerCh \in [Worker -> {<<>>} \cup {<<n>> : n \in 1..MaxApply}]
  /\ deployed \in [Worker -> 0..MaxApply]
ControllerOK ==
  /\ cpc \in [Worker -> {"select", "stop", "set", "start"}]
  /\ \A w \in Worker : cpc[w] # "select" => deployed[w] # 0
  /\ ctodo \in [Worker -> SUBSET Service]
  /\ cwait \in [Worker -> BOOLEAN] /\ trigger \in [Worker -> BOOLEAN]
  /\ msList \in [Worker -> SUBSET Service]
  /\ status \in [Worker -> Status]
Types == MasterOK /\ MonitorOK /\ WireOK /\ ProcessOK /\ ControllerOK

\* Only streams that a worker has opened have a handler.
Streams ==
  /\ \A w \in DOMAIN clientStream : clientStream[w][1] = w /\ clientStream[w][2] <= joined[w]
  /\ \A w \in DOMAIN servicesStatus : joined[w] # 0
  /\ \A st \in Stream : hpc[st] = "none" <=> st[2] > joined[st[1]]
  /\ \A st \in Stream : hpc[st] = "done" => broken[st]

\* The last setting on its way to the worker, or that it deploys.
LastOf(s) == s[Len(s)]
Latest(w) ==
  IF toWorker[Current(w)] # <<>> THEN LastOf(toWorker[Current(w)])
  ELSE IF workerCh[w] # <<>> THEN Head(workerCh[w])
  ELSE deployed[w]

\* The stream of the worker is up, and the one in ClientStream.
Listens(w) ==
  /\ w \in running /\ ~broken[Current(w)]
  /\ w \in DOMAIN clientStream /\ clientStream[w] = Current(w)

DeliveredTo(w) == Listens(w) /\ takenAt[w] < sent /\ w \notin ltodo => Latest(w) = sent

\* A worker that has joined once and whose stream is up.
First(w) == w \in running /\ joined[w] = 1 /\ ~broken[<<w, 1>>]

\* Its last report says what its status is, unless the next one is due.
LastReport(w) ==
  IF toMaster[<<w, 1>>] # <<>> THEN LastOf(toMaster[<<w, 1>>]) ELSE servicesStatus[w]
ReportedBy(w) ==
  /\ w \notin running => status[w] = NoStatus
  /\ First(w) => /\ toMaster[<<w, 1>>] = <<>> => w \in DOMAIN servicesStatus
                 /\ ~cwait[w] /\ ~trigger[w] => LastReport(w) = status[w]

\* What the master has of it goes on to redis, unless the handler has yet to
\* hand it over.
RecordedOf(w) ==
  First(w) /\ w \in DOMAIN servicesStatus /\ hpc[<<w, 1>>] # "send" =>
    \/ mpc = "copy" /\ w \in mtodo
    \/ mpc # "recv" /\ w \in DOMAIN nodeMap /\ nodeMap[w] = servicesStatus[w]
    \/ mpc = "recv" /\ (hsetOK => w \in DOMAIN redis /\ redis[w] = servicesStatus[w])

Delivered == \A w \in Worker : DeliveredTo(w)
Reported == \A w \in Worker : ReportedBy(w)
Recorded == \A w \in Worker : RecordedOf(w)

IInv == Types /\ Streams /\ Delivered /\ Reported /\ Recorded

-----------------------------------------------------------------------------
(* Maps, streams and sequences *)

(* A map with one more entry. *)
LEMMA PutFacts ==
  ASSUME NEW S, NEW T, NEW m \in MapOf(S, T), NEW k \in S, NEW v \in T
  PROVE  /\ Put(m, k, v) \in MapOf(S, T)
         /\ DOMAIN Put(m, k, v) = DOMAIN m \cup {k}
         /\ Put(m, k, v)[k] = v
         /\ \A x \in DOMAIN m : x # k => Put(m, k, v)[x] = m[x]
<1>1. PICK D \in SUBSET S : m \in [D -> T] BY DEF MapOf
<1>2. Put(m, k, v) \in [D \cup {k} -> T] BY <1>1 DEF Put
<1>3. D \cup {k} \in SUBSET S BY <1>1
<1>4. Put(m, k, v) \in MapOf(S, T) BY <1>2, <1>3 DEF MapOf
<1> QED BY <1>1, <1>4 DEF Put

(* The keys and values of a map, and the map without any. *)
LEMMA MapFacts ==
  ASSUME NEW S, NEW T
  PROVE  /\ <<>> \in MapOf(S, T) /\ DOMAIN <<>> = {}
         /\ \A m \in MapOf(S, T) : DOMAIN m \subseteq S /\ \A k \in DOMAIN m : m[k] \in T
<1>1. <<>> \in [{} -> T] /\ DOMAIN <<>> = {} OBVIOUS
<1>2. <<>> \in MapOf(S, T) BY <1>1 DEF MapOf
<1>3. ASSUME NEW m \in MapOf(S, T)
      PROVE  DOMAIN m \subseteq S /\ \A k \in DOMAIN m : m[k] \in T
  <2>1. PICK D \in SUBSET S : m \in [D -> T] BY DEF MapOf
  <2> QED BY <2>1
<1> QED BY <1>1, <1>2, <1>3

(* A stream is named by its worker and the number of the join. *)
LEMMA StreamFacts ==
  /\ \A w \in Worker : \A i \in 1..MaxJoin[w] : <<w, i>> \in Stream
  /\ \A st \in Stream : st[1] \in Worker /\ st[2] \in 1..MaxJoin[st[1]] /\ st = <<st[1], st[2]>>
<1>1. ASSUME NEW w \in Worker, NEW i \in 1..MaxJoin[w] PROVE <<w, i>> \in Stream
  <2>1. <<w, i>> \in {w} \X (1..MaxJoin[w]) OBVIOUS
  <2> QED BY <2>1 DEF Stream
<1>2. ASSUME NEW st \in Stream
      PROVE  st[1] \in Worker /\ st[2] \in 1..MaxJoin[st[1]] /\ st = <<st[1], st[2]>>
  <2>1. PICK w \in Worker : st \in {w} \X (1..MaxJoin[w]) BY DEF Stream
  <2> QED BY <2>1
<1> QED BY <1>1, <1>2

(* Sequences of messages. *)
LEMMA SeqFacts ==
  ASSUME NEW S
  PROVE  /\ <<>> \in Seq(S) /\ Len(<<>>) = 0
         /\ \A s \in Seq(S) : Len(s) \in Nat /\ (s = <<>> <=> Len(s) = 0)
         /\ \A e \in S : <<e>> \in Seq(S) /\ Len(<<e>>) = 1 /\ Head(<<e>>) = e
                         /\ LastOf(<<e>>) = e /\ <<e>> # <<>>
         /\ \A s \in Seq(S), e \in S : /\ Append(s, e) \in Seq(S) /\ Append(s, e) # <<>>
                                       /\ Len(Append(s, e)) = Len(s) + 1
                                       /\ LastOf(Append(s, e)) = e
         /\ \A s \in Seq(S) : s # <<>> =>
              /\ Head(s) \in S /\ Tail(s) \in Seq(S) /\ Len(Tail(s)) = Len(s) - 1
              /\ IF Tail(s) = <<>> THEN Head(s) = LastOf(s) ELSE LastOf(Tail(s)) = LastOf(s)
<1>1. ASSUME NEW e \in S
      PROVE  <<e>> \in Seq(S) /\ Len(<<e>>) = 1 /\ Head(<<e>>) = e /\ LastOf(<<e>>) = e /\ <<e>> # <<>>
  BY DEF LastOf
<1>2. ASSUME NEW s \in Seq(S), NEW e \in S
      PROVE  /\ Append(s, e) \in Seq(S) /\ Append(s, e) # <<>>
             /\ Len(Append(s, e)) = Len(s) + 1 /\ LastOf(Append(s, e)) = e
  BY DEF LastOf
<1>4. \A s \in Seq(S) : Len(s) \in Nat /\ (s = <<>> <=> Len(s) = 0) OBVIOUS
<1>3. ASSUME NEW s \in Seq(S), s # <<>>
      PROVE  /\ Head(s) \in S /\ Tail(s) \in Seq(S) /\ Len(Tail(s)) = Len(s) - 1
             /\ IF Tail(s) = <<>> THEN Head(s) = LastOf(s) ELSE LastOf(Tail(s)) = LastOf(s)
  <2> DEFINE t == Tail(s)
  <2>1. /\ Head(s) \in S /\ t \in Seq(S) /\ Len(t) = Len(s) - 1
        /\ Len(s) \in Nat \ {0} /\ Head(s) = s[1]
        /\ \A j \in 1..(Len(s) - 1) : t[j] = s[j + 1]
    <3>1. Head(s) \in S /\ Tail(s) \in Seq(S) BY <1>3
    <3>2. Len(s) \in Nat \ {0} /\ DOMAIN s = 1..Len(s) /\ Head(s) = s[1] BY <1>3
    <3>3. Len(Tail(s)) = Len(s) - 1 BY <1>3, <3>2
    <3>4. \A j \in 1..(Len(s) - 1) : Tail(s)[j] = s[j + 1] BY <1>3, <3>2
    <3> QED BY <3>1, <3>2, <3>3, <3>4
  <2> HIDE DEF t
  <2>2. CASE t = <<>>
    <3>1. Len(t) = 0 BY <1>4, <2>1, <2>2
    <3>2. Len(s) = 1 BY <2>1, <3>1
    <3> QED BY <2>1, <2>2, <3>2 DEF LastOf, t
  <2>3. CASE t # <<>>
    <3>1. Len(t) # 0 BY <1>4, <2>1, <2>3
    <3>2. LastOf(t) = LastOf(s) BY <2>1, <3>1 DEF LastOf
    <3> QED BY <2>1, <2>3, <3>2 DEF t
  <2> QED BY <2>2, <2>3
<1> QED BY <1>4, <1>1, <1>2, <1>3

USE DEF masterVars, monitorVars, streamVars, workerVars, history

(* Every step is one of these. *)
LEMMA StepCases ==
  ASSUME [Next]_vars
  PROVE  \/ TakeSetting \/ HSet \/ UNCHANGED vars
         \/ \E st \in Stream : Register(st) \/ ReceiveStatus(st) \/ StreamClosed(st) \/ HandOver(st)
         \/ \E w \in Worker :
              \/ SendToWorker(w) \/ CopyStatus(w) \/ Join(w) \/ Break(w) \/ Fatal(w)
              \/ ReceiveApply(w) \/ SendStatus(w) \/ Deploy(w) \/ Stop(w) \/ NextLoop(w)
              \/ SetMicroservice(w) \/ Start(w) \/ SendTrigger(w)
BY DEF Next, Sender, HandlerStep, Monitor, Controller, Client

-----------------------------------------------------------------------------
(* Types *)

(* The master's variables keep their types. *)
LEMMA MasterStep ==
  ASSUME BoundAssumption, Types, [Next]_vars
  PROVE  MasterOK'
<1>s. \A st \in Stream : st[1] \in Worker BY StreamFacts
<1>n. NoStatus \in Status BY DEF NoStatus, Status
<1> USE DEF MasterOK
<1>1. ASSUME TakeSetting PROVE MasterOK'
  BY <1>1 DEF TakeSetting, BoundAssumption, Types
<1>2. ASSUME NEW w \in Worker, SendToWorker(w) PROVE MasterOK'
  BY <1>2 DEF SendToWorker, Types
<1>3. ASSUME NEW st \in Stream, Register(st) PROVE MasterOK'
  <2>1. Put(clientStream, st[1], st) \in MapOf(Worker, Stream) BY <1>s, PutFacts DEF Types
  <2> QED BY <1>3, <1>s, <2>1 DEF Register, Types
<1>4. ASSUME NEW st \in Stream, ReceiveStatus(st) PROVE MasterOK'
  <2>1. Head(toMaster[st]) \in Status BY <1>4, SeqFacts DEF ReceiveStatus, Types, WireOK
  <2>2. Put(servicesStatus, st[1], Head(toMaster[st])) \in MapOf(Worker, Status) BY <1>s, <2>1, PutFacts DEF Types
  <2> QED BY <1>4, <2>2 DEF ReceiveStatus, Types
<1>5. ASSUME NEW st \in Stream, StreamClosed(st) PROVE MasterOK'
  <2>2. Put(servicesStatus, st[1], NoStatus) \in MapOf(Worker, Status) BY <1>s, <1>n, PutFacts DEF Types
  <2> QED BY <1>5, <2>2 DEF StreamClosed, Types
<1>6. ASSUME NEW st \in Stream, HandOver(st) PROVE MasterOK'
  BY <1>6 DEF HandOver, Types
<1>7. ASSUME NEW w \in Worker, Join(w) PROVE MasterOK'
  BY <1>7 DEF Join, Types
<1>8. ASSUME UNCHANGED <<sent, ltodo, clientStream, servicesStatus, hpc, takenAt>> PROVE
       MasterOK'
  BY <1>8 DEF Types
<1> QED BY StepCases, <1>1, <1>2, <1>3, <1>4, <1>5, <1>6, <1>7, <1>8 DEF vars, CopyStatus,
           Break, Fatal, ReceiveApply, SendStatus, Deploy, Stop, NextLoop, SetMicroservice,
           Start, SendTrigger, HSet

(* The monitor's variables keep their types. *)
LEMMA MonitorStep ==
  ASSUME Types, [Next]_vars
  PROVE  MonitorOK'
<1>s. \A st \in Stream : st[1] \in Worker BY StreamFacts
<1>m. /\ DOMAIN servicesStatus \subseteq Worker
      /\ \A w \in DOMAIN servicesStatus : servicesStatus[w] \in Status
      /\ <<>> \in MapOf(Worker, Status)
  BY MapFacts DEF Types, MasterOK
<1>d. \A w, v : DOMAIN Put(servicesStatus, w, v) = DOMAIN servicesStatus \cup {w} BY DEF Put
<1> USE DEF MonitorOK, Types
<1>1. ASSUME NEW st \in Stream, ReceiveStatus(st) PROVE MonitorOK'
  BY <1>1, <1>d DEF ReceiveStatus
<1>2. ASSUME NEW st \in Stream, StreamClosed(st) PROVE MonitorOK'
  BY <1>2, <1>d DEF StreamClosed
<1>3. ASSUME NEW st \in Stream, HandOver(st) PROVE MonitorOK'
  BY <1>3 DEF HandOver
<1>4. ASSUME NEW w \in Worker, CopyStatus(w) PROVE MonitorOK'
  <2>1. Put(nodeMap, w, servicesStatus[w]) \in MapOf(Worker, Status)
    BY <1>4, <1>m, PutFacts DEF CopyStatus
  <2> QED BY <1>4, <2>1 DEF CopyStatus
<1>5. ASSUME HSet PROVE MonitorOK'
  <2>1. PICK D \in SUBSET Worker : nodeMap \in [D -> Status] BY DEF MapOf
  <2>2. PICK E \in SUBSET Worker : redis \in [E -> Status] BY DEF MapOf
  <2>3. [w \in DOMAIN nodeMap \cup DOMAIN redis |->
           IF w \in DOMAIN nodeMap THEN nodeMap[w] ELSE redis[w]] \in [D \cup E -> Status]
    BY <2>1, <2>2
  <2>4. redis' \in MapOf(Worker, Status) BY <1>5, <2>3 DEF HSet, MapOf
  <2> QED BY <1>5, <1>m, <2>4 DEF HSet
<1>6. ASSUME UNCHANGED <<servicesStatus, mpc, mtodo, nodeMap, redis, hsetOK>> PROVE MonitorOK'
  BY <1>6
<1> QED BY StepCases, <1>1, <1>2, <1>3, <1>4, <1>5, <1>6 DEF vars, SendToWorker, Join, Break,
           Fatal, ReceiveApply, SendStatus, Deploy, Stop, NextLoop, SetMicroservice, Start,
           SendTrigger, Register, TakeSetting

(* The streams keep their types. *)
LEMMA WireStep ==
  ASSUME BoundAssumption, Types, [Next]_vars
  PROVE  WireOK'
<1>s. /\ \A st \in Stream : st[1] \in Worker
      /\ \A w \in Worker : \A i \in 1..MaxJoin[w] : <<w, i>> \in Stream
  BY StreamFacts
<1>c. \A w \in running : Current(w) \in Stream
  BY <1>s DEF Current, Types, ProcessOK, BoundAssumption
<1>n. NoStatus \in Status BY DEF NoStatus, Status
<1>b. MaxWire \in Nat \ {0} BY DEF BoundAssumption
<1>p. \A w \in Worker : status[w] \in Status BY DEF Types, ControllerOK
<1>q. sent # 0 => sent \in 1..MaxApply BY DEF Types, MasterOK
<1>x. \A st \in Stream : Len(toMaster[st]) \in Nat /\ Len(toWorker[st]) \in Nat
  BY SeqFacts DEF Types, WireOK
<1>y. /\ <<>> \in Seq(Status) /\ <<>> \in Seq(1..MaxApply) /\ Len(<<>>) = 0
      /\ <<NoStatus>> \in Seq(Status) /\ Len(<<NoStatus>>) = 1
  BY <1>n, SeqFacts
<1>t. \A st \in Stream :
        /\ toMaster[st] # <<>> => /\ Tail(toMaster[st]) \in Seq(Status)
                                  /\ Len(Tail(toMaster[st])) = Len(toMaster[st]) - 1
        /\ toWorker[st] # <<>> => /\ Tail(toWorker[st]) \in Seq(1..MaxApply)
                                  /\ Len(Tail(toWorker[st])) = Len(toWorker[st]) - 1
  BY SeqFacts DEF Types, WireOK
<1>a. /\ \A st \in Stream, v \in Status :
           Append(toMaster[st], v) \in Seq(Status) /\ Len(Append(toMaster[st], v)) = Len(toMaster[st]) + 1
      /\ \A st \in Stream, v \in 1..MaxApply :
           Append(toWorker[st], v) \in Seq(1..MaxApply)
             /\ Len(Append(toWorker[st], v)) = Len(toWorker[st]) + 1
  BY SeqFacts DEF Types, WireOK
<1> USE DEF WireOK, Types
<1>1. ASSUME NEW w \in Worker, SendToWorker(w) PROVE WireOK'
  <2>1. CASE ~Reachable(w) BY <1>1, <2>1 DEF SendToWorker
  <2>2. CASE Reachable(w)
    <3> DEFINE st == clientStream[w]
    <3>1. st \in Stream BY <2>2, MapFacts DEF Reachable, MasterOK
    <3>2. sent \in 1..MaxApply BY <1>1, <1>q DEF SendToWorker, MasterOK
    <3>3. /\ Len(toWorker[st]) < MaxWire
          /\ toWorker' = [toWorker EXCEPT ![st] = Append(toWorker[st], sent)]
          /\ UNCHANGED <<toMaster, broken>>
      BY <1>1, <2>2 DEF SendToWorker
    <3> HIDE DEF st
    <3> QED BY <1>a, <1>x, <1>b, <3>1, <3>2, <3>3
  <2> QED BY <2>1, <2>2
<1>2. ASSUME NEW st \in Stream, ReceiveStatus(st) PROVE WireOK'
  BY <1>2, <1>t, <1>x, <1>b DEF ReceiveStatus
<1>3. ASSUME NEW st \in Stream, StreamClosed(st) PROVE WireOK'
  BY <1>3, <1>y, <1>b DEF StreamClosed
<1>4. ASSUME NEW w \in Worker, Join(w) PROVE WireOK'
  <2>1. /\ toMaster' = [toMaster EXCEPT ![<<w, joined[w] + 1>>] = <<NoStatus>>]
        /\ UNCHANGED <<toWorker, broken>>
    BY <1>4 DEF Join
  <2>2. <<w, joined[w] + 1>> \in Stream
    BY <1>4, <1>s DEF Join, ProcessOK, BoundAssumption
  <2> QED BY <2>1, <2>2, <1>y, <1>b
<1>5. ASSUME NEW w \in Worker, Break(w) PROVE WireOK'
  <2> DEFINE st == Current(w)
  <2>1. broken' = [broken EXCEPT ![st] = TRUE] /\ toWorker' = [toWorker EXCEPT ![st] = <<>>]
        /\ UNCHANGED toMaster /\ st \in Stream
    BY <1>5, <1>c DEF Break
  <2> HIDE DEF st
  <2> QED BY <2>1, <1>y, <1>b
<1>6. ASSUME NEW w \in Worker, ReceiveApply(w) PROVE WireOK'
  <2> DEFINE st == Current(w)
  <2>1. /\ toWorker[st] # <<>> /\ toWorker' = [toWorker EXCEPT ![st] = Tail(toWorker[st])]
        /\ UNCHANGED <<toMaster, broken>> /\ st \in Stream
    BY <1>6, <1>c DEF ReceiveApply
  <2> HIDE DEF st
  <2> QED BY <2>1, <1>t, <1>x, <1>b
<1>7. ASSUME NEW w \in Worker, SendStatus(w) PROVE WireOK'
  <2> DEFINE st == Current(w)
  <2>1. /\ Len(toMaster[st]) < MaxWire
        /\ toMaster' = [toMaster EXCEPT ![st] = Append(toMaster[st], status[w])]
        /\ UNCHANGED <<toWorker, broken>> /\ st \in Stream
    BY <1>7, <1>c DEF SendStatus
  <2> HIDE DEF st
  <2> QED BY <2>1, <1>a, <1>x, <1>b, <1>p
<1>8. ASSUME UNCHANGED <<toMaster, toWorker, broken>> PROVE WireOK'
  BY <1>8
<1> QED BY StepCases, <1>1, <1>2, <1>3, <1>4, <1>5, <1>6, <1>7, <1>8 DEF vars, CopyStatus,
           Fatal, Deploy, Stop, NextLoop, SetMicroservice, Start, SendTrigger, Register,
           HandOver, TakeSetting, HSet

(* The workers' processes keep their types. *)
LEMMA ProcessStep ==
  ASSUME BoundAssumption, Types, [Next]_vars
  PROVE  ProcessOK'
<1> USE DEF ProcessOK, Types, BoundAssumption
<1>1. ASSUME NEW w \in Worker, Join(w) PROVE ProcessOK'
  BY <1>1 DEF Join
<1>2. ASSUME NEW w \in Worker, Fatal(w) PROVE ProcessOK'
  BY <1>2 DEF Fatal
<1>3. ASSUME NEW w \in Worker, ReceiveApply(w) PROVE ProcessOK'
  <2>1. Current(w) \in Stream
    BY <1>3, StreamFacts DEF ReceiveApply, Current
  <2>2. Head(toWorker[Current(w)]) \in 1..MaxApply
    BY <1>3, <2>1, SeqFacts DEF ReceiveApply, WireOK
  <2> QED BY <1>3, <2>2 DEF ReceiveApply
<1>4. ASSUME NEW w \in Worker, Deploy(w) PROVE ProcessOK'
  BY <1>4 DEF Deploy
<1>5. ASSUME UNCHANGED <<joined, running, workerCh, deployed>> PROVE ProcessOK'
  BY <1>5
<1> QED BY StepCases, <1>1, <1>2, <1>3, <1>4, <1>5 DEF vars, SendToWorker, CopyStatus, Break,
           SendStatus, Stop, NextLoop, SetMicroservice, Start, SendTrigger, Register,
           ReceiveStatus, StreamClosed, HandOver, TakeSetting, HSet

(* The workers' controllers keep their types. *)
LEMMA ControllerStep ==
  ASSUME BoundAssumption, Types, [Next]_vars
  PROVE  ControllerOK'
<1>n. NoStatus \in Status BY DEF NoStatus, Status
<1>v. \A w \in Worker, s \in Service, v \in {"active", "inactive"} :
        [status EXCEPT ![w][s] = v] \in [Worker -> Status]
  BY DEF Types, ControllerOK, Status
<1> USE DEF ControllerOK, Types
<1>1. ASSUME NEW w \in Worker, Fatal(w) PROVE ControllerOK'
  BY <1>1, <1>n DEF Fatal, ProcessOK
<1>2. ASSUME NEW w \in Worker, SendStatus(w) PROVE ControllerOK'
  BY <1>2 DEF SendStatus
<1>3. ASSUME NEW w \in Worker, Deploy(w) PROVE ControllerOK'
  <2>1. Head(workerCh[w]) # 0 BY <1>3 DEF Deploy, ProcessOK
  <2> QED BY <1>3, <2>1 DEF Deploy, ProcessOK
<1>4. ASSUME NEW w \in Worker, Stop(w) PROVE ControllerOK'
  <2>1. PICK s \in ctodo[w] : /\ status' = [status EXCEPT ![w][s] = "inactive"]
                               /\ cwait' = [cwait EXCEPT ![w] = TRUE]
                               /\ ctodo' = [ctodo EXCEPT ![w] = ctodo[w] \ {s}]
                               /\ UNCHANGED msList
                               /\ UNCHANGED <<cpc, deployed, trigger>>
    BY <1>4 DEF Stop, SetStatus
  <2>2. s \in Service OBVIOUS
  <2>3. status' \in [Worker -> Status] BY <1>v, <2>1, <2>2
  <2> QED BY <2>1, <2>2, <2>3
<1>5. ASSUME NEW w \in Worker, NextLoop(w) PROVE ControllerOK'
  <2>1. Startup[deployed[w]] \in SUBSET Service
    BY <1>5 DEF NextLoop, ProcessOK, BoundAssumption
  <2> QED BY <1>5, <2>1 DEF NextLoop
<1>6. ASSUME NEW w \in Worker, SetMicroservice(w) PROVE ControllerOK'
  <2>1. PICK s \in ctodo[w] : /\ status' = [status EXCEPT ![w][s] = "inactive"]
                               /\ cwait' = [cwait EXCEPT ![w] = TRUE]
                               /\ ctodo' = [ctodo EXCEPT ![w] = ctodo[w] \ {s}]
                               /\ msList' = [msList EXCEPT ![w] = msList[w] \cup {s}]
                               /\ UNCHANGED <<cpc, deployed, trigger>>
    BY <1>6 DEF SetMicroservice, SetStatus
  <2>2. s \in Service OBVIOUS
  <2>3. status' \in [Worker -> Status] BY <1>v, <2>1, <2>2
  <2> QED BY <2>1, <2>2, <2>3
<1>7. ASSUME NEW w \in Worker, Start(w) PROVE ControllerOK'
  <2>1. PICK s \in ctodo[w] : /\ status' = [status EXCEPT ![w][s] = "active"]
                               /\ cwait' = [cwait EXCEPT ![w] = TRUE]
                               /\ ctodo' = [ctodo EXCEPT ![w] = ctodo[w] \ {s}]
                               /\ UNCHANGED msList
                               /\ UNCHANGED <<cpc, deployed, trigger>>
    BY <1>7 DEF Start, SetStatus
  <2>2. s \in Service OBVIOUS
  <2>3. status' \in [Worker -> Status] BY <1>v, <2>1, <2>2
  <2> QED BY <2>1, <2>2, <2>3
<1>8. ASSUME NEW w \in Worker, SendTrigger(w) PROVE ControllerOK'
  BY <1>8 DEF SendTrigger
<1>9. ASSUME UNCHANGED <<cpc, deployed, ctodo, cwait, trigger, msList, status>> PROVE
       ControllerOK'
  BY <1>9
<1> QED BY StepCases, <1>1, <1>2, <1>3, <1>4, <1>5, <1>6, <1>7, <1>8, <1>9 DEF vars,
           SendToWorker, CopyStatus, Join, Break, ReceiveApply, Register, ReceiveStatus,
           StreamClosed, HandOver, TakeSetting, HSet

-----------------------------------------------------------------------------
(* Streams and handlers *)

(* Only opened streams have handlers. *)
LEMMA StreamsStep ==
  ASSUME BoundAssumption, Types, Streams, [Next]_vars
  PROVE  Streams'
<1>s. \A st \in Stream : st[1] \in Worker /\ st[2] \in Nat \ {0} /\ st = <<st[1], st[2]>>
  BY StreamFacts, BoundAssumption DEF BoundAssumption
<1>h. hpc \in [Stream -> {"none", "register", "recv", "send", "done"}] BY DEF Types, MasterOK
<1>j. joined \in [Worker -> Nat] BY DEF Types, ProcessOK
<1>b. broken \in [Stream -> BOOLEAN] BY DEF Types, WireOK
<1>m. /\ DOMAIN servicesStatus \subseteq Worker /\ DOMAIN clientStream \subseteq Worker
      /\ \A w \in DOMAIN clientStream : clientStream[w] \in Stream
  BY MapFacts DEF Types, MasterOK
<1> USE DEF Streams
<1>1. ASSUME NEW st \in Stream, Register(st) PROVE Streams'
  <2>1. /\ hpc' = [hpc EXCEPT ![st] = "recv"] /\ clientStream' = Put(clientStream, st[1], st)
        /\ UNCHANGED <<servicesStatus, broken, joined>>
    BY <1>1 DEF Register
  <2>2. hpc[st] = "register" /\ st[2] <= joined[st[1]] BY <1>1, <1>s, <1>j DEF Register
  <2>3. \A u \in DOMAIN clientStream' :
          \/ clientStream'[u] = st /\ u = st[1]
          \/ u \in DOMAIN clientStream /\ clientStream'[u] = clientStream[u]
    BY <2>1 DEF Put
  <2>4. \A u \in DOMAIN clientStream' : clientStream'[u][1] = u /\ clientStream'[u][2] <= joined[u]
    BY <2>2, <2>3
  <2>5. \A r \in Stream : /\ hpc'[r] = "none" <=> hpc[r] = "none"
                          /\ hpc'[r] = "done" <=> hpc[r] = "done"
    BY <2>1, <2>2, <1>h
  <2> QED BY <2>1, <2>4, <2>5
<1>2. ASSUME NEW st \in Stream, ReceiveStatus(st) PROVE Streams'
  <2>1. /\ hpc' = [hpc EXCEPT ![st] = "send"] /\ DOMAIN servicesStatus' = DOMAIN servicesStatus \cup {st[1]}
        /\ UNCHANGED <<clientStream, broken, joined>>
    BY <1>2 DEF ReceiveStatus, Put
  <2>2. hpc[st] = "recv" /\ joined[st[1]] # 0 BY <1>2, <1>s, <1>j DEF ReceiveStatus
  <2>3. \A r \in Stream : /\ hpc'[r] = "none" <=> hpc[r] = "none"
                          /\ hpc'[r] = "done" <=> hpc[r] = "done"
    BY <2>1, <2>2, <1>h
  <2> QED BY <2>1, <2>2, <2>3
<1>3. ASSUME NEW st \in Stream, StreamClosed(st) PROVE Streams'
  <2>1. /\ hpc' = [hpc EXCEPT ![st] = "done"] /\ DOMAIN servicesStatus' = DOMAIN servicesStatus \cup {st[1]}
        /\ UNCHANGED <<clientStream, broken, joined>>
    BY <1>3 DEF StreamClosed, Put
  <2>2. hpc[st] = "recv" /\ broken[st] /\ joined[st[1]] # 0
    BY <1>3, <1>s, <1>j DEF StreamClosed
  <2>3. \A r \in Stream : /\ hpc'[r] = "none" <=> hpc[r] = "none"
                          /\ hpc'[r] = "done" <=> hpc[r] = "done" \/ r = st
    BY <2>1, <2>2, <1>h
  <2> QED BY <2>1, <2>2, <2>3
<1>4. ASSUME NEW st \in Stream, HandOver(st) PROVE Streams'
  BY <1>4, <1>s, <1>h DEF HandOver
<1>5. ASSUME NEW w \in Worker, Join(w) PROVE Streams'
  <2>1. /\ joined' = [joined EXCEPT ![w] = joined[w] + 1]
        /\ hpc' = [hpc EXCEPT ![<<w, joined[w] + 1>>] = "register"]
        /\ UNCHANGED <<clientStream, servicesStatus, broken>>
    BY <1>5 DEF Join
  <2>2. \A u \in Worker : joined'[u] = IF u = w THEN joined[w] + 1 ELSE joined[u]
    BY <2>1, <1>j
  <2>3. \A st \in Stream :
          hpc'[st] = IF st[1] = w /\ st[2] = joined[w] + 1 THEN "register" ELSE hpc[st]
    BY <2>1, <1>h, <1>s
  <2>4. \A u \in DOMAIN clientStream : clientStream[u][2] \in Nat BY <1>m, <1>s
  <2>5. \A u \in DOMAIN clientStream : clientStream'[u][1] = u /\ clientStream'[u][2] <= joined'[u]
    BY <2>1, <2>2, <2>4, <1>m, <1>j
  <2>6. \A u \in DOMAIN servicesStatus : joined'[u] # 0 BY <2>2, <1>m, <1>j
  <2>7. \A st \in Stream : hpc'[st] = "none" <=> st[2] > joined'[st[1]]
    BY <2>2, <2>3, <1>s, <1>j
  <2>8. \A st \in Stream : hpc'[st] = "done" => broken'[st] BY <2>1, <2>3
  <2> QED BY <2>1, <2>5, <2>6, <2>7, <2>8
<1>6. ASSUME NEW w \in Worker, Break(w) PROVE Streams'
  BY <1>6, <1>b DEF Break
<1>7. ASSUME UNCHANGED <<clientStream, servicesStatus, hpc, broken, joined>> PROVE Streams'
  BY <1>7
<1> QED BY StepCases, <1>1, <1>2, <1>3, <1>4, <1>5, <1>6, <1>7 DEF vars, SendToWorker,
           CopyStatus, Fatal, ReceiveApply, SendStatus, Deploy, Stop, NextLoop,
           SetMicroservice, Start, SendTrigger, TakeSetting, HSet

-----------------------------------------------------------------------------
(* From the master to the workers *)

(* The last setting stays on its way to whoever listens. *)
LEMMA DeliveredStep ==
  ASSUME BoundAssumption, Types, Streams, Delivered, [Next]_vars
  PROVE  Delivered'
<1>s. /\ \A st \in Stream : st[1] \in Worker /\ st[2] \in Nat \ {0} /\ st = <<st[1], st[2]>>
      /\ \A w \in Worker : \A i \in 1..MaxJoin[w] : <<w, i>> \in Stream
  BY StreamFacts, BoundAssumption DEF BoundAssumption
<1>c. \A w \in running : Current(w) \in Stream /\ Current(w)[1] = w /\ Current(w)[2] = joined[w]
  BY <1>s DEF Current, Types, ProcessOK, BoundAssumption
<1>m. \A w \in DOMAIN clientStream : clientStream[w] \in Stream /\ clientStream[w][1] = w
  BY MapFacts DEF Types, MasterOK, Streams
<1>t. /\ toWorker \in [Stream -> Seq(1..MaxApply)] /\ broken \in [Stream -> BOOLEAN]
      /\ joined \in [Worker -> Nat] /\ running \subseteq Worker
      /\ workerCh \in [Worker -> {<<>>} \cup {<<n>> : n \in 1..MaxApply}]
      /\ deployed \in [Worker -> 0..MaxApply] /\ takenAt \in [Worker -> 0..MaxApply]
      /\ ltodo \subseteq Worker /\ sent \in Nat
  BY DEF Types, MasterOK, WireOK, ProcessOK, BoundAssumption
<1> USE <1>t
<1>1. ASSUME TakeSetting PROVE Delivered'
  BY <1>1 DEF TakeSetting, Delivered, DeliveredTo
<1>2. ASSUME NEW w \in Worker, SendToWorker(w) PROVE Delivered'
  <2> SUFFICES ASSUME NEW v \in Worker, Listens(v), takenAt[v] < sent, v \notin ltodo \ {w}
               PROVE  Latest(v)' = sent
    BY <1>2 DEF SendToWorker, Delivered, DeliveredTo, Listens, Current
  <2>1. CASE v = w
    <3> DEFINE st == Current(w)
    <3>1. /\ toWorker' = [toWorker EXCEPT ![st] = Append(toWorker[st], sent)]
          /\ st \in Stream /\ sent \in 1..MaxApply
      BY <1>2, <1>c, <2>1 DEF SendToWorker, Reachable, Listens, Types, MasterOK
    <3>2. toWorker'[st] = Append(toWorker[st], sent) BY <3>1
    <3>3. toWorker'[st] # <<>> /\ LastOf(toWorker'[st]) = sent BY <3>1, <3>2, SeqFacts
    <3>4. Current(w)' = st BY <1>2 DEF SendToWorker, Current
    <3> HIDE DEF st
    <3> QED BY <2>1, <3>3, <3>4 DEF Latest
  <2>2. CASE v # w
    <3>1. Latest(v) = sent BY <2>2 DEF Delivered, DeliveredTo
    <3>2. toWorker'[Current(v)] = toWorker[Current(v)]
      <4>1. Current(v) \in Stream /\ Current(v)[1] = v BY <1>c DEF Listens
      <4>2. CASE Reachable(w)
        <5>1. clientStream[w][1] = w BY <1>m, <4>2 DEF Reachable
        <5>2. clientStream[w] # Current(v) BY <2>2, <4>1, <5>1
        <5>3. toWorker' = [toWorker EXCEPT ![clientStream[w]] = Append(toWorker[clientStream[w]], sent)]
          BY <1>2, <4>2 DEF SendToWorker
        <5> QED BY <4>1, <5>2, <5>3
      <4>3. CASE ~Reachable(w) BY <1>2, <4>3 DEF SendToWorker
      <4> QED BY <4>2, <4>3
    <3>3. Current(v)' = Current(v) /\ UNCHANGED <<workerCh, deployed>>
      BY <1>2 DEF SendToWorker, Current
    <3> QED BY <3>1, <3>2, <3>3 DEF Latest
  <2> QED BY <2>1, <2>2
<1>3. ASSUME NEW st \in Stream, Register(st) PROVE Delivered'
  <2> SUFFICES ASSUME NEW v \in Worker PROVE DeliveredTo(v)'
    BY DEF Delivered
  <2>1. CASE v = st[1]
    <3>1. takenAt'[v] = sent /\ sent' = sent BY <1>3, <2>1 DEF Register
    <3> QED BY <3>1 DEF DeliveredTo
  <2>2. CASE v # st[1]
    <3>1. /\ takenAt'[v] = takenAt[v]
          /\ v \in DOMAIN clientStream' => v \in DOMAIN clientStream /\ clientStream'[v] = clientStream[v]
          /\ UNCHANGED <<sent, ltodo, running, joined, broken, toWorker, workerCh, deployed>>
      BY <1>3, <2>2 DEF Register, Put
    <3> QED BY <3>1 DEF Delivered, DeliveredTo, Listens, Latest, Current
  <2> QED BY <2>1, <2>2
<1>4. ASSUME NEW w \in Worker, Join(w) PROVE Delivered'
  <2> SUFFICES ASSUME NEW v \in Worker PROVE DeliveredTo(v)'
    BY DEF Delivered
  <2>1. CASE v = w
    <3>1. /\ Current(v)' = <<w, joined[w] + 1>> /\ UNCHANGED clientStream
          /\ w \in DOMAIN clientStream => clientStream[w][2] <= joined[w]
      BY <1>4, <2>1 DEF Join, Current, Streams
    <3>2. w \in DOMAIN clientStream => clientStream[w] # <<w, joined[w] + 1>>
      <4>1. <<w, joined[w] + 1>>[2] = joined[w] + 1 OBVIOUS
      <4>2. joined[w] \in Nat BY <1>4
      <4> QED BY <3>1, <4>1, <4>2
    <3> QED BY <2>1, <3>1, <3>2 DEF DeliveredTo, Listens
  <2>2. CASE v # w
    <3>1. /\ joined'[v] = joined[v] /\ (v \in running' <=> v \in running)
          /\ UNCHANGED <<sent, ltodo, takenAt, clientStream, broken, toWorker, workerCh, deployed>>
      BY <1>4, <2>2 DEF Join
    <3> QED BY <3>1 DEF Delivered, DeliveredTo, Listens, Latest, Current
  <2> QED BY <2>1, <2>2
<1>5. ASSUME NEW w \in Worker, Break(w) PROVE Delivered'
  <2> SUFFICES ASSUME NEW v \in Worker, Listens(v)', takenAt[v] < sent, v \notin ltodo
               PROVE  Latest(v)' = sent
    BY <1>5 DEF Break, Delivered, DeliveredTo
  <2> DEFINE st == Current(w)
  <2>1. /\ broken' = [broken EXCEPT ![st] = TRUE] /\ st \in Stream
        /\ toWorker' = [toWorker EXCEPT ![st] = <<>>]
        /\ UNCHANGED <<sent, ltodo, clientStream, takenAt, running, joined, workerCh, deployed>>
    BY <1>5, <1>c DEF Break
  <2>2. Current(v)' = Current(v) /\ v \in running /\ Current(v) \in Stream
    BY <2>1, <1>c DEF Current, Listens
  <2> HIDE DEF st
  <2>3. Current(v) # st BY <2>1, <2>2 DEF Listens
  <2>4. broken'[Current(v)] = broken[Current(v)] /\ toWorker'[Current(v)] = toWorker[Current(v)]
    BY <2>1, <2>2, <2>3
  <2>5. Listens(v) BY <2>1, <2>2, <2>4 DEF Listens
  <2>6. Latest(v) = sent BY <2>5 DEF Delivered, DeliveredTo
  <2> QED BY <2>1, <2>2, <2>4, <2>6 DEF Latest
<1>6. ASSUME NEW w \in Worker, Fatal(w) PROVE Delivered'
  <2> SUFFICES ASSUME NEW v \in Worker PROVE DeliveredTo(v)'
    BY DEF Delivered
  <2>1. CASE v = w BY <1>6, <2>1 DEF Fatal, DeliveredTo, Listens
  <2>2. CASE v # w
    <3>1. /\ v \in running' <=> v \in running
          /\ workerCh'[v] = workerCh[v] /\ deployed'[v] = deployed[v]
          /\ UNCHANGED <<sent, ltodo, takenAt, clientStream, joined, broken, toWorker>>
      BY <1>6, <2>2 DEF Fatal
    <3> QED BY <3>1 DEF Delivered, DeliveredTo, Listens, Latest, Current
  <2> QED BY <2>1, <2>2
<1>7. ASSUME NEW w \in Worker, ReceiveApply(w) PROVE Delivered'
  <2> SUFFICES ASSUME NEW v \in Worker, Listens(v), takenAt[v] < sent, v \notin ltodo
               PROVE  Latest(v)' = sent
    BY <1>7 DEF ReceiveApply, Delivered, DeliveredTo, Listens, Current
  <2> DEFINE st == Current(w)
  <2>1. /\ toWorker' = [toWorker EXCEPT ![st] = Tail(toWorker[st])] /\ toWorker[st] # <<>>
        /\ workerCh' = [workerCh EXCEPT ![w] = <<Head(toWorker[st])>>]
        /\ st \in Stream /\ st[1] = w
        /\ UNCHANGED <<joined, deployed>>
    BY <1>7, <1>c DEF ReceiveApply
  <2>2. Latest(v) = sent /\ Current(v)' = Current(v) /\ Current(v) \in Stream /\ Current(v)[1] = v
    BY <2>1, <1>c DEF Delivered, DeliveredTo, Current, Listens
  <2>3. CASE v = w
    <3>1. /\ toWorker'[st] = Tail(toWorker[st]) /\ workerCh'[w] = <<Head(toWorker[st])>>
      BY <2>1
    <3>2. LastOf(toWorker[st]) = sent BY <2>1, <2>2, <2>3 DEF Latest
    <3>3. /\ IF Tail(toWorker[st]) = <<>> THEN Head(toWorker[st]) = LastOf(toWorker[st])
             ELSE LastOf(Tail(toWorker[st])) = LastOf(toWorker[st])
          /\ <<Head(toWorker[st])>> # <<>> /\ Head(<<Head(toWorker[st])>>) = Head(toWorker[st])
      BY <2>1, SeqFacts
    <3>4. Current(w)' = st BY <2>2, <2>3
    <3> HIDE DEF st
    <3> QED BY <2>3, <3>1, <3>2, <3>3, <3>4 DEF Latest
  <2>4. CASE v # w
    <3>1. toWorker'[Current(v)] = toWorker[Current(v)] /\ workerCh'[v] = workerCh[v]
      BY <2>1, <2>2, <2>4
    <3> QED BY <2>1, <2>2, <3>1 DEF Latest
  <2> QED BY <2>3, <2>4
<1>8. ASSUME NEW w \in Worker, Deploy(w) PROVE Delivered'
  <2> SUFFICES ASSUME NEW v \in Worker PROVE DeliveredTo(v)'
    BY DEF Delivered
  <2>1. /\ workerCh[w] # <<>> /\ workerCh' = [workerCh EXCEPT ![w] = <<>>]
        /\ deployed' = [deployed EXCEPT ![w] = Head(workerCh[w])]
        /\ UNCHANGED <<sent, ltodo, takenAt, clientStream, running, joined, broken, toWorker>>
    BY <1>8 DEF Deploy
  <2>2. CASE v = w
    <3>1. workerCh'[v] = <<>> /\ deployed'[v] = Head(workerCh[v]) BY <2>1, <2>2
    <3> QED BY <2>1, <2>2, <3>1 DEF Delivered, DeliveredTo, Listens, Latest, Current
  <2>3. CASE v # w
    <3>1. workerCh'[v] = workerCh[v] /\ deployed'[v] = deployed[v] BY <2>1, <2>3
    <3> QED BY <2>1, <3>1 DEF Delivered, DeliveredTo, Listens, Latest, Current
  <2> QED BY <2>2, <2>3
<1>9. ASSUME UNCHANGED <<sent, ltodo, clientStream, takenAt, running, joined, broken, toWorker,
       workerCh, deployed>> PROVE Delivered'
  BY <1>9 DEF Delivered, DeliveredTo, Listens, Latest, Current
<1> QED BY StepCases, <1>1, <1>2, <1>3, <1>4, <1>5, <1>6, <1>7, <1>8, <1>9 DEF vars,
           CopyStatus, SendStatus, Stop, NextLoop, SetMicroservice, Start, SendTrigger,
           ReceiveStatus, StreamClosed, HandOver, HSet

-----------------------------------------------------------------------------
(* From the workers to redis *)

(* The streams of workers that have joined once. *)
LEMMA FirstFacts ==
  ASSUME BoundAssumption, Types, Streams
  PROVE  /\ \A w \in Worker : joined[w] = 1 => <<w, 1>> \in Stream
         /\ \A st \in Stream, w \in Worker :
              hpc[st] # "none" /\ joined[w] = 1 => (st[1] = w <=> st = <<w, 1>>)
         /\ \A st \in Stream : st[1] \in Worker
         /\ \A u, w, i, j : <<u, i>> = <<w, j>> <=> u = w /\ i = j
         /\ \A w \in running : Current(w) \in Stream
         /\ \A w : Current(w) = <<w, joined[w]>>
<1>1. /\ \A st \in Stream : st[1] \in Worker /\ st[2] \in Nat \ {0} /\ st = <<st[1], st[2]>>
      /\ \A w \in Worker : \A i \in 1..MaxJoin[w] : <<w, i>> \in Stream
  BY StreamFacts, BoundAssumption DEF BoundAssumption
<1>2. \A w \in Worker : joined[w] \in Nat /\ joined[w] <= MaxJoin[w] /\ MaxJoin[w] \in Nat
  BY DEF Types, ProcessOK, BoundAssumption
<1>3. \A w \in Worker : joined[w] = 1 => <<w, 1>> \in Stream BY <1>1, <1>2
<1>4. ASSUME NEW st \in Stream, NEW w \in Worker, hpc[st] # "none", joined[w] = 1
      PROVE  st[1] = w <=> st = <<w, 1>>
  <2>1. st[2] <= joined[st[1]] BY <1>1, <1>2, <1>4 DEF Streams
  <2> QED BY <1>1, <1>4, <2>1
<1>5. ASSUME NEW w \in running PROVE Current(w) \in Stream
  <2>1. w \in Worker /\ joined[w] \in 1..MaxJoin[w] BY <1>2 DEF Types, ProcessOK
  <2> QED BY <1>1, <2>1 DEF Current
<1> QED BY <1>1, <1>3, <1>4, <1>5 DEF Current

(* The last report is true, or the next one is due. *)
LEMMA ReportedStep ==
  ASSUME BoundAssumption, Types, Streams, Reported, [Next]_vars
  PROVE  Reported'
<1>f. /\ \A w \in Worker : joined[w] = 1 => <<w, 1>> \in Stream
      /\ \A st \in Stream, w \in Worker :
           hpc[st] # "none" /\ joined[w] = 1 => (st[1] = w <=> st = <<w, 1>>)
      /\ \A st \in Stream : st[1] \in Worker
      /\ \A u, w, i, j : <<u, i>> = <<w, j>> <=> u = w /\ i = j
      /\ \A w \in running : Current(w) \in Stream
      /\ \A w : Current(w) = <<w, joined[w]>>
  BY FirstFacts
<1>t. /\ toMaster \in [Stream -> Seq(Status)] /\ broken \in [Stream -> BOOLEAN]
      /\ hpc \in [Stream -> {"none", "register", "recv", "send", "done"}]
      /\ joined \in [Worker -> Nat] /\ running \subseteq Worker
      /\ \A w \in running : joined[w] # 0
      /\ cwait \in [Worker -> BOOLEAN] /\ trigger \in [Worker -> BOOLEAN]
      /\ status \in [Worker -> Status] /\ NoStatus \in Status
  BY DEF Types, MasterOK, WireOK, ProcessOK, ControllerOK, NoStatus, Status
<1>1. ASSUME NEW st \in Stream, ReceiveStatus(st) PROVE Reported'
  <2> SUFFICES ASSUME NEW v \in Worker PROVE ReportedBy(v)'
    BY DEF Reported
  <2>v. ReportedBy(v) BY DEF Reported
  <2>1. /\ hpc[st] # "none" /\ toMaster[st] # <<>>
        /\ toMaster' = [toMaster EXCEPT ![st] = Tail(toMaster[st])]
        /\ servicesStatus' = Put(servicesStatus, st[1], Head(toMaster[st]))
        /\ UNCHANGED <<running, joined, broken, cwait, trigger, status>>
    BY <1>1 DEF ReceiveStatus
  <2>2. CASE st[1] # v
    <3>1. <<v, 1>> # st BY <2>2
    <3>2. toMaster'[<<v, 1>>] = toMaster[<<v, 1>>] BY <1>t, <2>1, <3>1
    <3>3. /\ v \in DOMAIN servicesStatus => v \in DOMAIN servicesStatus'
          /\ v \in DOMAIN servicesStatus => servicesStatus'[v] = servicesStatus[v]
      BY <2>1, <2>2 DEF Put
    <3> QED BY <2>v, <2>1, <3>2, <3>3 DEF ReportedBy, First, LastReport
  <2>3. CASE st[1] = v /\ joined[v] = 1
    <3>1. st = <<v, 1>> BY <1>f, <2>1, <2>3
    <3>2. toMaster'[st] = Tail(toMaster[st]) BY <1>t, <2>1
    <3>3. v \in DOMAIN servicesStatus' /\ servicesStatus'[v] = Head(toMaster[st])
      BY <2>1, <2>3 DEF Put
    <3>4. IF Tail(toMaster[st]) = <<>> THEN Head(toMaster[st]) = LastOf(toMaster[st])
          ELSE LastOf(Tail(toMaster[st])) = LastOf(toMaster[st])
      BY <1>t, <2>1, SeqFacts
    <3> QED BY <2>v, <2>1, <3>1, <3>2, <3>3, <3>4 DEF ReportedBy, First, LastReport
  <2>4. CASE joined[v] # 1 BY <2>v, <2>1, <2>4 DEF ReportedBy, First
  <2> QED BY <2>2, <2>3, <2>4
<1>2. ASSUME NEW st \in Stream, StreamClosed(st) PROVE Reported'
  <2> SUFFICES ASSUME NEW v \in Worker PROVE ReportedBy(v)'
    BY DEF Reported
  <2>v. ReportedBy(v) BY DEF Reported
  <2>1. /\ hpc[st] # "none" /\ broken[st]
        /\ toMaster' = [toMaster EXCEPT ![st] = <<>>]
        /\ servicesStatus' = Put(servicesStatus, st[1], NoStatus)
        /\ UNCHANGED <<running, joined, broken, cwait, trigger, status>>
    BY <1>2 DEF StreamClosed
  <2>2. CASE st[1] # v
    <3>1. <<v, 1>> # st BY <2>2
    <3>2. toMaster'[<<v, 1>>] = toMaster[<<v, 1>>] BY <1>t, <2>1, <3>1
    <3>3. /\ v \in DOMAIN servicesStatus => v \in DOMAIN servicesStatus'
          /\ v \in DOMAIN servicesStatus => servicesStatus'[v] = servicesStatus[v]
      BY <2>1, <2>2 DEF Put
    <3> QED BY <2>v, <2>1, <3>2, <3>3 DEF ReportedBy, First, LastReport
  <2>3. CASE st[1] = v
    <3>1. ~First(v) BY <1>f, <2>1, <2>3 DEF First
    <3> QED BY <2>v, <2>1, <3>1 DEF ReportedBy, First
  <2> QED BY <2>2, <2>3
<1>3. ASSUME NEW w \in Worker, Join(w) PROVE Reported'
  <2> SUFFICES ASSUME NEW v \in Worker PROVE ReportedBy(v)'
    BY DEF Reported
  <2>v. ReportedBy(v) BY DEF Reported
  <2>1. /\ w \notin running /\ running' = running \cup {w}
        /\ joined' = [joined EXCEPT ![w] = joined[w] + 1]
        /\ toMaster' = [toMaster EXCEPT ![<<w, joined[w] + 1>>] = <<NoStatus>>]
        /\ UNCHANGED <<broken, servicesStatus, cwait, trigger, status>>
    BY <1>3 DEF Join
  <2>2. CASE v = w
    <3>1. status[w] = NoStatus BY <2>v, <2>1, <2>2 DEF ReportedBy
    <3>2. joined'[w] = joined[w] + 1 /\ joined[w] \in Nat BY <1>t, <2>1
    <3>3. CASE joined[w] = 0
      <4>1. <<w, 1>> \in Stream
        BY <1>3, <3>3, StreamFacts, BoundAssumption DEF Join, BoundAssumption
      <4>2. toMaster'[<<w, 1>>] = <<NoStatus>> BY <1>t, <2>1, <3>3, <4>1
      <4>3. <<NoStatus>> # <<>> /\ LastOf(<<NoStatus>>) = NoStatus BY <1>t, SeqFacts
      <4> QED BY <2>1, <2>2, <3>1, <4>2, <4>3 DEF ReportedBy, First, LastReport
    <3>4. CASE joined[w] # 0 BY <2>1, <2>2, <3>2, <3>4 DEF ReportedBy, First
    <3> QED BY <3>3, <3>4
  <2>3. CASE v # w
    <3>1. <<v, 1>> # <<w, joined[w] + 1>> BY <1>f, <2>3
    <3>2. /\ toMaster'[<<v, 1>>] = toMaster[<<v, 1>>] /\ joined'[v] = joined[v]
          /\ v \in running' <=> v \in running
      BY <1>t, <2>1, <2>3, <3>1
    <3> QED BY <2>v, <2>1, <3>2 DEF ReportedBy, First, LastReport
  <2> QED BY <2>2, <2>3
<1>4. ASSUME NEW w \in Worker, Break(w) PROVE Reported'
  <2> SUFFICES ASSUME NEW v \in Worker PROVE ReportedBy(v)'
    BY DEF Reported
  <2>v. ReportedBy(v) BY DEF Reported
  <2> DEFINE st == Current(w)
  <2>1. /\ broken' = [broken EXCEPT ![st] = TRUE] /\ st \in Stream
        /\ UNCHANGED <<running, joined, toMaster, servicesStatus, cwait, trigger, status>>
    BY <1>4, <1>f DEF Break
  <2> HIDE DEF st
  <2>2. ~broken'[<<v, 1>>] /\ joined[v] = 1 => ~broken[<<v, 1>>]
    BY <1>t, <1>f, <2>1
  <2> QED BY <2>v, <2>1, <2>2 DEF ReportedBy, First, LastReport
<1>5. ASSUME NEW w \in Worker, Fatal(w) PROVE Reported'
  <2> SUFFICES ASSUME NEW v \in Worker PROVE ReportedBy(v)'
    BY DEF Reported
  <2>v. ReportedBy(v) BY DEF Reported
  <2>1. /\ running' = running \ {w}
        /\ cwait' = [cwait EXCEPT ![w] = FALSE] /\ trigger' = [trigger EXCEPT ![w] = FALSE]
        /\ status' = [status EXCEPT ![w] = NoStatus]
        /\ UNCHANGED <<joined, broken, toMaster, servicesStatus>>
    BY <1>5 DEF Fatal
  <2>2. CASE v = w BY <1>t, <2>1, <2>2 DEF ReportedBy, First
  <2>3. CASE v # w
    <3>1. /\ v \in running' <=> v \in running
          /\ cwait'[v] = cwait[v] /\ trigger'[v] = trigger[v] /\ status'[v] = status[v]
      BY <1>t, <2>1, <2>3
    <3> QED BY <2>v, <2>1, <3>1 DEF ReportedBy, First, LastReport
  <2> QED BY <2>2, <2>3
<1>6. ASSUME NEW w \in Worker, SendStatus(w) PROVE Reported'
  <2> SUFFICES ASSUME NEW v \in Worker PROVE ReportedBy(v)'
    BY DEF Reported
  <2>v. ReportedBy(v) BY DEF Reported
  <2> DEFINE st == Current(w)
  <2>1. /\ toMaster' = [toMaster EXCEPT ![st] = Append(toMaster[st], status[w])]
        /\ trigger' = [trigger EXCEPT ![w] = FALSE] /\ w \in running
        /\ st \in Stream /\ st = <<w, joined[w]>>
        /\ UNCHANGED <<running, joined, broken, servicesStatus, cwait, status>>
    BY <1>6, <1>f DEF SendStatus
  <2> HIDE DEF st
  <2>2. CASE v = w /\ joined[v] = 1
    <3>1. toMaster'[<<v, 1>>] = Append(toMaster[<<v, 1>>], status[v]) BY <1>t, <2>1, <2>2
    <3>2. toMaster'[<<v, 1>>] # <<>> /\ LastOf(toMaster'[<<v, 1>>]) = status[v]
      <4>1. toMaster[<<v, 1>>] \in Seq(Status) /\ status[v] \in Status BY <1>t, <1>f, <2>2
      <4>2. /\ Append(toMaster[<<v, 1>>], status[v]) # <<>>
            /\ LastOf(Append(toMaster[<<v, 1>>], status[v])) = status[v]
        BY <4>1, SeqFacts
      <4> QED BY <3>1, <4>2
    <3> QED BY <2>1, <2>2, <3>2 DEF ReportedBy, First, LastReport
  <2>3. CASE v = w /\ joined[v] # 1 BY <2>v, <2>1, <2>3 DEF ReportedBy, First
  <2>4. CASE v # w
    <3>1. <<v, 1>> # st BY <1>f, <2>1, <2>4
    <3>2. toMaster'[<<v, 1>>] = toMaster[<<v, 1>>] /\ trigger'[v] = trigger[v]
      BY <1>t, <2>1, <2>4, <3>1
    <3> QED BY <2>v, <2>1, <3>2 DEF ReportedBy, First, LastReport
  <2> QED BY <2>2, <2>3, <2>4
<1>7. ASSUME NEW w \in Worker, Stop(w) PROVE Reported'
  <2> SUFFICES ASSUME NEW v \in Worker PROVE ReportedBy(v)'
    BY DEF Reported
  <2>v. ReportedBy(v) BY DEF Reported
  <2>1. PICK s \in ctodo[w] : status' = [status EXCEPT ![w][s] = "inactive"]
                            /\ cwait' = [cwait EXCEPT ![w] = TRUE]
    BY <1>7 DEF Stop, SetStatus
  <2>2. /\ w \in running /\ cwait'[w] = TRUE
        /\ UNCHANGED <<running, joined, broken, toMaster, servicesStatus, trigger>>
    BY <1>7, <1>t, <2>1 DEF Stop
  <2>3. CASE v = w BY <2>v, <2>2, <2>3 DEF ReportedBy, First, LastReport
  <2>4. CASE v # w
    <3>1. status'[v] = status[v] /\ cwait'[v] = cwait[v] BY <1>t, <2>1, <2>4
    <3> QED BY <2>v, <2>2, <3>1 DEF ReportedBy, First, LastReport
  <2> QED BY <2>3, <2>4
<1>8. ASSUME NEW w \in Worker, SetMicroservice(w) PROVE Reported'
  <2> SUFFICES ASSUME NEW v \in Worker PROVE ReportedBy(v)'
    BY DEF Reported
  <2>v. ReportedBy(v) BY DEF Reported
  <2>1. PICK s \in ctodo[w] : status' = [status EXCEPT ![w][s] = "inactive"]
                            /\ cwait' = [cwait EXCEPT ![w] = TRUE]
    BY <1>8 DEF SetMicroservice, SetStatus
  <2>2. /\ w \in running /\ cwait'[w] = TRUE
        /\ UNCHANGED <<running, joined, broken, toMaster, servicesStatus, trigger>>
    BY <1>8, <1>t, <2>1 DEF SetMicroservice
  <2>3. CASE v = w BY <2>v, <2>2, <2>3 DEF ReportedBy, First, LastReport
  <2>4. CASE v # w
    <3>1. status'[v] = status[v] /\ cwait'[v] = cwait[v] BY <1>t, <2>1, <2>4
    <3> QED BY <2>v, <2>2, <3>1 DEF ReportedBy, First, LastReport
  <2> QED BY <2>3, <2>4
<1>9. ASSUME NEW w \in Worker, Start(w) PROVE Reported'
  <2> SUFFICES ASSUME NEW v \in Worker PROVE ReportedBy(v)'
    BY DEF Reported
  <2>v. ReportedBy(v) BY DEF Reported
  <2>1. PICK s \in ctodo[w] : status' = [status EXCEPT ![w][s] = "active"]
                            /\ cwait' = [cwait EXCEPT ![w] = TRUE]
    BY <1>9 DEF Start, SetStatus
  <2>2. /\ w \in running /\ cwait'[w] = TRUE
        /\ UNCHANGED <<running, joined, broken, toMaster, servicesStatus, trigger>>
    BY <1>9, <1>t, <2>1 DEF Start
  <2>3. CASE v = w BY <2>v, <2>2, <2>3 DEF ReportedBy, First, LastReport
  <2>4. CASE v # w
    <3>1. status'[v] = status[v] /\ cwait'[v] = cwait[v] BY <1>t, <2>1, <2>4
    <3> QED BY <2>v, <2>2, <3>1 DEF ReportedBy, First, LastReport
  <2> QED BY <2>3, <2>4
<1>10. ASSUME NEW w \in Worker, SendTrigger(w) PROVE Reported'
  <2> SUFFICES ASSUME NEW v \in Worker PROVE ReportedBy(v)'
    BY DEF Reported
  <2>v. ReportedBy(v) BY DEF Reported
  <2>1. /\ trigger' = [trigger EXCEPT ![w] = TRUE] /\ cwait' = [cwait EXCEPT ![w] = FALSE]
        /\ UNCHANGED <<running, joined, broken, toMaster, servicesStatus, status>>
    BY <1>10 DEF SendTrigger
  <2>2. CASE v = w
    <3>1. trigger'[v] = TRUE BY <1>t, <2>1, <2>2
    <3> QED BY <2>v, <2>1, <3>1 DEF ReportedBy, First
  <2>3. CASE v # w
    <3>1. trigger'[v] = trigger[v] /\ cwait'[v] = cwait[v] BY <1>t, <2>1, <2>3
    <3> QED BY <2>v, <2>1, <3>1 DEF ReportedBy, First, LastReport
  <2> QED BY <2>2, <2>3
<1>11. ASSUME UNCHANGED <<running, joined, broken, toMaster, servicesStatus, cwait, trigger,
       status>> PROVE Reported'
  BY <1>11 DEF Reported, ReportedBy, First, LastReport
<1> QED BY StepCases, <1>1, <1>2, <1>3, <1>4, <1>5, <1>6, <1>7, <1>8, <1>9, <1>10, <1>11 DEF
           vars, SendToWorker, CopyStatus, ReceiveApply, Deploy, NextLoop, Register, HandOver,
           TakeSetting, HSet

(* What the master has of a worker is on its way to redis. *)
LEMMA RecordedStep ==
  ASSUME BoundAssumption, Types, Streams, Recorded, [Next]_vars
  PROVE  Recorded'
<1>f. /\ \A w \in Worker : joined[w] = 1 => <<w, 1>> \in Stream
      /\ \A st \in Stream, w \in Worker :
           hpc[st] # "none" /\ joined[w] = 1 => (st[1] = w <=> st = <<w, 1>>)
      /\ \A st \in Stream : st[1] \in Worker
      /\ \A u, w, i, j : <<u, i>> = <<w, j>> <=> u = w /\ i = j
      /\ \A w \in running : Current(w) \in Stream
      /\ \A w : Current(w) = <<w, joined[w]>>
  BY FirstFacts
<1>t. /\ toMaster \in [Stream -> Seq(Status)] /\ broken \in [Stream -> BOOLEAN]
      /\ hpc \in [Stream -> {"none", "register", "recv", "send", "done"}]
      /\ joined \in [Worker -> Nat] /\ running \subseteq Worker
      /\ \A w \in running : joined[w] # 0
      /\ cwait \in [Worker -> BOOLEAN] /\ trigger \in [Worker -> BOOLEAN]
      /\ status \in [Worker -> Status] /\ NoStatus \in Status
  BY DEF Types, MasterOK, WireOK, ProcessOK, ControllerOK, NoStatus, Status
<1>1. ASSUME NEW st \in Stream, Register(st) PROVE Recorded'
  <2> SUFFICES ASSUME NEW v \in Worker PROVE RecordedOf(v)'
    BY DEF Recorded
  <2>v. RecordedOf(v) BY DEF Recorded
  <2>1. /\ hpc[st] = "register" /\ hpc' = [hpc EXCEPT ![st] = "recv"]
        /\ UNCHANGED <<running, joined, broken, servicesStatus, mpc, mtodo, nodeMap, redis, hsetOK>>
    BY <1>1 DEF Register
  <2>2. First(v) /\ hpc'[<<v, 1>>] # "send" => hpc[<<v, 1>>] # "send"
    BY <1>t, <1>f, <2>1 DEF First
  <2> QED BY <2>v, <2>1, <2>2 DEF RecordedOf, First
<1>2. ASSUME NEW st \in Stream, ReceiveStatus(st) PROVE Recorded'
  <2> SUFFICES ASSUME NEW v \in Worker PROVE RecordedOf(v)'
    BY DEF Recorded
  <2>v. RecordedOf(v) BY DEF Recorded
  <2>1. /\ hpc[st] # "none"
        /\ hpc' = [hpc EXCEPT ![st] = "send"]
        /\ \E s : servicesStatus' = Put(servicesStatus, st[1], s)
        /\ UNCHANGED <<running, joined, broken, mpc, mtodo, nodeMap, redis, hsetOK>>
    BY <1>2 DEF ReceiveStatus
  <2>2. CASE st[1] # v
    <3>1. <<v, 1>> # st BY <2>2
    <3>2. hpc'[<<v, 1>>] = hpc[<<v, 1>>] BY <1>t, <2>1, <3>1
    <3>3. /\ v \in DOMAIN servicesStatus' => v \in DOMAIN servicesStatus
          /\ v \in DOMAIN servicesStatus => servicesStatus'[v] = servicesStatus[v]
      BY <2>1, <2>2 DEF Put
    <3> QED BY <2>v, <2>1, <3>2, <3>3 DEF RecordedOf, First
  <2>3. CASE st[1] = v
    <3>1. joined[v] = 1 => st = <<v, 1>> BY <1>f, <2>1, <2>3
    <3>2. hpc'[st] = "send" BY <1>t, <2>1
    <3> QED BY <2>1, <3>1, <3>2 DEF RecordedOf, First
  <2> QED BY <2>2, <2>3
<1>3. ASSUME NEW st \in Stream, StreamClosed(st) PROVE Recorded'
  <2> SUFFICES ASSUME NEW v \in Worker PROVE RecordedOf(v)'
    BY DEF Recorded
  <2>v. RecordedOf(v) BY DEF Recorded
  <2>1. /\ hpc[st] # "none" /\ broken[st] /\ hpc' = [hpc EXCEPT ![st] = "done"]
        /\ servicesStatus' = Put(servicesStatus, st[1], NoStatus)
        /\ UNCHANGED <<running, joined, broken, mpc, mtodo, nodeMap, redis, hsetOK>>
    BY <1>3 DEF StreamClosed
  <2>2. CASE st[1] # v
    <3>1. <<v, 1>> # st BY <2>2
    <3>2. hpc'[<<v, 1>>] = hpc[<<v, 1>>] BY <1>t, <2>1, <3>1
    <3>3. /\ v \in DOMAIN servicesStatus' => v \in DOMAIN servicesStatus
          /\ v \in DOMAIN servicesStatus => servicesStatus'[v] = servicesStatus[v]
      BY <2>1, <2>2 DEF Put
    <3> QED BY <2>v, <2>1, <3>2, <3>3 DEF RecordedOf, First
  <2>3. CASE st[1] = v
    <3>1. ~First(v) BY <1>f, <2>1, <2>3 DEF First
    <3> QED BY <2>1, <3>1 DEF RecordedOf, First
  <2> QED BY <2>2, <2>3
<1>4. ASSUME NEW st \in Stream, HandOver(st) PROVE Recorded'
  <2>1. mpc' = "copy" /\ mtodo' = DOMAIN servicesStatus /\ UNCHANGED servicesStatus
    BY <1>4 DEF HandOver
  <2> QED BY <2>1 DEF Recorded, RecordedOf
<1>5. ASSUME NEW w \in Worker, CopyStatus(w) PROVE Recorded'
  <2> SUFFICES ASSUME NEW v \in Worker PROVE RecordedOf(v)'
    BY DEF Recorded
  <2>v. RecordedOf(v) BY DEF Recorded
  <2>1. /\ mpc = "copy" /\ mtodo' = mtodo \ {w}
        /\ mpc' = IF mtodo = {w} THEN "hset" ELSE "copy"
        /\ nodeMap' = Put(nodeMap, w, servicesStatus[w])
        /\ UNCHANGED <<running, joined, broken, servicesStatus, hpc>>
    BY <1>5 DEF CopyStatus
  <2>2. /\ nodeMap'[w] = servicesStatus[w] /\ DOMAIN nodeMap' = DOMAIN nodeMap \cup {w}
        /\ \A x \in DOMAIN nodeMap : x # w => nodeMap'[x] = nodeMap[x]
    BY <2>1 DEF Put
  <2>3. CASE v = w BY <2>1, <2>2, <2>3 DEF RecordedOf
  <2>4. CASE v # w
    <3>1. v \in mtodo => v \in mtodo' /\ mpc' = "copy" BY <2>1, <2>4
    <3>2. mpc' # "recv" /\ (v \in DOMAIN nodeMap => v \in DOMAIN nodeMap' /\ nodeMap'[v] = nodeMap[v])
      BY <2>1, <2>2, <2>4
    <3> QED BY <2>v, <2>1, <3>1, <3>2 DEF RecordedOf, First
  <2> QED BY <2>3, <2>4
<1>6. ASSUME HSet PROVE Recorded'
  <2> SUFFICES ASSUME NEW v \in Worker PROVE RecordedOf(v)'
    BY DEF Recorded
  <2>v. RecordedOf(v) BY DEF Recorded
  <2>1. /\ mpc = "hset" /\ mpc' = "recv"
        /\ UNCHANGED <<running, joined, broken, servicesStatus, hpc>>
        /\ hsetOK' /\ v \in DOMAIN nodeMap => v \in DOMAIN redis' /\ redis'[v] = nodeMap[v]
    BY <1>6 DEF HSet
  <2> QED BY <2>v, <2>1 DEF RecordedOf, First
<1>7. ASSUME NEW w \in Worker, Join(w) PROVE Recorded'
  <2> SUFFICES ASSUME NEW v \in Worker PROVE RecordedOf(v)'
    BY DEF Recorded
  <2>v. RecordedOf(v) BY DEF Recorded
  <2>1. /\ running' = running \cup {w} /\ joined' = [joined EXCEPT ![w] = joined[w] + 1]
        /\ hpc' = [hpc EXCEPT ![<<w, joined[w] + 1>>] = "register"]
        /\ UNCHANGED <<broken, servicesStatus, mpc, mtodo, nodeMap, redis, hsetOK>>
    BY <1>7 DEF Join
  <2>2. CASE v = w
    <3>1. joined'[w] = joined[w] + 1 /\ joined[w] \in Nat BY <1>t, <2>1
    <3>2. joined'[w] = 1 => w \notin DOMAIN servicesStatus BY <3>1 DEF Streams
    <3> QED BY <2>1, <2>2, <3>2 DEF RecordedOf, First
  <2>3. CASE v # w
    <3>1. <<v, 1>> # <<w, joined[w] + 1>> BY <1>f, <2>3
    <3>2. /\ hpc'[<<v, 1>>] = hpc[<<v, 1>>] /\ joined'[v] = joined[v]
          /\ v \in running' <=> v \in running
      BY <1>t, <2>1, <2>3, <3>1
    <3> QED BY <2>v, <2>1, <3>2 DEF RecordedOf, First
  <2> QED BY <2>2, <2>3
<1>8. ASSUME NEW w \in Worker, Break(w) PROVE Recorded'
  <2> SUFFICES ASSUME NEW v \in Worker PROVE RecordedOf(v)'
    BY DEF Recorded
  <2>v. RecordedOf(v) BY DEF Recorded
  <2> DEFINE st == Current(w)
  <2>1. /\ broken' = [broken EXCEPT ![st] = TRUE] /\ st \in Stream
        /\ UNCHANGED <<running, joined, servicesStatus, hpc, mpc, mtodo, nodeMap, redis, hsetOK>>
    BY <1>8, <1>f DEF Break
  <2> HIDE DEF st
  <2>2. ~broken'[<<v, 1>>] /\ joined[v] = 1 => ~broken[<<v, 1>>]
    BY <1>t, <1>f, <2>1
  <2> QED BY <2>v, <2>1, <2>2 DEF RecordedOf, First
<1>9. ASSUME NEW w \in Worker, Fatal(w) PROVE Recorded'
  <2> SUFFICES ASSUME NEW v \in Worker PROVE RecordedOf(v)'
    BY DEF Recorded
  <2>v. RecordedOf(v) BY DEF Recorded
  <2>1. /\ running' = running \ {w}
        /\ UNCHANGED <<joined, broken, servicesStatus, hpc, mpc, mtodo, nodeMap, redis, hsetOK>>
    BY <1>9 DEF Fatal
  <2> QED BY <2>v, <2>1 DEF RecordedOf, First
<1>10. ASSUME UNCHANGED <<running, joined, broken, servicesStatus, hpc, mpc, mtodo, nodeMap,
       redis, hsetOK>> PROVE Recorded'
  BY <1>10 DEF Recorded, RecordedOf, First
<1> QED BY StepCases, <1>1, <1>2, <1>3, <1>4, <1>5, <1>6, <1>7, <1>8, <1>9, <1>10 DEF vars,
           SendToWorker, ReceiveApply, SendStatus, Deploy, Stop, NextLoop, SetMicroservice,
           Start, SendTrigger, TakeSetting

-----------------------------------------------------------------------------
(* The theorems *)

(* Nobody has joined when the master starts. *)
LEMMA InitIInv == BoundAssumption /\ Init => IInv
<1> SUFFICES ASSUME BoundAssumption, Init PROVE IInv
  OBVIOUS
<1> USE DEF Init
<1>1. NoStatus \in Status BY DEF NoStatus, Status
<1>2. MasterOK BY MapFacts DEF MasterOK, BoundAssumption
<1>3. MonitorOK BY MapFacts DEF MonitorOK
<1>4. WireOK BY SeqFacts DEF WireOK, BoundAssumption
<1>5. ProcessOK BY DEF ProcessOK, BoundAssumption
<1>6. ControllerOK BY <1>1 DEF ControllerOK
<1>7. Streams
  <2>1. \A st \in Stream : st[1] \in Worker /\ st[2] \in 1..MaxJoin[st[1]] BY StreamFacts
  <2>2. \A st \in Stream : st[2] > joined[st[1]] BY <2>1, BoundAssumption DEF BoundAssumption
  <2> QED BY <2>2, MapFacts DEF Streams
<1>8. Delivered BY DEF Delivered, DeliveredTo, Listens
<1>9. Reported BY DEF Reported, ReportedBy, First
<1>10. Recorded BY DEF Recorded, RecordedOf, First
<1> QED BY <1>2, <1>3, <1>4, <1>5, <1>6, <1>7, <1>8, <1>9, <1>10 DEF IInv, Types

(* The inductive invariant. *)
THEOREM Invariance == Spec => []IInv
<1>1. BoundAssumption /\ IInv /\ [Next]_vars => IInv'
  <2> SUFFICES ASSUME BoundAssumption, IInv, [Next]_vars PROVE IInv'
    OBVIOUS
  <2>1. Types'
    BY MasterStep, MonitorStep, WireStep, ProcessStep, ControllerStep DEF IInv, Types
  <2>2. Streams' BY StreamsStep DEF IInv
  <2>3. Delivered' BY DeliveredStep DEF IInv
  <2>4. Reported' BY ReportedStep DEF IInv
  <2>5. Recorded' BY RecordedStep DEF IInv
  <2> QED BY <2>1, <2>2, <2>3, <2>4, <2>5 DEF IInv
<1> QED BY <1>1, InitIInv, BoundAssumption, PTL DEF Spec

(* The maps, channels, streams and locals keep their types. *)
THEOREM TypeCorrect == Spec => []TypeOK
<1>1. IInv => TypeOK
  BY DEF IInv, Types, MasterOK, MonitorOK, WireOK, ProcessOK, ControllerOK, TypeOK
<1> QED BY <1>1, Invariance, PTL

(* A worker whose stream was in ClientStream when the last setting was taken   *)
(* has deployed it once everything has come to rest, unless another stream has *)
(* been put there since.                                                       *)
THEOREM SettingsArrive == Spec => []RegisteredIsDeployed
<1>1. IInv => RegisteredIsDeployed
  BY DEF IInv, Delivered, DeliveredTo, Listens, Latest, DeploySettled, RegisteredIsDeployed
<1> QED BY <1>1, Invariance, PTL

(* Once the reports of a worker that has joined once have come to rest, redis  *)
(* has its last status, unless the last HSet has failed: no report is lost in  *)
(* the channel of one place or between the maps.                               *)
THEOREM ReportsArrive == Spec => []StatusIsRecorded
<1>1. ASSUME BoundAssumption, IInv PROVE StatusIsRecorded
  <2> SUFFICES ASSUME hsetOK, NEW w \in Worker, StatusSettled(w), joined[w] = 1
               PROVE  w \in DOMAIN redis /\ redis[w] = status[w]
    BY DEF StatusIsRecorded
  <2>1. <<w, 1>> \in Stream /\ Current(w) = <<w, 1>>
    BY <1>1, FirstFacts DEF IInv, Current
  <2>2. /\ First(w) /\ ~cwait[w] /\ ~trigger[w] /\ mpc = "recv"
        /\ toMaster[<<w, 1>>] = <<>> /\ hpc[<<w, 1>>] # "send"
    <3>1. <<w, 1>>[1] = w OBVIOUS
    <3> QED BY <2>1, <3>1 DEF StatusSettled, First
  <2>3. w \in DOMAIN servicesStatus /\ servicesStatus[w] = status[w]
    BY <1>1, <2>2 DEF IInv, Reported, ReportedBy, LastReport
  <2> QED BY <1>1, <2>2, <2>3 DEF IInv, Recorded, RecordedOf
<1> QED BY <1>1, Invariance, BoundAssumption, PTL
=============================================================================

--------------------------- MODULE ScaleContainer ---------------------------
(***************************************************************************)
(* One container number of a ScaleContainer: its counter NumOfUpState and  *)
(* the kubernetes objects behind it (config map, job or deployment,        *)
(* service), which StartProcess applies and StopAllProcess deletes one     *)
(* call after the other.  The controller makes these calls one at a time;  *)
(* kubernetes may refuse any of them, lose an answer, or take longer to    *)
(* delete than the 30 retries wait.  The service may be declared anew      *)
(* with other data, the process may crash and start again, and on SIGTERM  *)
(* main stops the container while the controller goes on.                  *)
(***************************************************************************)
EXTENDS Manifest, FiniteSets, TLC

CONSTANTS
  Files,      \* the services.yml files that get deployed
  Name,       \* the service
  Num,        \* the container's number
  MaxUp       \* bound on NumOfUpState

ASSUME MaxUpAssumption == MaxUp \in Nat \ {0}

Kind == {"configMap", "job", "deployment", "service"}
ObjState == {"absent", "live", "terminating"}

\* An assignment to a key of the Env map.
Put(env, key, value) == [k \in DOMAIN env \cup {key} |-> IF k = key THEN value ELSE env[k]]

\* The service's entry when setMicroserviceList has loaded a file.
Entry(setting) ==
  [setting.microservices[Name] EXCEPT
     !.env = Put(Put(@, "DEVICE_NAME", setting.deviceName), "DEBUG", setting.debug)]

Services ==
  LET loaded == {LoadConfigFromDirectory(file) : file \in Files} IN
  {Entry(r.setting) : r \in {q \in loaded : q.answer = "ok" /\ Declares(q.setting, Name)}}

ASSUME ServiceAssumption == Services # {}

\* What YAML reads has the types of yaml_model.go.
ASSUME FileAssumption ==
  \A file \in Files \ {Nil} :
    /\ DOMAIN file = {"microservices", "devices", "deviceName", "debug"}
    /\ \A m \in Range(Map(file.microservices)) \ {Nil} :
         /\ DOMAIN m = DOMAIN YamlMicroservice
         /\ m.always \in BOOLEAN /\ m.multiple \in BOOLEAN /\ m.scale \in Int
         /\ m.volumeMountPathList \in Seq(Seq(STRING))

\* Mutant: the containers share the map, in which the last number is left.
SharedEnv(m) ==
  LET WithNumber(n) == [m EXCEPT !.env = Put(@, "MS_NUMBER", ToString(n))] IN
  [n \in 1..m.scale |-> NewContainerMicroservice(Name, WithNumber(m.scale), n)]

\* MS_NUMBER goes into the one Env map of the service, number after number;
\* a container copies the map as it is then.
NewScaleContainer(m) ==
  LET WithNumber(n) == [m EXCEPT !.env = Put(@, "MS_NUMBER", ToString(n))] IN
  [n \in 1..m.scale |-> NewContainerMicroservice(Name, WithNumber(n), n)]

VARIABLES
  obj,        \* obj[k]: "absent", "live" or "terminating"
  made,       \* made[k]: the entry the object was last applied from
  ms,         \* the entry of the ScaleContainer
  up,         \* NumOfUpState
  op,         \* the controller's call under way: "none", "start" or "stop"
  at,         \* the object that it applies or deletes next
  failed,     \* whether StopAllProcess has collected an error
  redeploy,   \* a fresh ScaleContainer follows (the service is declared again)
  term,       \* SIGTERM: "no", "stopping", "stopped" or "exited"
  mat,        \* the object that main deletes next
  mwork,      \* the workload of the container that main stops
  replaced,   \* the controller has meanwhile replaced that container
  mfailed,    \* whether main's StopAllProcess has collected an error
  \* history
  dirty,      \* a start or a stop has not done all that it should
  whole,      \* all objects existed when the stop began
  started,    \* the last StartProcess succeeded and no stop has begun since
  raced       \* the controller made a call between SIGTERM and the exit

cluster == <<obj, made>>
container == <<ms, up>>
call == <<op, at, failed, redeploy>>
main == <<term, mat, mwork, replaced, mfailed>>
history == <<dirty, whole, started, raced>>
vars == <<cluster, container, call, main, history>>

\* What a kubernetes call may answer and what it leaves.
Outcome(a, o) == [answer |-> a, left |-> o]
Refused(r) == r.answer = "error"

-----------------------------------------------------------------------------
(* pkg/k8s: one object *)

\* A deleted object may linger until its finalizers are done; a service does not.
Leftovers(k) == IF k = "service" THEN {"absent"} ELSE {"absent", "terminating"}

\* Delete and the polling after it: refused, or an error although the object
\* goes (lost answer, retries used up), or deleted; an error of the polling
\* Get counts as "deleted".
Delete(k, o) ==
  IF o = "absent" THEN {Outcome("error", o)}
  ELSE {Outcome("error", o)} \cup
         {Outcome(a, left) : a \in {"ok", "error"}, left \in Leftovers(k)}

\* Create fails if the name is taken, or for reasons of its own.
Create(o) ==
  IF o = "absent"
    THEN {Outcome("ok", "live"), Outcome("error", "live"), Outcome("error", "absent")}
    ELSE {Outcome("error", o)}

\* Config map and deployment: an object that Get finds is updated, even one
\* that is being deleted.
ApplyByUpdate(o) ==
  Create(o) \cup (IF o = "absent" THEN {} ELSE {Outcome("ok", o)})

\* Job and service: an object that Get finds is deleted and created again.
ApplyByReplace(k, o) ==
  Create(o) \cup {d \in Delete(k, o) : Refused(d)}
    \cup UNION {Create(d.left) : d \in {e \in Delete(k, o) : ~Refused(e)}}

Apply(k, o) ==
  IF k \in {"configMap", "deployment"} THEN ApplyByUpdate(o) ELSE ApplyByReplace(k, o)

-----------------------------------------------------------------------------
(* ScaleContainer and ContainerMicroservice *)

StartMicroservice ==
  /\ op = "none"
  /\ term # "exited"
  /\ ~redeploy
  /\ Num <= ms.scale
  /\ up = 0 \/ ms.multiple
  /\ up < MaxUp
  /\ op' = "start"
  /\ at' = "configMap"
  /\ raced' = (term # "no")
  /\ UNCHANGED <<cluster, container, failed, redeploy, main, dirty, whole, started>>

\* A start ends with the object at which it fails, or with the service.
EndStart(r) ==
  IF Refused(r)
    THEN op' = "none" /\ dirty' = TRUE /\ UNCHANGED <<up, at, started>>
  ELSE IF at = "service"
    THEN op' = "none" /\ up' = up + 1 /\ started' = TRUE /\ UNCHANGED <<at, dirty>>
    ELSE /\ at' = IF at = "configMap" THEN Work(ms) ELSE "service"
         /\ UNCHANGED <<op, up, dirty, started>>

\* Mutant: an object that Get finds is left as it is.
ApplyIfAbsent ==
  /\ op = "start"
  /\ term # "exited"
  /\ at = Work(ms) => ~PodPanics(ms)
  /\ IF obj[at] = "absent"
       THEN \E r \in Create("absent") :
              /\ obj' = [obj EXCEPT ![at] = r.left]
              /\ made' = [made EXCEPT ![at] = ms]
              /\ EndStart(r)
       ELSE UNCHANGED cluster /\ EndStart(Outcome("ok", obj[at]))
  /\ UNCHANGED <<ms, failed, redeploy, main, whole, raced>>

\* StartProcess: the first error ends it and leaves what was created.  An
\* error may hide an object that was made anew, or one that was left as it was.
ApplyNext ==
  /\ op = "start"
  /\ term # "exited"
  /\ at = Work(ms) => ~PodPanics(ms)
  /\ \E r \in Apply(at, obj[at]) :
       /\ obj' = [obj EXCEPT ![at] = r.left]
       /\ \/ made' = [made EXCEPT ![at] = ms]
          \/ Refused(r) /\ obj[at] # "absent" /\ UNCHANGED made
       /\ EndStart(r)
  /\ UNCHANGED <<ms, failed, redeploy, main, whole, raced>>

\* Called for every entry of the list when a setting is deployed; the entry is
\* then replaced if the new setting declares the service.
StopMicroservice ==
  /\ op = "none"
  /\ term # "exited"
  /\ ~redeploy
  /\ up > 0
  /\ op' = "stop"
  /\ at' = "service"
  /\ failed' = FALSE
  /\ redeploy' \in BOOLEAN
  /\ whole' = \A k \in {"configMap", Work(ms), "service"} : obj[k] # "absent"
  /\ started' = FALSE
  /\ raced' = (term # "no")
  /\ UNCHANGED <<cluster, container, main, dirty>>

AfterDelete(k) == IF k = "service" THEN Work(ms) ELSE "configMap"

\* Mutant: one up state less, where the code sets the counter to 0.
DeleteDecrements ==
  /\ op = "stop"
  /\ term # "exited"
  /\ \E r \in Delete(at, obj[at]) :
       LET anyError == failed \/ Refused(r) IN
       /\ obj' = [obj EXCEPT ![at] = r.left]
       /\ failed' = anyError
       /\ IF at = "configMap"
            THEN /\ op' = "none"
                 /\ up' = IF anyError \/ up = 0 THEN up ELSE up - 1
                 /\ dirty' = (anyError \/ \E k \in Kind : obj'[k] # "absent")
                 /\ UNCHANGED at
            ELSE at' = AfterDelete(at) /\ UNCHANGED <<op, up, dirty>>
  /\ UNCHANGED <<made, ms, redeploy, main, whole, started, raced>>

\* Mutant: only the error of the last Delete counts.
DeleteKeepsLastError ==
  /\ op = "stop"
  /\ term # "exited"
  /\ \E r \in Delete(at, obj[at]) :
       /\ obj' = [obj EXCEPT ![at] = r.left]
       /\ failed' = Refused(r)
       /\ IF at = "configMap"
            THEN /\ op' = "none"
                 /\ up' = IF Refused(r) THEN up ELSE 0
                 /\ dirty' = (Refused(r) \/ \E k \in Kind : obj'[k] # "absent")
                 /\ UNCHANGED at
            ELSE at' = AfterDelete(at) /\ UNCHANGED <<op, up, dirty>>
  /\ UNCHANGED <<made, ms, redeploy, main, whole, started, raced>>

\* StopAllProcess goes on after an error; any error keeps NumOfUpState.
DeleteNext ==
  /\ op = "stop"
  /\ term # "exited"
  /\ \E r \in Delete(at, obj[at]) :
       LET anyError == failed \/ Refused(r) IN
       /\ obj' = [obj EXCEPT ![at] = r.left]
       /\ failed' = anyError
       /\ IF at = "configMap"
            THEN /\ op' = "none"
                 /\ up' = IF anyError THEN up ELSE 0
                 /\ dirty' = (anyError \/ \E k \in Kind : obj'[k] # "absent")
                 /\ UNCHANGED at
            ELSE at' = AfterDelete(at) /\ UNCHANGED <<op, up, dirty>>
  /\ UNCHANGED <<made, ms, redeploy, main, whole, started, raced>>

\* setMicroservice: a new ScaleContainer starts to count at 0.  The container
\* before it has been stopped, or was not up.
SetMicroservice ==
  /\ op = "none"
  /\ term # "exited"
  /\ redeploy \/ up = 0
  /\ redeploy' = FALSE
  /\ ms' \in Services
  /\ up' = 0
  /\ replaced' = (replaced \/ term = "stopping")
  /\ started' = FALSE
  /\ UNCHANGED <<cluster, op, at, failed, term, mat, mwork, mfailed, dirty, whole, raced>>

-----------------------------------------------------------------------------
(* The process *)

\* The process ends and is started again: after SIGTERM, by a crash, or by a
\* panic, as when the pod cannot be made.  The new one knows nothing of the objects.
Restart ==
  /\ ms' \in Services
  /\ dirty' = \E k \in Kind : obj[k] # "absent"
  /\ up' = 0
  /\ op' = "none" /\ at' = "configMap" /\ failed' = FALSE /\ redeploy' = FALSE
  /\ term' = "no" /\ mat' = "service" /\ mwork' = "job" /\ replaced' = FALSE /\ mfailed' = FALSE
  /\ whole' = FALSE /\ started' = FALSE /\ raced' = FALSE
  /\ UNCHANGED cluster

\* main calls StopAllMicroservice, which reads NumOfUpState at any moment.
Sigterm ==
  /\ term = "no"
  /\ term' = IF up > 0 THEN "stopping" ELSE "stopped"
  /\ mat' = "service"
  /\ mwork' = Work(ms)
  /\ replaced' = FALSE
  /\ mfailed' = FALSE
  /\ raced' = (op # "none")
  /\ UNCHANGED <<cluster, container, call, dirty, whole, started>>

\* Mutant: main does not wait for the calls after the first.
MainDeletesOne ==
  /\ term = "stopping"
  /\ \E r \in Delete(mat, obj[mat]) :
       /\ obj' = [obj EXCEPT ![mat] = r.left]
       /\ mfailed' = Refused(r)
       /\ term' = "stopped"
       /\ up' = IF Refused(r) \/ replaced THEN up ELSE 0
       /\ dirty' = (dirty \/ Refused(r))
  /\ UNCHANGED <<made, ms, call, mat, mwork, replaced, whole, started, raced>>

MainDelete ==
  /\ term = "stopping"
  /\ \E r \in Delete(mat, obj[mat]) :
       LET anyError == mfailed \/ Refused(r) IN
       /\ obj' = [obj EXCEPT ![mat] = r.left]
       /\ mfailed' = anyError
       /\ IF mat = "configMap"
            THEN /\ term' = "stopped"
                 /\ up' = IF anyError \/ replaced THEN up ELSE 0
                 /\ dirty' = (dirty \/ anyError)
                 /\ UNCHANGED mat
            ELSE /\ mat' = IF mat = "service" THEN mwork ELSE "configMap"
                 /\ UNCHANGED <<term, up, dirty>>
  /\ UNCHANGED <<made, ms, call, mwork, replaced, whole, started, raced>>

\* main returns once the other containers are stopped, too.
Exit ==
  /\ term = "stopped"
  /\ term' = "exited"
  /\ UNCHANGED <<cluster, container, call, mat, mwork, replaced, mfailed, history>>

-----------------------------------------------------------------------------
(* kubernetes *)

\* The finalizers of an object that is being deleted are done.
Finalize(k) ==
  /\ obj[k] = "terminating"
  /\ obj' = [obj EXCEPT ![k] = "absent"]
  /\ UNCHANGED <<made, container, call, main, history>>

\* A job that has finished is removed after TTLSecondsAfterFinished.
JobExpires ==
  /\ obj["job"] = "live"
  /\ obj' = [obj EXCEPT !["job"] = "absent"]
  /\ UNCHANGED <<made, container, call, main, history>>

-----------------------------------------------------------------------------
Init ==
  /\ ms \in Services
  /\ obj = [k \in Kind |-> "absent"]
  /\ made = [k \in Kind |-> ms]
  /\ up = 0
  /\ op = "none" /\ at = "configMap" /\ failed = FALSE /\ redeploy = FALSE
  /\ term = "no" /\ mat = "service" /\ mwork = "job" /\ replaced = FALSE /\ mfailed = FALSE
  /\ dirty = FALSE /\ whole = FALSE /\ started = FALSE /\ raced = FALSE

Next ==
  \/ StartMicroservice
  \/ ApplyNext
  \/ StopMicroservice
  \/ DeleteNext
  \/ SetMicroservice
  \/ Sigterm
  \/ MainDelete
  \/ Exit
  \/ Restart
  \/ \E k \in Kind : Finalize(k)
  \/ JobExpires

Spec == Init /\ [][Next]_vars

-----------------------------------------------------------------------------
(* Properties *)

\* The types of the counter, of the objects and of the calls under way.
TypeOK ==
  /\ obj \in [Kind -> ObjState]
  /\ made \in [Kind -> Services]
  /\ ms \in Services
  /\ up \in 0..MaxUp
  /\ op \in {"none", "start", "stop"}
  /\ at \in Kind /\ mat \in Kind /\ mwork \in {"job", "deployment"}
  /\ term \in {"no", "stopping", "stopped", "exited"}
  /\ failed \in BOOLEAN /\ redeploy \in BOOLEAN /\ mfailed \in BOOLEAN /\ replaced \in BOOLEAN
  /\ dirty \in BOOLEAN /\ whole \in BOOLEAN /\ started \in BOOLEAN /\ raced \in BOOLEAN

Parts == {"configMap", Work(ms), "service"}

\* As long as no start or stop has gone wrong, NumOfUpState tells the truth
\* between calls: an up container has all its objects (a job may have finished
\* and gone) and no others, a container that is not up has none.
CounterInStep ==
  op = "none" /\ ~dirty /\ term = "no" =>
    \A k \in Kind :
      IF up > 0 /\ k \in Parts
        THEN obj[k] = "live" \/ (k = "job" /\ obj[k] = "absent")
        ELSE obj[k] = "absent"

\* StopMicroservice sets the counter back only when nothing is left alive of
\* the objects it knows, no matter which calls failed before.
SuccessfulStopRemoves ==
  [][DeleteNext /\ up > 0 /\ up' = 0 => \A k \in Parts : obj'[k] # "live"]_vars

\* A stop that finds one of the objects missing (the job has expired, or an
\* earlier stop got half way) never succeeds, so its container stays up and,
\* unless multiple, cannot be started until its service is deployed anew.
StopNeedsAll ==
  [][DeleteNext /\ up > 0 /\ up' = 0 => whole]_vars

\* A successful StartProcess repairs whatever earlier processes, failed starts
\* and other declarations left: each object of the container was applied from
\* the present declaration, and stays so until the container is stopped.
StartRepairs ==
  started => \A k \in Parts : made[k] = ms

\* If SIGTERM finds the controller idle, and it stays idle, and no call has
\* failed, the exit leaves nothing alive.
ExitLeavesNothing ==
  term = "exited" /\ ~raced /\ ~dirty => \A k \in Kind : obj[k] # "live"

\* Every container is told its own number, although NewScaleContainer writes
\* them all into one map, and there is a number 1, to which kanbans go.
OwnNumber ==
  LET list == NewScaleContainer(ms)
      Env(n) == Objects(list[n]).workload.template.containers[1].env
  IN /\ 1 \in DOMAIN list
     /\ ~PodPanics(ms) => \A n \in DOMAIN list :
          {v[2] : v \in {e \in Env(n) : e[1] = "MS_NUMBER"}} = {ToString(n)}

\* The objects of a container fit together, and those of different numbers do
\* not meet: each mount has its one volume, the envoy finds its config map, the
\* service and the deployment select this pod and no other, and Delete looks
\* for the names that Apply has made.
PartsFit ==
  ~PodPanics(ms) =>
  LET list == NewScaleContainer(ms) IN
  \A n \in DOMAIN list :
    LET own == Objects(list[n])
        pod == own.workload.template
    IN /\ \A c \in Range(pod.containers) : \A mount \in Range(c.volumeMounts) :
            Cardinality({i \in DOMAIN pod.volumes : pod.volumes[i].name = mount.name}) = 1
       /\ \A v \in Range(pod.volumes) : v.name = <<"envoy">> => v.configMap = own.configMap.name
       /\ \A k \in DOMAIN list :
            Objects(list[k]).workload.template.labels = own.service.selector <=> k = n
       /\ ms.always => own.workload.matchLabels = pod.labels
       /\ own.configMap.name = DeletedConfigMapName(Name, n)
       /\ own.service.meta.name = DeletedServiceName(Name, n)
=============================================================================

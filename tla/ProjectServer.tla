----------------------------- MODULE ProjectServer -----------------------------
(***************************************************************************)
(* The project server of a service broker: Apply and Delete requests, whose*)
(* handlers run concurrently, share p.prj (a pointer to the message of some*)
(* request) almost without its lock and send settings into AionCh.  The    *)
(* receiver is the controller in default mode; in master mode it passes a  *)
(* setting on to one device after the other of those that the setting      *)
(* names, if a worker has joined as that device (SendAionSettingToWorker). *)
(*                                                                         *)
(* Pointers are shared: a setting in AionCh or in use is the message of a  *)
(* request, and a Delete removes services from that message in place.  A   *)
(* message that came by grpc has no nil microservice, so the check in      *)
(* LoadConfigFromGRPC passes and fills in defaults only.                   *)
(***************************************************************************)
EXTENDS Naturals, Sequences

CONSTANTS
  Request,     \* the requests, each the address of its message as well
  NoRequest,   \* the nil pointer
  Op,          \* Op[r]: "apply" or "delete"
  Service,     \* the names of services
  Named,       \* Named[r]: the services in the message of r when it comes in
  Device,      \* the workers (name and address), or the controller alone
  Devices,     \* Devices[r]: those that the message of r names
  Master       \* whether it is a master (TRUE) or in default mode

ASSUME RequestAssumption ==
  /\ NoRequest \notin Request
  /\ Op \in [Request -> {"apply", "delete"}]
  /\ Named \in [Request -> SUBSET Service]
  /\ Devices \in [Request -> SUBSET Device]
  /\ Master \in BOOLEAN
  /\ ~Master => \A r \in Request : Devices[r] = Device

VARIABLES
  prj,         \* p.prj
  services,    \* services[r]: the microservices in the message of r now
  pc,          \* "new", "remove", "load", "push" (at p.AionCh <-), "finish", "answered"
  todo,        \* the services that a Delete has left in its loop
  arg,         \* the setting that a handler has loaded
  aionCh,      \* AionCh, capacity 1
  taken,       \* the setting that its receiver holds
  ltodo,       \* the devices that were not handed it yet
  sent,        \* sent[d]: the services of the setting that d was handed last
  joined,      \* the workers with an entry in ClientStream, which is never removed
  missed,      \* history: the devices that the setting in taken did not get to
  panicked,    \* a nil dereference has ended the process
  last,        \* history: the request that came last
  beside,      \* history: beside[r]: the requests that have run while r ran, and r
  deleted      \* history: services deleted and not applied again

handlerVars == <<prj, services, pc, todo, arg>>
receiverVars == <<taken, ltodo, sent, joined, missed>>
history == <<last, beside, deleted>>
vars == <<handlerVars, aionCh, receiverVars, panicked, history>>

Running(r) == pc[r] \notin {"new", "answered"}

-----------------------------------------------------------------------------
(* Handlers *)

Begin(r) ==
  /\ pc[r] = "new"
  /\ last' = r
  /\ beside' = [q \in Request |->
                  IF q = r THEN {r} \cup {o \in Request : Running(o)}
                  ELSE IF Running(q) THEN beside[q] \cup {r} ELSE beside[q]]

\* Mutant: the setting is loaded before p.prj is replaced.
ApplyLoadsFirst(r) ==
  /\ Op[r] = "apply"
  /\ Begin(r)
  /\ arg' = [arg EXCEPT ![r] = IF prj = NoRequest THEN r ELSE prj]
  /\ prj' = r
  /\ deleted' = deleted \ Named[r]
  /\ pc' = [pc EXCEPT ![r] = "push"]
  /\ UNCHANGED <<services, todo, aionCh, receiverVars, panicked>>

\* Apply: p.prj = receivedAionSetting, the only step under the lock.
Apply(r) ==
  /\ Op[r] = "apply"
  /\ Begin(r)
  /\ prj' = r
  /\ deleted' = deleted \ Named[r]
  /\ pc' = [pc EXCEPT ![r] = "load"]
  /\ UNCHANGED <<services, todo, arg, aionCh, receiverVars, panicked>>

\* Delete enters its loop over the services of its own message.
Delete(r) ==
  /\ Op[r] = "delete"
  /\ Begin(r)
  /\ todo' = [todo EXCEPT ![r] = Named[r]]
  /\ pc' = [pc EXCEPT ![r] = "remove"]
  /\ UNCHANGED <<prj, services, arg, aionCh, receiverVars, panicked, deleted>>

\* Mutant: the services are removed from the message of the Delete.
RemoveFromOwn(r) ==
  /\ pc[r] = "remove"
  /\ \E s \in todo[r] :
       /\ todo' = [todo EXCEPT ![r] = @ \ {s}]
       /\ \/ /\ prj = NoRequest
             /\ panicked' = TRUE
             /\ UNCHANGED services
          \/ /\ prj # NoRequest
             /\ services' = [services EXCEPT ![r] = @ \ {s}]
             /\ UNCHANGED panicked
  /\ UNCHANGED <<prj, pc, arg, aionCh, receiverVars, history>>

\* One round of the loop, in no particular order (a Go map); p.prj is read in
\* every round and may be nil.
Remove(r) ==
  /\ pc[r] = "remove"
  /\ \E s \in todo[r] :
       /\ todo' = [todo EXCEPT ![r] = @ \ {s}]
       /\ \/ /\ prj = NoRequest
             /\ panicked' = TRUE
             /\ UNCHANGED services
          \/ /\ prj # NoRequest
             /\ services' = [services EXCEPT ![prj] = @ \ {s}]
             /\ UNCHANGED panicked
  /\ UNCHANGED <<prj, pc, arg, aionCh, receiverVars, history>>

\* Mutant: what is left is not deployed.
RemoveDoneAnswered(r) ==
  /\ pc[r] = "remove"
  /\ todo[r] = {}
  /\ pc' = [pc EXCEPT ![r] = "finish"]
  /\ UNCHANGED <<prj, services, todo, arg, aionCh, receiverVars, panicked, history>>

RemoveDone(r) ==
  /\ pc[r] = "remove"
  /\ todo[r] = {}
  /\ pc' = [pc EXCEPT ![r] = "load"]
  /\ UNCHANGED <<prj, services, todo, arg, aionCh, receiverVars, panicked, history>>

\* config.LoadConfigFromGRPC(p.prj), without the lock: p.prj may be the
\* message of another request by now.
Load(r) ==
  /\ pc[r] = "load"
  /\ \/ /\ prj = NoRequest
        /\ panicked' = TRUE
        /\ UNCHANGED <<pc, arg>>
     \/ /\ prj # NoRequest
        /\ arg' = [arg EXCEPT ![r] = prj]
        /\ pc' = [pc EXCEPT ![r] = "push"]
        /\ UNCHANGED panicked
  /\ UNCHANGED <<prj, services, todo, aionCh, receiverVars, history>>

\* p.AionCh <- aionSetting blocks while the channel is full.
Push(r) ==
  /\ pc[r] = "push"
  /\ aionCh = <<>>
  /\ aionCh' = <<arg[r]>>
  /\ pc' = [pc EXCEPT ![r] = "finish"]
  /\ UNCHANGED <<prj, services, todo, arg, receiverVars, panicked, history>>

\* Mutant: a Delete leaves no setting behind.
FinishWithNil(r) ==
  /\ pc[r] = "finish"
  /\ prj' = IF Op[r] = "delete" THEN NoRequest ELSE r
  /\ pc' = [pc EXCEPT ![r] = "answered"]
  /\ deleted' = IF Op[r] = "delete" THEN deleted \cup Named[r] ELSE deleted
  /\ UNCHANGED <<services, todo, arg, aionCh, receiverVars, panicked, last, beside>>

\* p.prj becomes the message of the request, the one of a Delete too, and
\* the answer is Success.
Finish(r) ==
  /\ pc[r] = "finish"
  /\ prj' = r
  /\ pc' = [pc EXCEPT ![r] = "answered"]
  /\ deleted' = IF Op[r] = "delete" THEN deleted \cup Named[r] ELSE deleted
  /\ UNCHANGED <<services, todo, arg, aionCh, receiverVars, panicked, last, beside>>

-----------------------------------------------------------------------------
(* The receiver of AionCh *)

\* Mutant: a setting that would change nothing stays in the channel.
TakeIfNew ==
  /\ aionCh # <<>>
  /\ ltodo = {}
  /\ Head(aionCh) # taken
  /\ taken' = Head(aionCh)
  /\ ltodo' = Devices[Head(aionCh)]
  /\ aionCh' = <<>>
  /\ missed' = {}
  /\ UNCHANGED <<handlerVars, sent, joined, panicked, history>>

Take ==
  /\ aionCh # <<>>
  /\ ltodo = {}
  /\ taken' = Head(aionCh)
  /\ ltodo' = Devices[Head(aionCh)]
  /\ aionCh' = <<>>
  /\ missed' = {}
  /\ UNCHANGED <<handlerVars, sent, joined, panicked, history>>

\* One of the devices, in no particular order (a Go map): what the message
\* contains at this moment is sent to it.  A device without an entry in
\* ClientStream is passed over, and an error of SendMsg is only logged.
HandTo(d) ==
  /\ d \in ltodo
  /\ ltodo' = ltodo \ {d}
  /\ \/ /\ d \in joined
        /\ sent' = [sent EXCEPT ![d] = services[taken]]
        /\ UNCHANGED missed
     \/ /\ d \notin joined \/ Master
        /\ missed' = missed \cup {d}
        /\ UNCHANGED sent
  /\ UNCHANGED <<handlerVars, aionCh, taken, joined, panicked, history>>

\* JoinMasterAion of a worker.
Join(d) ==
  /\ Master
  /\ joined' = joined \cup {d}
  /\ UNCHANGED <<handlerVars, aionCh, taken, ltodo, sent, missed, panicked, history>>

-----------------------------------------------------------------------------
Init ==
  /\ prj = NoRequest
  /\ services = Named
  /\ pc = [r \in Request |-> "new"]
  /\ todo = [r \in Request |-> {}]
  /\ arg = [r \in Request |-> NoRequest]
  /\ aionCh = <<>>
  /\ taken = NoRequest
  /\ ltodo = {}
  /\ sent = [d \in Device |-> {}]
  /\ joined = IF Master THEN {} ELSE Device
  /\ missed = {}
  /\ panicked = FALSE
  /\ last = NoRequest
  /\ beside = [r \in Request |-> {}]
  /\ deleted = {}

Handler(r) == Remove(r) \/ RemoveDone(r) \/ Load(r) \/ Push(r) \/ Finish(r)

Receiver == Take \/ \E d \in Device : HandTo(d)

Next ==
  /\ ~panicked
  /\ \/ Receiver
     \/ \E d \in Device : Join(d)
     \/ \E r \in Request : Apply(r) \/ Delete(r) \/ Handler(r)

Spec == Init /\ [][Next]_vars

\* A goroutine that can run does run; requests and workers need not come, and
\* a SendMsg returns in the end.  Senders that wait at a channel are served in
\* their order, so one that can send again and again does.
FairSpec ==
  /\ Spec
  /\ WF_vars(~panicked /\ Receiver)
  /\ \A r \in Request : SF_vars(~panicked /\ Handler(r))

-----------------------------------------------------------------------------
(* Properties *)

\* The types of the server's state and of the handlers' locals.
TypeOK ==
  /\ prj \in Request \cup {NoRequest}
  /\ services \in [Request -> SUBSET Service]
  /\ pc \in [Request -> {"new", "remove", "load", "push", "finish", "answered"}]
  /\ todo \in [Request -> SUBSET Service]
  /\ arg \in [Request -> Request \cup {NoRequest}]
  /\ aionCh \in {<<>>} \cup {<<r>> : r \in Request}
  /\ taken \in Request \cup {NoRequest}
  /\ ltodo \subseteq Device
  /\ sent \in [Device -> SUBSET Service]
  /\ joined \subseteq Device
  /\ missed \subseteq Device
  /\ panicked \in BOOLEAN
  /\ last \in Request \cup {NoRequest}
  /\ beside \in [Request -> SUBSET Request]
  /\ deleted \subseteq Service

\* Nothing is under way: no handler runs and every setting was handed over.
Idle == aionCh = <<>> /\ ltodo = {} /\ \A r \in Request : ~Running(r)

\* The devices that the setting in taken has got to: it names them, they had
\* joined when their turn came and SendMsg did not fail.
Reached == Devices[taken] \ missed

\* A Delete changes the message that is deployed, even while it is handed to
\* one device after the other.  When nothing is under way every device that
\* the setting has got to has been handed what that message contains now, so
\* they all have the same.
DevicesInStep ==
  Idle /\ taken # NoRequest => \A d \in Reached : sent[d] = services[taken]

\* r came last and no other request has run beside it.
Alone(r) == last = r /\ beside[r] = {r}

\* Such an Apply has made its own message the deployed one, and the devices
\* that this has got to have exactly its services; after such a Delete they
\* have none of those it names.  A Delete works on the message that the last
\* request has left behind and so reaches the devices which that one names:
\* none at all after a Delete whose message names none.
LoneRequestDeployed ==
  \A r \in Request : Idle /\ Alone(r) =>
    /\ Op[r] = "apply" => taken = r /\ \A d \in Reached : sent[d] = Named[r]
    /\ Op[r] = "delete" => \A d \in Reached : sent[d] \cap Named[r] = {}

\* Whatever overlaps: when nothing is under way, the deployed setting is the
\* one that some request p loaded, which ran beside the last one, and if p is
\* an Apply it loaded its own message or one of a request that ran beside it.
\* So of two overlapping Applies either may be lost, but the setting of one
\* that was answered before they began does not come back.
OverlapDeployed ==
  Idle /\ last # NoRequest =>
    \E p \in beside[last] :
      taken = arg[p] /\ (Op[p] = "apply" => taken \in beside[p])

\* The nil dereference in Delete and in LoadConfigFromGRPC needs a Delete
\* before the first Apply: it cannot happen later, whatever overlaps.
PanicsOnlyAtFirst ==
  panicked => \A r \in Request : Op[r] = "apply" => pc[r] = "new"

\* Every handler that has begun answers, unless a Delete before the first
\* Apply ends the process.
RequestsAnswered ==
  \A r \in Request : Running(r) ~> pc[r] = "answered" \/ panicked

\* services.yml describes the microservices that are to run: one that was
\* deleted and has not been applied again is not deployed.
DeletedStaysDeleted ==
  Idle /\ (\E r \in Request : Alone(r)) => \A d \in Device : sent[d] \cap deleted = {}
=============================================================================

------------------------ MODULE ScaleContainerProofs ------------------------
(***************************************************************************)
(* The safety properties of ScaleContainer, for any settings in which the  *)
(* service is a job or a deployment, multiple or not, any number of starts *)
(* and any number of restarts.                                             *)
(***************************************************************************)
EXTENDS ScaleContainer, FiniteSetTheorems, TLAPS

\* TypeOK in two parts, for the prover of numbers and the prover of flags.
DataOK ==
  /\ obj \in [Kind -> ObjState]
  /\ made \in [Kind -> Services]
  /\ ms \in Services
  /\ up \in 0..MaxUp
  /\ op \in {"none", "start", "stop"}
  /\ at \in Kind /\ mat \in Kind /\ mwork \in {"job", "deployment"}
  /\ term \in {"no", "stopping", "stopped", "exited"}

FlagsOK ==
  /\ failed \in BOOLEAN /\ redeploy \in BOOLEAN /\ mfailed \in BOOLEAN /\ replaced \in BOOLEAN
  /\ dirty \in BOOLEAN /\ whole \in BOOLEAN /\ started \in BOOLEAN /\ raced \in BOOLEAN

\* The parts of TypeOK, which different provers treat.
LEMMA TypeParts == (TypeOK <=> DataOK /\ FlagsOK) /\ (TypeOK' <=> DataOK' /\ FlagsOK')
  BY DEF TypeOK, DataOK, FlagsOK

\* What StartMicroservice has checked still holds while StartProcess runs, and
\* the calls go through the objects of the container.
CallInStep ==
  /\ op = "start" => up < MaxUp /\ ~redeploy
  /\ op # "none" => at \in Parts
  /\ term = "stopping" => mat \in {"service", mwork, "configMap"}

\* The object is as it should be while its container is up.
Good(k) == obj[k] = "live" \/ (k = "job" /\ obj[k] = "absent")

\* Nothing has gone wrong yet: what has been applied is there, and the rest
\* is as the counter says.
StartInStep ==
  op = "start" /\ ~dirty /\ term = "no" =>
    /\ at # "configMap" => Good("configMap")
    /\ at = "service" => Good(Work(ms))
    /\ \A k \in Kind : IF k \in Parts
                         THEN Good(k) \/ (up = 0 /\ obj[k] = "absent")
                         ELSE obj[k] = "absent"
    /\ up = 0 => /\ obj["service"] = "absent"
                 /\ at = "configMap" => obj["configMap"] = "absent"
                 /\ at # "service" => obj[Work(ms)] = "absent"

\* The stop has had no error yet: what it has deleted is not live, and if an
\* object was missing from the start it has yet to be deleted.
StopInStep ==
  op = "stop" /\ ~failed =>
    /\ at # "service" => obj["service"] # "live"
    /\ at = "configMap" => obj[Work(ms)] # "live"
    /\ ~whole => \/ at = "service" /\ \E k \in Parts : obj[k] = "absent"
                 \/ at = Work(ms) /\ (obj[Work(ms)] = "absent" \/ obj["configMap"] = "absent")
                 \/ at = "configMap" /\ obj["configMap"] = "absent"

\* The entry of a service that is declared again has been stopped.
RedeployStopped == redeploy /\ op = "none" /\ term = "no" => dirty \/ up = 0

\* What a start has applied so far is from the present declaration.
StartFresh ==
  op = "start" =>
    /\ at # "configMap" => made["configMap"] = ms
    /\ at = "service" => made[Work(ms)] = ms

\* While the controller is idle, main's stop leaves nothing behind.
ExitInStep ==
  term # "no" /\ ~raced =>
    /\ op = "none"
    /\ term = "stopping" /\ ~dirty =>
         /\ \A k \in Kind \ {"service", mwork, "configMap"} : obj[k] # "live"
         /\ ~mfailed => /\ mat # "service" => obj["service"] # "live"
                        /\ mat = "configMap" => obj[mwork] # "live"
    /\ term # "stopping" /\ ~dirty => \A k \in Kind : obj[k] # "live"

IInv ==
  /\ TypeOK /\ CallInStep
  /\ CounterInStep /\ StartInStep /\ StopInStep /\ RedeployStopped
  /\ StartFresh /\ StartRepairs
  /\ ExitInStep

\* A service has a job or a deployment as its workload.
LEMMA WorkKind == \A m : Work(m) \in {"job", "deployment"}
  BY DEF Work

\* The invariant holds when the broker has loaded its setting.
LEMMA InitIInv == Init => IInv
<1> SUFFICES ASSUME Init PROVE IInv
  OBVIOUS
<1> USE DEF Init
<1>1. TypeOK
  <2>1. DataOK
    BY MaxUpAssumption DEF DataOK, Kind, ObjState
  <2>2. FlagsOK
    BY Zenon DEF FlagsOK
  <2> QED
    BY <2>1, <2>2, TypeParts
<1>2. CounterInStep
  BY DEF CounterInStep
<1>3. CallInStep /\ StartInStep /\ StopInStep /\ RedeployStopped /\ StartFresh
  BY DEF CallInStep, StartInStep, StopInStep, RedeployStopped, StartFresh
<1>4. StartRepairs /\ ExitInStep
  BY DEF StartRepairs, ExitInStep
<1> QED
  BY <1>1, <1>2, <1>3, <1>4 DEF IInv

\* What a create call may leave behind, and that success leaves a live object.
LEMMA CreateOutcomes ==
  ASSUME NEW o \in ObjState, NEW r \in Create(o)
  PROVE  /\ r.left \in ObjState
         /\ ~Refused(r) => r.left = "live"
<1>1. CASE o = "absent"
  BY <1>1 DEF Create, Outcome, Refused, ObjState
<1>2. CASE o # "absent"
  BY <1>2 DEF Create, Outcome, Refused, ObjState
<1> QED
  BY <1>1, <1>2

\* A Delete makes no object live; a successful one has found the object.
LEMMA DeleteOutcomes ==
  ASSUME NEW k \in Kind, NEW o \in ObjState, NEW r \in Delete(k, o)
  PROVE  /\ r.left \in ObjState
         /\ r.left \in {o, "absent", "terminating"}
         /\ o = "absent" => r.left = "absent"
         /\ ~Refused(r) => o # "absent" /\ r.left # "live"
<1>1. CASE o = "absent"
  BY <1>1 DEF Delete, Outcome, Refused, ObjState
<1>2. CASE o # "absent"
  <2>1. CASE r = Outcome("error", o)
    BY <1>2, <2>1 DEF Outcome, Refused
  <2>2. CASE \E a \in {"ok", "error"}, left \in Leftovers(k) : r = Outcome(a, left)
    BY <1>2, <2>2 DEF Outcome, Refused, Leftovers, ObjState
  <2> QED
    BY <1>2, <2>1, <2>2 DEF Delete
<1> QED
  BY <1>1, <1>2

\* A successful Apply leaves a live object, or one that is being deleted.
LEMMA ApplyOutcomes ==
  ASSUME NEW k \in Kind, NEW o \in ObjState, NEW r \in Apply(k, o)
  PROVE  /\ r.left \in ObjState
         /\ ~Refused(r) /\ o # "terminating" => r.left = "live"
<1>1. CASE r \in Create(o)
  BY <1>1, CreateOutcomes
<1>2. CASE r = Outcome("ok", o) /\ o # "absent"
  BY <1>2 DEF Outcome, Refused, ObjState
<1>3. CASE r \in Delete(k, o) /\ Refused(r)
  BY <1>3, DeleteOutcomes
<1>4. ASSUME NEW d \in Delete(k, o), r \in Create(d.left) PROVE r.left \in ObjState /\ (~Refused(r) => r.left = "live")
  BY <1>4, DeleteOutcomes, CreateOutcomes
<1>5. \/ r \in Create(o)
      \/ r = Outcome("ok", o) /\ o # "absent"
      \/ r \in Delete(k, o) /\ Refused(r)
      \/ \E d \in Delete(k, o) : r \in Create(d.left)
  BY DEF Apply, ApplyByUpdate, ApplyByReplace
<1> QED
  BY <1>1, <1>2, <1>3, <1>4, <1>5

-----------------------------------------------------------------------------
(* The steps that only take something away from kubernetes *)

\* No object becomes live, none comes back, and at most one changes.
Shrinks ==
  \E k \in Kind, left \in ObjState :
    /\ obj' = [obj EXCEPT ![k] = left]
    /\ left \in {obj[k], "absent", "terminating"}
    /\ obj[k] = "absent" => left = "absent"

\* When objects only disappear, none that is gone returns and none comes alive.
LEMMA ShrinkFacts ==
  ASSUME DataOK, Shrinks
  PROVE  /\ obj' \in [Kind -> ObjState]
         /\ \A k \in Kind : obj[k] = "absent" => obj'[k] = "absent"
         /\ \A k \in Kind : obj[k] # "live" => obj'[k] # "live"
  BY DEF DataOK, Shrinks, Kind, ObjState

\* Every kubernetes call and every step of the broker keeps the types.
LEMMA NextTypeOK == IInv /\ [Next]_vars => TypeOK'
<1> SUFFICES ASSUME IInv, [Next]_vars PROVE DataOK' /\ FlagsOK'
  BY TypeParts
<1> USE MaxUpAssumption DEF cluster, container, call, main, history
<1>0. DataOK /\ FlagsOK /\ CallInStep
  BY TypeParts DEF IInv
<1>1. CASE StartMicroservice
  <2>1. DataOK'
    BY <1>0, <1>1 DEF StartMicroservice, DataOK, Kind
  <2>2. FlagsOK'
    BY <1>0, <1>1, Zenon DEF StartMicroservice, FlagsOK
  <2> QED
    BY <2>1, <2>2
<1>2. CASE ApplyNext
  <2>1. PICK r \in Apply(at, obj[at]) :
          obj' = [obj EXCEPT ![at] = r.left] /\ EndStart(r)
    BY <1>2 DEF ApplyNext
  <2>2. r.left \in ObjState
    BY <1>0, <2>1, ApplyOutcomes DEF DataOK
  <2>3. op = "start" /\ ms' = ms /\ mat' = mat /\ mwork' = mwork /\ term' = term
    BY <1>2 DEF ApplyNext
  <2>4. made' \in [Kind -> Services]
    BY <1>0, <1>2 DEF ApplyNext, DataOK
  <2>5. up' \in 0..MaxUp /\ op' \in {"none", "start", "stop"} /\ at' \in Kind
    BY <1>0, <2>1, <2>3, WorkKind DEF EndStart, DataOK, CallInStep, Kind
  <2>6. DataOK'
    BY <1>0, <2>1, <2>2, <2>3, <2>4, <2>5 DEF DataOK
  <2>7. dirty' \in BOOLEAN /\ started' \in BOOLEAN
    BY <1>0, <2>1, Zenon DEF EndStart, FlagsOK
  <2>8. FlagsOK'
    BY <1>0, <1>2, <2>7, Zenon DEF ApplyNext, FlagsOK
  <2> QED
    BY <2>6, <2>8
<1>3. CASE StopMicroservice
  <2>1. DataOK'
    BY <1>0, <1>3 DEF StopMicroservice, DataOK, Kind
  <2>2. FlagsOK'
    BY <1>0, <1>3, Zenon DEF StopMicroservice, FlagsOK
  <2> QED
    BY <2>1, <2>2
<1>4. CASE DeleteNext
  <2>1. PICK r \in Delete(at, obj[at]) :
          /\ obj' = [obj EXCEPT ![at] = r.left]
          /\ failed' = (failed \/ Refused(r))
          /\ IF at = "configMap"
               THEN /\ op' = "none"
                    /\ up' = IF failed \/ Refused(r) THEN up ELSE 0
                    /\ dirty' = ((failed \/ Refused(r)) \/ \E k \in Kind : obj'[k] # "absent")
                    /\ UNCHANGED at
               ELSE at' = AfterDelete(at) /\ UNCHANGED <<op, up, dirty>>
    BY <1>4 DEF DeleteNext
  <2>2. r.left \in ObjState
    BY <1>0, <2>1, DeleteOutcomes DEF DataOK
  <2>3. AfterDelete(at) \in Kind
    BY WorkKind DEF AfterDelete, Kind
  <2>4. DataOK'
    BY <1>0, <1>4, <2>1, <2>2, <2>3 DEF DeleteNext, DataOK
  <2>5. FlagsOK'
    BY <1>0, <1>4, <2>1, Zenon DEF DeleteNext, FlagsOK
  <2> QED
    BY <2>4, <2>5
<1>5. CASE SetMicroservice
  <2>1. DataOK'
    BY <1>0, <1>5 DEF SetMicroservice, DataOK
  <2>2. FlagsOK'
    BY <1>0, <1>5, Zenon DEF SetMicroservice, FlagsOK
  <2> QED
    BY <2>1, <2>2
<1>6. CASE Restart
  <2>1. DataOK'
    BY <1>0, <1>6 DEF Restart, DataOK, Kind
  <2>2. FlagsOK'
    BY <1>0, <1>6, Zenon DEF Restart, FlagsOK
  <2> QED
    BY <2>1, <2>2
<1>7. CASE Sigterm
  <2>1. DataOK'
    BY <1>0, <1>7, WorkKind DEF Sigterm, DataOK, Kind
  <2>2. FlagsOK'
    BY <1>0, <1>7, Zenon DEF Sigterm, FlagsOK
  <2> QED
    BY <2>1, <2>2
<1>8. CASE MainDelete
  <2>1. PICK r \in Delete(mat, obj[mat]) :
          /\ obj' = [obj EXCEPT ![mat] = r.left]
          /\ mfailed' = (mfailed \/ Refused(r))
          /\ IF mat = "configMap"
               THEN /\ term' = "stopped"
                    /\ up' = IF (mfailed \/ Refused(r)) \/ replaced THEN up ELSE 0
                    /\ dirty' = (dirty \/ (mfailed \/ Refused(r)))
                    /\ UNCHANGED mat
               ELSE /\ mat' = IF mat = "service" THEN mwork ELSE "configMap"
                    /\ UNCHANGED <<term, up, dirty>>
    BY <1>8 DEF MainDelete
  <2>2. r.left \in ObjState
    BY <1>0, <2>1, DeleteOutcomes DEF DataOK
  <2>3. mat' \in Kind
    BY <1>0, <2>1 DEF DataOK, Kind
  <2>4. DataOK'
    BY <1>0, <1>8, <2>1, <2>2, <2>3 DEF MainDelete, DataOK
  <2>5. FlagsOK'
    BY <1>0, <1>8, <2>1, Zenon DEF MainDelete, FlagsOK
  <2> QED
    BY <2>4, <2>5
<1>9. CASE Exit
  <2>1. DataOK'
    BY <1>0, <1>9 DEF Exit, DataOK
  <2>2. FlagsOK'
    BY <1>0, <1>9, Zenon DEF Exit, FlagsOK
  <2> QED
    BY <2>1, <2>2
<1>10. CASE JobExpires \/ \E k \in Kind : Finalize(k)
  <2>1. DataOK'
    BY <1>0, <1>10 DEF JobExpires, Finalize, DataOK, Kind, ObjState
  <2>2. FlagsOK'
    BY <1>0, <1>10, Zenon DEF JobExpires, Finalize, FlagsOK
  <2> QED
    BY <2>1, <2>2
<1>11. CASE UNCHANGED vars
  BY <1>0, <1>11 DEF vars, DataOK, FlagsOK
<1> QED
  BY <1>1, <1>2, <1>3, <1>4, <1>5, <1>6, <1>7, <1>8, <1>9, <1>10, <1>11 DEF Next

-----------------------------------------------------------------------------
(* The calls, and what they leave *)

\* A call works on the objects of the container that it was started for.
LEMMA NextCallInStep == IInv /\ [Next]_vars => CallInStep'
<1> SUFFICES ASSUME IInv, [Next]_vars PROVE CallInStep'
  OBVIOUS
<1> USE MaxUpAssumption DEF cluster, container, call, main, history, CallInStep, Parts
<1>0. DataOK /\ CallInStep
  BY TypeParts DEF IInv
<1>1. CASE StartMicroservice
  BY <1>0, <1>1 DEF StartMicroservice
<1>2. CASE ApplyNext
  BY <1>0, <1>2 DEF ApplyNext, EndStart
<1>3. CASE StopMicroservice
  BY <1>0, <1>3 DEF StopMicroservice
<1>4. CASE DeleteNext
  BY <1>0, <1>4 DEF DeleteNext, AfterDelete
<1>5. CASE SetMicroservice
  BY <1>0, <1>5 DEF SetMicroservice
<1>6. CASE Restart
  BY <1>6 DEF Restart
<1>7. CASE Sigterm
  BY <1>0, <1>7 DEF Sigterm
<1>8. CASE MainDelete
  <2>1. up' = up \/ up' = 0
    BY <1>8 DEF MainDelete
  <2>2. term' = "stopping" => mat' \in {"service", mwork', "configMap"}
    BY <1>8 DEF MainDelete
  <2> QED
    BY <1>0, <1>8, <2>1, <2>2 DEF MainDelete, DataOK
<1>9. CASE Exit
  BY <1>0, <1>9 DEF Exit
<1>10. CASE JobExpires \/ \E k \in Kind : Finalize(k)
  BY <1>0, <1>10 DEF JobExpires, Finalize
<1>11. CASE UNCHANGED vars
  BY <1>0, <1>11 DEF vars
<1> QED
  BY <1>1, <1>2, <1>3, <1>4, <1>5, <1>6, <1>7, <1>8, <1>9, <1>10, <1>11 DEF Next

\* Finalizers, expiring jobs and the Deletes only take away.
LEMMA Shrinking ==
  ASSUME IInv, DeleteNext \/ MainDelete \/ JobExpires \/ \E k \in Kind : Finalize(k)
  PROVE  Shrinks
<1>0. DataOK
  BY TypeParts DEF IInv
<1>1. CASE DeleteNext
  <2>1. PICK r \in Delete(at, obj[at]) : obj' = [obj EXCEPT ![at] = r.left]
    BY <1>1 DEF DeleteNext
  <2> QED
    BY <1>0, <2>1, DeleteOutcomes DEF Shrinks, DataOK
<1>2. CASE MainDelete
  <2>1. PICK r \in Delete(mat, obj[mat]) : obj' = [obj EXCEPT ![mat] = r.left]
    BY <1>2 DEF MainDelete
  <2> QED
    BY <1>0, <2>1, DeleteOutcomes DEF Shrinks, DataOK
<1>3. CASE JobExpires
  BY <1>0, <1>3 DEF JobExpires, Shrinks, Kind, ObjState
<1>4. CASE \E k \in Kind : Finalize(k)
  BY <1>0, <1>4 DEF Finalize, Shrinks, Kind, ObjState
<1> QED
  BY <1>1, <1>2, <1>3, <1>4

\* A stop goes through service, workload and config map, whatever happens meanwhile.
LEMMA NextStopInStep == IInv /\ [Next]_vars => StopInStep'
<1> SUFFICES ASSUME IInv, [Next]_vars PROVE StopInStep'
  OBVIOUS
<1> USE DEF cluster, container, call, main, history
<1>0. DataOK /\ CallInStep /\ StopInStep
  BY TypeParts DEF IInv
<1>1. CASE StartMicroservice \/ SetMicroservice \/ Restart
  BY <1>1 DEF StartMicroservice, SetMicroservice, Restart, StopInStep
<1>2. CASE ApplyNext
  <2>1. op' # "stop"
    BY <1>2 DEF ApplyNext, EndStart
  <2> QED
    BY <2>1 DEF StopInStep
<1>3. CASE StopMicroservice
  BY <1>0, <1>3, WorkKind DEF StopMicroservice, StopInStep, Parts, DataOK
<1>4. CASE DeleteNext
  <2>1. PICK r \in Delete(at, obj[at]) :
          /\ obj' = [obj EXCEPT ![at] = r.left]
          /\ failed' = (failed \/ Refused(r))
          /\ IF at = "configMap" THEN op' = "none" ELSE at' = AfterDelete(at) /\ op' = op
    BY <1>4 DEF DeleteNext
  <2>2. ~Refused(r) => obj[at] # "absent" /\ r.left # "live"
    BY <1>0, <2>1, DeleteOutcomes DEF DataOK
  <2> QED
    BY <1>0, <1>4, <2>1, <2>2, WorkKind
    DEF DeleteNext, StopInStep, CallInStep, Parts, AfterDelete, DataOK, Kind
<1>5. CASE MainDelete \/ JobExpires \/ \E k \in Kind : Finalize(k)
  <2>1. /\ \A k \in Kind : obj[k] = "absent" => obj'[k] = "absent"
        /\ \A k \in Kind : obj[k] # "live" => obj'[k] # "live"
    BY <1>0, <1>5, Shrinking, ShrinkFacts
  <2>2. UNCHANGED <<op, at, failed, whole, ms>>
    BY <1>5 DEF MainDelete, JobExpires, Finalize
  <2>3. Parts \subseteq Kind /\ Work(ms) \in Kind /\ {"configMap", "service"} \subseteq Kind
    BY WorkKind DEF Parts, Kind
  <2> QED
    BY <1>0, <2>1, <2>2, <2>3 DEF StopInStep, Parts
<1>6. CASE Sigterm \/ Exit \/ UNCHANGED vars
  BY <1>0, <1>6 DEF Sigterm, Exit, vars, StopInStep, Parts
<1> QED
  BY <1>1, <1>2, <1>3, <1>4, <1>5, <1>6 DEF Next

-----------------------------------------------------------------------------
(* What is applied *)

\* What a start applies comes from the present declaration, at every step.
LEMMA NextFresh == IInv /\ [Next]_vars => StartFresh' /\ StartRepairs'
<1> SUFFICES ASSUME IInv, [Next]_vars PROVE StartFresh' /\ StartRepairs'
  OBVIOUS
<1> USE DEF cluster, container, call, main, history
<1>0. DataOK /\ CallInStep /\ StartFresh /\ StartRepairs
  BY TypeParts DEF IInv
<1>1. CASE StartMicroservice
  <2>1. at' = "configMap" /\ UNCHANGED <<made, ms, started>>
    BY <1>1 DEF StartMicroservice
  <2> QED
    BY <1>0, <2>1 DEF StartFresh, StartRepairs, Parts
<1>5. CASE StopMicroservice \/ SetMicroservice \/ Restart
  <2>1. op' # "start" /\ ~started'
    BY <1>5 DEF StopMicroservice, SetMicroservice, Restart
  <2> QED
    BY <2>1 DEF StartFresh, StartRepairs
<1>2. CASE ApplyNext
  <2>1. PICK r \in Apply(at, obj[at]) :
          /\ made' = [made EXCEPT ![at] = ms] \/ (Refused(r) /\ made' = made)
          /\ EndStart(r)
    BY <1>2 DEF ApplyNext
  <2>2. op = "start" /\ ms' = ms
    BY <1>2 DEF ApplyNext
  <2>3. CASE Refused(r)
    <3>1. op' = "none" /\ started' = started
      BY <2>1, <2>3 DEF EndStart
    <3>2. \A k \in Parts : made[k] = ms => made'[k] = ms
      BY <1>0, <2>1, WorkKind DEF Parts, DataOK, Kind
    <3> QED
      BY <1>0, <2>2, <3>1, <3>2 DEF StartFresh, StartRepairs, Parts
  <2>4. CASE ~Refused(r)
    BY <1>0, <2>1, <2>2, <2>4, WorkKind
    DEF EndStart, StartFresh, StartRepairs, CallInStep, Parts, DataOK, Kind
  <2> QED
    BY <2>3, <2>4
<1>3. CASE DeleteNext
  <2>1. op' # "start"
    BY <1>3 DEF DeleteNext
  <2> QED
    BY <1>0, <1>3, <2>1 DEF DeleteNext, StartFresh, StartRepairs, Parts
<1>4. CASE MainDelete \/ Sigterm \/ Exit \/ JobExpires \/ (\E k \in Kind : Finalize(k)) \/ UNCHANGED vars
  <2>1. UNCHANGED <<op, at, made, ms, started>>
    BY <1>4 DEF MainDelete, Sigterm, Exit, JobExpires, Finalize, vars
  <2> QED
    BY <1>0, <2>1 DEF StartFresh, StartRepairs, Parts
<1> QED
  BY <1>1, <1>2, <1>3, <1>4, <1>5 DEF Next

-----------------------------------------------------------------------------
(* The counter *)

\* The counter agrees with the objects between calls, and during a start in part.
LEMMA NextCounter ==
  IInv /\ [Next]_vars => CounterInStep' /\ StartInStep' /\ RedeployStopped'
<1> SUFFICES ASSUME IInv, [Next]_vars PROVE CounterInStep' /\ StartInStep' /\ RedeployStopped'
  OBVIOUS
<1> USE DEF cluster, container, call, main, history
<1>0. DataOK /\ CallInStep /\ CounterInStep /\ StartInStep /\ RedeployStopped
  BY TypeParts DEF IInv
<1>00. DataOK'
  BY NextTypeOK, TypeParts
<1>1. CASE StartMicroservice
  <2>1. /\ op = "none" /\ op' = "start" /\ at' = "configMap"
        /\ UNCHANGED <<obj, ms, up, term, dirty>>
    BY <1>1 DEF StartMicroservice
  <2>2. StartInStep'
    BY <1>0, <2>1, WorkKind DEF CounterInStep, StartInStep, Good, Parts, DataOK, Kind
  <2> QED
    BY <2>1, <2>2 DEF CounterInStep, RedeployStopped
<1>2. CASE ApplyNext
  <2>1. PICK r \in Apply(at, obj[at]) : obj' = [obj EXCEPT ![at] = r.left] /\ EndStart(r)
    BY <1>2 DEF ApplyNext
  <2>2. /\ r.left \in ObjState
        /\ ~Refused(r) /\ obj[at] # "terminating" => r.left = "live"
    BY <1>0, <2>1, ApplyOutcomes DEF DataOK
  <2>3. op = "start" /\ UNCHANGED <<ms, term, redeploy>> /\ at \in Parts
    BY <1>0, <1>2 DEF ApplyNext, CallInStep
  <2>4. CASE Refused(r)
    <3>1. op' = "none" /\ dirty'
      BY <2>1, <2>4 DEF EndStart
    <3> QED
      BY <3>1 DEF CounterInStep, StartInStep, RedeployStopped
  <2>5. CASE ~Refused(r) /\ at = "service"
    <3>1. op' = "none" /\ up' = up + 1 /\ dirty' = dirty /\ ~redeploy'
      BY <1>0, <2>1, <2>3, <2>5 DEF EndStart, CallInStep
    <3>2. CounterInStep'
      BY <1>0, <2>1, <2>2, <2>3, <2>5, <3>1, WorkKind
      DEF CounterInStep, StartInStep, Good, Parts, DataOK, Kind
    <3> QED
      BY <3>1, <3>2 DEF StartInStep, RedeployStopped
  <2>6. CASE ~Refused(r) /\ at # "service"
    <3>1. /\ op' = op /\ UNCHANGED <<up, dirty>>
          /\ at' = IF at = "configMap" THEN Work(ms) ELSE "service"
      BY <2>1, <2>6 DEF EndStart
    <3>2. StartInStep'
      BY <1>0, <2>1, <2>2, <2>3, <2>6, <3>1, WorkKind
      DEF StartInStep, Good, Parts, DataOK, Kind
    <3> QED
      BY <2>3, <3>1, <3>2 DEF CounterInStep, RedeployStopped
  <2> QED
    BY <2>4, <2>5, <2>6
<1>3. CASE StopMicroservice
  BY <1>3 DEF StopMicroservice, CounterInStep, StartInStep, RedeployStopped
<1>4. CASE DeleteNext
  <2>1. CASE at = "configMap"
    <3>1. op' = "none" /\ (~dirty' => up' = 0 /\ \A k \in Kind : obj'[k] = "absent")
      BY <1>4, <2>1 DEF DeleteNext
    <3> QED
      BY <3>1 DEF CounterInStep, StartInStep, RedeployStopped
  <2>2. CASE at # "configMap"
    <3>1. op' = "stop"
      BY <1>4, <2>2 DEF DeleteNext
    <3> QED
      BY <3>1 DEF CounterInStep, StartInStep, RedeployStopped
  <2> QED
    BY <2>1, <2>2
<1>5. CASE SetMicroservice
  <2>1. /\ op = "none" /\ op' = "none" /\ ~redeploy' /\ (redeploy \/ up = 0) /\ up' = 0
        /\ UNCHANGED <<obj, term, dirty>>
    BY <1>5 DEF SetMicroservice
  <2> QED
    BY <1>0, <2>1 DEF CounterInStep, StartInStep, RedeployStopped, DataOK
<1>6. CASE Restart
  BY <1>6 DEF Restart, CounterInStep, StartInStep, RedeployStopped
<1>7. CASE Sigterm \/ MainDelete \/ Exit
  <2>1. term' # "no"
    BY <1>7 DEF Sigterm, MainDelete, Exit
  <2> QED
    BY <2>1 DEF CounterInStep, StartInStep, RedeployStopped
<1>8. CASE JobExpires \/ \E k \in Kind : Finalize(k)
  <2>1. UNCHANGED <<ms, up, op, at, redeploy, term, dirty>>
    BY <1>8 DEF JobExpires, Finalize
  <2>2. \A k \in Kind : obj'[k] = obj[k] \/ (obj'[k] = "absent" /\ (k = "job" \/ obj[k] = "terminating"))
    BY <1>0, <1>8 DEF JobExpires, Finalize, DataOK
  <2>3. Parts \subseteq Kind /\ Work(ms) \in Kind /\ {"configMap", "service"} \subseteq Kind
    BY WorkKind DEF Parts, Kind
  <2>4. Parts' = Parts
    BY <2>1 DEF Parts
  <2>5. \A k \in Kind : Good(k) => Good(k)'
    BY <2>2 DEF Good
  <2>6. \A k \in Kind : obj[k] = "absent" => obj'[k] = "absent"
    BY <2>2
  <2>7. CounterInStep'
    BY <1>0, <2>1, <2>2, <2>4 DEF CounterInStep
  <2>8. StartInStep'
    BY <1>0, <2>1, <2>3, <2>4, <2>5, <2>6 DEF StartInStep
  <2> QED
    BY <1>0, <2>1, <2>7, <2>8 DEF RedeployStopped
<1>9. CASE UNCHANGED vars
  BY <1>0, <1>9 DEF vars, CounterInStep, StartInStep, RedeployStopped, Good, Parts
<1> QED
  BY <1>1, <1>2, <1>3, <1>4, <1>5, <1>6, <1>7, <1>8, <1>9 DEF Next

-----------------------------------------------------------------------------
(* The exit *)

\* The stop of main after SIGTERM leaves nothing it has been through.
LEMMA NextExit == IInv /\ [Next]_vars => ExitInStep'
<1> SUFFICES ASSUME IInv, [Next]_vars, term' # "no", ~raced' PROVE ExitInStep'
  BY DEF ExitInStep
<1> USE DEF cluster, container, call, main, history
<1>0. DataOK /\ CallInStep /\ ExitInStep /\ CounterInStep
  BY TypeParts DEF IInv
<1>1. CASE Sigterm
  <2>1. /\ op = "none" /\ term = "no" /\ mat' = "service" /\ mwork' = Work(ms)
        /\ term' = IF up > 0 THEN "stopping" ELSE "stopped"
        /\ UNCHANGED <<obj, op, dirty>>
    BY <1>1 DEF Sigterm
  <2> QED
    BY <1>0, <2>1 DEF ExitInStep, CounterInStep, Parts, DataOK
<1>2. CASE MainDelete
  <2>1. PICK r \in Delete(mat, obj[mat]) :
          /\ obj' = [obj EXCEPT ![mat] = r.left]
          /\ mfailed' = (mfailed \/ Refused(r))
          /\ IF mat = "configMap"
               THEN term' = "stopped" /\ dirty' = (dirty \/ (mfailed \/ Refused(r)))
               ELSE /\ mat' = IF mat = "service" THEN mwork ELSE "configMap"
                    /\ UNCHANGED <<term, dirty>>
    BY <1>2 DEF MainDelete
  <2>2. r.left \in {obj[mat], "absent", "terminating"} /\ (~Refused(r) => r.left # "live")
    BY <1>0, <2>1, DeleteOutcomes DEF DataOK
  <2>3. term = "stopping" /\ UNCHANGED <<op, raced, mwork>>
    BY <1>2 DEF MainDelete
  <2>4. mat \in {"service", mwork, "configMap"}
    BY <1>0, <2>3 DEF CallInStep
  <2> QED
    BY <1>0, <2>1, <2>2, <2>3, <2>4 DEF ExitInStep, DataOK, Kind
<1>3. CASE Exit
  <2>1. term = "stopped" /\ term' = "exited" /\ UNCHANGED <<obj, op, dirty, raced>>
    BY <1>3 DEF Exit
  <2> QED
    BY <1>0, <2>1 DEF ExitInStep
<1>4. CASE StartMicroservice \/ StopMicroservice
  BY <1>4 DEF StartMicroservice, StopMicroservice
<1>5. CASE ApplyNext \/ DeleteNext
  <2>1. op # "none" /\ UNCHANGED <<term, raced>>
    BY <1>5 DEF ApplyNext, DeleteNext
  <2> QED
    BY <1>0, <2>1 DEF ExitInStep
<1>6. CASE SetMicroservice \/ UNCHANGED vars
  <2>1. UNCHANGED <<obj, op, term, mat, mwork, mfailed, dirty, raced>>
    BY <1>6 DEF SetMicroservice, vars
  <2> QED
    BY <1>0, <2>1 DEF ExitInStep
<1>7. CASE Restart
  BY <1>7 DEF Restart
<1>8. CASE JobExpires \/ \E k \in Kind : Finalize(k)
  <2>1. \A k \in Kind : obj[k] # "live" => obj'[k] # "live"
    BY <1>0, <1>8, Shrinking, ShrinkFacts
  <2>2. UNCHANGED <<op, term, mat, mwork, mfailed, dirty, raced>>
    BY <1>8 DEF JobExpires, Finalize
  <2> QED
    BY <1>0, <2>1, <2>2 DEF ExitInStep, DataOK, Kind
<1> QED
  BY <1>1, <1>2, <1>3, <1>4, <1>5, <1>6, <1>7, <1>8 DEF Next

-----------------------------------------------------------------------------
(* The theorems *)

\* The inductive invariant holds throughout, for any settings and restarts.
THEOREM IInvHolds == Spec => []IInv
<1>1. IInv /\ [Next]_vars => IInv'
  BY NextTypeOK, NextCallInStep, NextStopInStep, NextFresh, NextCounter, NextExit DEF IInv
<1> QED
  BY <1>1, InitIInv, PTL DEF Spec

\* Every variable keeps to its type: the counter stays within its bound, and
\* an object is only applied from an entry that has been deployed.
THEOREM TypeCorrect == Spec => []TypeOK
<1>1. IInv => TypeOK
  BY DEF IInv
<1> QED
  BY <1>1, IInvHolds, PTL

\* Between calls, and while nothing has gone wrong, NumOfUpState agrees with
\* the objects in kubernetes.
THEOREM CounterCorrect == Spec => []CounterInStep
<1>1. IInv => CounterInStep
  BY DEF IInv
<1> QED
  BY <1>1, IInvHolds, PTL

\* A started container has no object of an earlier declaration, whatever
\* crashed processes and failed starts had left behind.
THEOREM StartsAfresh == Spec => []StartRepairs
<1>1. IInv => StartRepairs
  BY DEF IInv
<1> QED
  BY <1>1, IInvHolds, PTL

\* An exit on SIGTERM that the controller does not race, and in which no call
\* fails, leaves no object alive.
THEOREM ExitIsClean == Spec => []ExitLeavesNothing
<1>1. IInv => ExitLeavesNothing
  BY DEF IInv, ExitInStep, ExitLeavesNothing
<1> QED
  BY <1>1, IInvHolds, PTL

\* The step by which StopMicroservice sets the counter back: the last Delete of
\* a stop without errors.
LEMMA LastDelete ==
  ASSUME IInv, DeleteNext, up > 0, up' = 0
  PROVE  /\ at = "configMap" /\ ~failed
         /\ obj["configMap"] # "absent"
         /\ \E left \in ObjState \ {"live"} : obj' = [obj EXCEPT !["configMap"] = left]
<1>0. DataOK
  BY TypeParts DEF IInv
<1>1. PICK r \in Delete(at, obj[at]) :
        /\ obj' = [obj EXCEPT ![at] = r.left]
        /\ IF at = "configMap" THEN up' = IF failed \/ Refused(r) THEN up ELSE 0 ELSE up' = up
  BY DEF DeleteNext
<1>2. at = "configMap" /\ ~failed /\ ~Refused(r)
  BY <1>0, <1>1 DEF DataOK
<1>3. r.left \in ObjState /\ obj[at] # "absent" /\ r.left # "live"
  BY <1>0, <1>2, DeleteOutcomes DEF DataOK
<1> QED
  BY <1>1, <1>2, <1>3

\* A StopMicroservice that returns no error has left no object alive.
THEOREM StopRemoves == Spec => SuccessfulStopRemoves
<1>1. IInv => [DeleteNext /\ up > 0 /\ up' = 0 => \A k \in Parts : obj'[k] # "live"]_vars
  <2> SUFFICES ASSUME IInv, DeleteNext, up > 0, up' = 0
               PROVE  \A k \in Parts : obj'[k] # "live"
    OBVIOUS
  <2>1. DataOK /\ StopInStep /\ op = "stop"
    BY TypeParts DEF IInv, DeleteNext
  <2> QED
    BY <2>1, LastDelete, WorkKind DEF DataOK, StopInStep, Parts, Kind
<1> QED
  BY <1>1, IInvHolds, PTL DEF SuccessfulStopRemoves

\* A stop of a container that lacks an object never succeeds.
THEOREM StopOfPartFails == Spec => StopNeedsAll
<1>1. IInv => [DeleteNext /\ up > 0 /\ up' = 0 => whole]_vars
  <2> SUFFICES ASSUME IInv, DeleteNext, up > 0, up' = 0
               PROVE  whole
    OBVIOUS
  <2>1. StopInStep /\ op = "stop"
    BY DEF IInv, DeleteNext
  <2> QED
    BY <2>1, LastDelete, WorkKind DEF StopInStep
<1> QED
  BY <1>1, IInvHolds, PTL DEF StopNeedsAll

-----------------------------------------------------------------------------
(* The objects of the containers: what they are made from *)

\* The keys of an entry of services.yml.
EntryKeys == DOMAIN YamlMicroservice

\* Loading keeps the types that the YAML value has, and makes the scale positive.
LEMMA LoadedTypes ==
  ASSUME NEW m, DOMAIN m = EntryKeys,
         m.scale \in Int, m.volumeMountPathList \in Seq(Seq(STRING))
  PROVE  LET loaded == InitialMicroservice([m EXCEPT !.nextService = Map(@)]) IN
         /\ DOMAIN loaded = EntryKeys
         /\ loaded.scale \in Nat \ {0}
         /\ loaded.always = m.always
         /\ loaded.volumeMountPathList = m.volumeMountPathList
<1> DEFINE D == EntryKeys
           mapped == [m EXCEPT !.nextService = Map(@)]
<1>1. {"scale", "always", "volumeMountPathList", "nextService"} \subseteq D
  BY DEF EntryKeys, YamlMicroservice
<1>2. DOMAIN m = D
  OBVIOUS
<1> HIDE DEF D
<1>3. /\ DOMAIN mapped = D /\ mapped.scale = m.scale /\ mapped.always = m.always
      /\ mapped.volumeMountPathList = m.volumeMountPathList
  BY <1>1, <1>2
<1> HIDE DEF mapped
<1> DEFINE loaded == InitialMicroservice(mapped)
<1>4. DOMAIN loaded = D /\ loaded.always = mapped.always
      /\ loaded.volumeMountPathList = mapped.volumeMountPathList
  BY <1>1, <1>3 DEF InitialMicroservice
<1>5. loaded.scale = IF mapped.scale <= 0 THEN 1 ELSE mapped.scale
  BY <1>1, <1>3 DEF InitialMicroservice
<1>6. loaded.scale \in Nat \ {0}
  BY <1>3, <1>5
<1> QED
  BY <1>3, <1>4, <1>6 DEF D, mapped

\* A service that the controller knows comes from an entry of a file.
LEMMA ServiceTypes ==
  ASSUME NEW m \in Services
  PROVE  /\ DOMAIN m = EntryKeys
         /\ m.scale \in Nat \ {0}
         /\ m.always \in BOOLEAN
         /\ m.volumeMountPathList \in Seq(Seq(STRING))
<1>1. PICK file \in Files :
        /\ LoadConfigFromDirectory(file).answer = "ok"
        /\ Declares(LoadConfigFromDirectory(file).setting, Name)
        /\ m = Entry(LoadConfigFromDirectory(file).setting)
  BY DEF Services
<1>2. file # Nil /\ ~Unmappable(file)
  BY <1>1 DEF LoadConfigFromDirectory
<1>3. LoadConfigFromDirectory(file) = LoadConfigFromGRPC(mapToGRPCAionSetting(file))
  BY <1>2 DEF LoadConfigFromDirectory
<1>4. LoadConfigFromDirectory(file).setting = setInitializeValue(mapToGRPCAionSetting(file))
  BY <1>1, <1>3 DEF LoadConfigFromGRPC
<1> DEFINE list == Map(file.microservices)
           mapped == mapToGRPCAionSetting(file)
           set == setInitializeValue(mapped)
<1>5. DOMAIN file = {"microservices", "devices", "deviceName", "debug"}
  BY <1>2, FileAssumption
<1>6. DOMAIN mapped = DOMAIN file
      /\ mapped.microservices =
           [s \in DOMAIN list |-> [list[s] EXCEPT !.nextService = Map(list[s].nextService)]]
  BY <1>5 DEF mapToGRPCAionSetting
<1> HIDE DEF mapped
<1>7. set.microservices = [s \in DOMAIN list |-> InitialMicroservice(mapped.microservices[s])]
  BY <1>5, <1>6 DEF setInitializeValue
<1>8. Name \in DOMAIN list
  BY <1>1, <1>4, <1>7 DEF Declares, mapped
<1> DEFINE entry == list[Name]
           loaded == InitialMicroservice([entry EXCEPT !.nextService = Map(@)])
<1>9. set.microservices[Name] = loaded
  BY <1>6, <1>7, <1>8
<1>10. entry \in Range(list) /\ entry # Nil
  BY <1>2, <1>8 DEF Unmappable, NullEntry, Range
<1>11. /\ DOMAIN entry = EntryKeys /\ entry.scale \in Int /\ entry.always \in BOOLEAN
       /\ entry.volumeMountPathList \in Seq(Seq(STRING))
  BY <1>2, <1>10, FileAssumption DEF EntryKeys
<1> HIDE DEF entry
<1>12. /\ DOMAIN loaded = EntryKeys /\ loaded.scale \in Nat \ {0} /\ loaded.always = entry.always
       /\ loaded.volumeMountPathList = entry.volumeMountPathList
  BY <1>11, LoadedTypes
<1> HIDE DEF loaded
<1>13. m = Entry(set)
  BY <1>1, <1>4 DEF mapped
<1>14. \E v : m = [loaded EXCEPT !.env = v]
  BY <1>9, <1>13 DEF Entry
<1>15. {"scale", "always", "volumeMountPathList", "env"} \subseteq EntryKeys
  BY DEF EntryKeys, YamlMicroservice
<1> QED
  BY <1>11, <1>12, <1>14, <1>15

\* Container n of the list, and what an assignment to its Env map has left.
LEMMA Numbered ==
  ASSUME NEW m \in Services, NEW n \in DOMAIN NewScaleContainer(m)
  PROVE  LET c == NewScaleContainer(m)[n] IN
         /\ n \in 1..m.scale
         /\ c.serviceName = Name /\ c.number = n
         /\ c.data.env = Put(m.env, "MS_NUMBER", ToString(n))
         /\ c.data.always = m.always
         /\ c.data.volumeMountPathList = m.volumeMountPathList
<1>1. DOMAIN m = EntryKeys /\ {"env", "always", "volumeMountPathList"} \subseteq EntryKeys
  BY ServiceTypes DEF EntryKeys, YamlMicroservice
<1> DEFINE data == [m EXCEPT !.env = Put(@, "MS_NUMBER", ToString(n))]
<1>2. n \in 1..m.scale
  BY DEF NewScaleContainer
<1>3. NewScaleContainer(m)[n] = [serviceName |-> Name, data |-> data, number |-> n]
  BY <1>2 DEF NewScaleContainer, NewContainerMicroservice
<1>4. /\ data.env = Put(m.env, "MS_NUMBER", ToString(n))
      /\ data.always = m.always
      /\ data.volumeMountPathList = m.volumeMountPathList
  BY <1>1
<1> HIDE DEF data
<1> QED
  BY <1>2, <1>3, <1>4

\* The service's container in the pod, and the names that refer to it.
LEMMA ObjectParts ==
  ASSUME NEW c
  PROVE  LET own == Objects(c)
             pod == own.workload.template
             s == c.serviceName
         IN /\ pod.containers = <<getContainer(s, c.data, c.number), getEnvoyContainer>>
            /\ pod.volumes = getVolumeList(s, c.data, c.number)
            /\ pod.labels = getLabelMap(s, c.number)
            /\ own.service.selector = getLabelMap(s, c.number)
            /\ own.service.meta.name = ServiceName(s, c.number)
            /\ own.configMap.name = ConfigMapName(s, c.number)
            /\ c.data.always => own.workload.matchLabels = getLabelMap(s, c.number)
<1> DEFINE own == Objects(c)
           s == c.serviceName
           pod == Pod(s, c.data, c.number)
<1>1. /\ own.configMap = ConfigMap(s, c.number) /\ own.service = Service(s, c.data, c.number)
      /\ own.workload = IF c.data.always THEN Deployment(s, c.data, c.number)
                                         ELSE Job(s, c.data, c.number)
  BY DEF Objects
<1>2. own.workload.template = pod
  BY <1>1 DEF Deployment, Job
<1>3. c.data.always => own.workload.matchLabels = getLabelMap(s, c.number)
  BY <1>1 DEF Deployment
<1> HIDE DEF own
<1>4. /\ pod.containers = <<getContainer(s, c.data, c.number), getEnvoyContainer>>
      /\ pod.volumes = getVolumeList(s, c.data, c.number)
      /\ pod.labels = getLabelMap(s, c.number)
  BY DEF Pod
<1>5. /\ own.service.selector = getLabelMap(s, c.number)
      /\ own.service.meta.name = ServiceName(s, c.number)
      /\ own.configMap.name = ConfigMapName(s, c.number)
  BY <1>1 DEF Service, ConfigMap
<1> QED
  BY <1>2, <1>3, <1>4, <1>5 DEF own

\* The environment of a container holds the number that was assigned to it.
LEMMA NumberOfEnv ==
  ASSUME NEW s, NEW m, NEW env, NEW number, m.env = Put(env, "MS_NUMBER", number)
  PROVE  {v[2] : v \in {e \in getEnvList(s, m) : e[1] = "MS_NUMBER"}} = {number}
<1>1. "MS_NUMBER" \in DOMAIN m.env /\ m.env["MS_NUMBER"] = number
  BY DEF Put
<1>2. <<"MS_NUMBER", number>> \in getEnvList(s, m)
  BY <1>1 DEF getEnvList
<1>3. ASSUME NEW e \in getEnvList(s, m), e[1] = "MS_NUMBER"
      PROVE  e[2] = number
  BY <1>1, <1>3 DEF getEnvList
<1> QED
  BY <1>2, <1>3

\* The volumes of a name, and the names that a mount may have.
Named(volumes, name) == {i \in DOMAIN volumes : volumes[i].name = name}

MountName(m, name) ==
  \/ name = <<"aion-data">>
  \/ name = <<"envoy">>
  \/ \E i \in DOMAIN m.volumeMountPathList : name = DataName(i)

\* Each mount finds its one volume by name.
LEMMA OneVolume ==
  ASSUME NEW s, NEW m, NEW n, NEW name,
         m.volumeMountPathList \in Seq(Seq(STRING)),
         MountName(m, name)
  PROVE  Cardinality(Named(getVolumeList(s, m, n), name)) = 1
<1> DEFINE paths == m.volumeMountPathList
           volumes == getVolumeList(s, m, n)
<1>1. Len(paths) \in Nat /\ DOMAIN paths = 1..Len(paths)
  OBVIOUS
<1>2. /\ DOMAIN volumes = 1..(Len(paths) + 2)
      /\ volumes[1].name = <<"aion-data">> /\ volumes[2].name = <<"envoy">>
      /\ \A i \in DOMAIN paths : volumes[i + 2].name = DataName(i)
  <2> DEFINE fixed == <<[name |-> <<"aion-data">>, hostPath |-> getHostAionDataPath],
                        [name |-> <<"envoy">>, configMap |-> <<"envoy-config", getLabelName(s, n)>>]>>
             more == [i \in DOMAIN paths |-> [name |-> DataName(i), hostPath |-> paths[i][2]]]
  <2>1. Len(fixed) = 2 /\ fixed[1].name = <<"aion-data">> /\ fixed[2].name = <<"envoy">>
    OBVIOUS
  <2>2. \A i \in DOMAIN paths : more[i].name = DataName(i)
    OBVIOUS
  <2>3. volumes = fixed \o more
    BY DEF getVolumeList
  <2> DEFINE S == {fixed[1], fixed[2]} \cup {more[i] : i \in DOMAIN paths}
  <2>4. fixed \in Seq(S)
    OBVIOUS
  <2>5. more \in Seq(S) /\ Len(more) = Len(paths)
    BY <1>1
  <2> HIDE DEF fixed, more, S, volumes
  <2>6. /\ DOMAIN volumes = 1..(Len(fixed) + Len(more))
        /\ \A i \in 1..Len(fixed) : volumes[i] = fixed[i]
        /\ \A i \in 1..Len(more) : volumes[i + Len(fixed)] = more[i]
    <3>1. Len(fixed) \in Nat /\ Len(more) \in Nat
      BY <2>4, <2>5
    <3>2. \A i \in 1..Len(more) : /\ i + Len(fixed) \in 1..(Len(fixed) + Len(more))
                                  /\ i + Len(fixed) > Len(fixed)
                                  /\ i + Len(fixed) - Len(fixed) = i
      BY <3>1
    <3> QED
      BY ONLY <2>3, <2>4, <2>5, <3>1, <3>2
  <2>7. DOMAIN volumes = 1..(Len(paths) + 2)
    BY <1>1, <2>1, <2>5, <2>6
  <2>8. \A i \in DOMAIN paths : volumes[i + 2] = more[i]
    BY <1>1, <2>1, <2>5, <2>6
  <2> QED
    BY <2>1, <2>2, <2>6, <2>7, <2>8
<1> DEFINE A == <<"aion-data">>
           E == <<"envoy">>
<1> HIDE DEF volumes
<1>3. \A i, k \in DOMAIN paths :
        /\ A # E /\ DataName(i) # A /\ DataName(i) # E
        /\ DataName(i) = DataName(k) => i = k
  BY <1>1 DEF DataName
<1>4. A # E
  OBVIOUS
<1>5. /\ DOMAIN volumes = 1..(Len(paths) + 2) /\ volumes[1].name = A /\ volumes[2].name = E
      /\ name = A \/ name = E \/ \E i \in DOMAIN paths : name = DataName(i)
  BY <1>2 DEF MountName
<1> HIDE DEF A, E
<1>6. \E j \in DOMAIN volumes : \A i \in DOMAIN volumes : volumes[i].name = name <=> i = j
  <2>1. ASSUME NEW j \in DOMAIN volumes
        PROVE  j = 1 \/ j = 2 \/ (j - 2 \in DOMAIN paths /\ volumes[j].name = DataName(j - 2))
    <3>1. j - 2 \in DOMAIN paths => volumes[(j - 2) + 2].name = DataName(j - 2)
      BY <1>2
    <3>2. j \in Int /\ (j - 2) + 2 = j
      BY <1>1, <1>5
    <3> QED
      BY <1>1, <1>5, <3>1, <3>2
  <2>2. 1 \in DOMAIN volumes /\ 2 \in DOMAIN volumes
    BY <1>1, <1>5
  <2>3. CASE name = A
    BY <1>3, <1>4, <1>5, <2>1, <2>2, <2>3
  <2>4. CASE name = E
    BY <1>3, <1>4, <1>5, <2>1, <2>2, <2>4
  <2>5. ASSUME NEW i \in DOMAIN paths, name = DataName(i)
        PROVE  /\ i + 2 \in DOMAIN volumes
               /\ \A j \in DOMAIN volumes : volumes[j].name = name <=> j = i + 2
    <3>1. i \in Nat /\ i + 2 \in DOMAIN volumes /\ volumes[i + 2].name = name
      BY <1>1, <1>2, <2>5
    <3>2. ASSUME NEW j \in DOMAIN volumes, volumes[j].name = name
          PROVE  j = i + 2
      <4>1. j # 1 /\ j # 2
        BY <1>3, <1>5, <2>5, <3>2
      <4>2. j - 2 = i
        BY <1>3, <2>1, <2>5, <3>2, <4>1
      <4> QED
        BY <1>5, <1>1, <3>1, <4>2
    <3> QED
      BY <3>1, <3>2
  <2> QED
    BY <1>5, <2>3, <2>4, <2>5
<1>7. \E j \in DOMAIN volumes : Named(volumes, name) = {j}
  BY <1>6 DEF Named
<1> QED
  BY <1>7, FS_Singleton DEF volumes

\* The service's container mounts the data of aion and the volumes of its entry.
LEMMA MountNames ==
  ASSUME NEW m, m.volumeMountPathList \in Seq(Seq(STRING)),
         NEW mount \in Range(getVolumeMountList(m))
  PROVE  \/ mount.name = <<"aion-data">>
         \/ \E i \in DOMAIN m.volumeMountPathList : mount.name = DataName(i)
<1> DEFINE paths == m.volumeMountPathList
           aion == [name |-> <<"aion-data">>, mountPath |-> K8sEnv.aionDataPath, propagation |-> "None"]
           Data(i) == [name |-> DataName(i), mountPath |-> paths[i][1],
                       propagation |-> IF Len(paths[i]) > 2 /\ paths[i][3] = "Bidirectional"
                                         THEN "Bidirectional" ELSE "None"]
           more == [i \in DOMAIN paths |-> Data(i)]
           S == {aion} \cup {Data(i) : i \in DOMAIN paths}
<1>1. getVolumeMountList(m) = <<aion>> \o more
  BY DEF getVolumeMountList
<1>2. <<aion>> \in Seq(S) /\ more \in Seq(S)
  OBVIOUS
<1>3. \A x \in S : x.name = <<"aion-data">> \/ \E i \in DOMAIN paths : x.name = DataName(i)
  OBVIOUS
<1> HIDE DEF aion, more, S
<1>4. mount \in S
  BY <1>1, <1>2 DEF Range
<1> QED
  BY <1>3, <1>4

\* The one volume that is a config map is the envoy's.
LEMMA EnvoyVolume ==
  ASSUME NEW s, NEW m, NEW n, m.volumeMountPathList \in Seq(Seq(STRING)),
         NEW v \in Range(getVolumeList(s, m, n)), v.name = <<"envoy">>
  PROVE  v.configMap = ConfigMapName(s, n)
<1> DEFINE paths == m.volumeMountPathList
           aion == [name |-> <<"aion-data">>, hostPath |-> getHostAionDataPath]
           envoy == [name |-> <<"envoy">>, configMap |-> <<"envoy-config", getLabelName(s, n)>>]
           Data(i) == [name |-> DataName(i), hostPath |-> paths[i][2]]
           more == [i \in DOMAIN paths |-> Data(i)]
           S == {aion, envoy} \cup {Data(i) : i \in DOMAIN paths}
<1>1. getVolumeList(s, m, n) = <<aion, envoy>> \o more
  BY DEF getVolumeList
<1>2. \A x \in S : x.name = <<"envoy">> => x = envoy
  BY DEF DataName
<1>3. envoy.configMap = ConfigMapName(s, n)
  BY DEF ConfigMapName
<1> HIDE DEF aion, envoy, Data
<1>4. <<aion, envoy>> \in Seq(S) /\ more \in Seq(S)
  <2>1. aion \in S /\ envoy \in S /\ \A i \in DOMAIN paths : Data(i) \in S
    OBVIOUS
  <2> HIDE DEF S
  <2>2. <<aion, envoy>> \in Seq(S)
    BY <2>1
  <2>3. Len(paths) \in Nat /\ DOMAIN paths = 1..Len(paths)
    OBVIOUS
  <2>4. more \in [1..Len(paths) -> S]
    BY <2>1, <2>3
  <2>5. more \in Seq(S)
    BY <2>3, <2>4
  <2> QED
    BY <2>2, <2>5
<1> HIDE DEF more, S
<1>5. v \in S
  BY <1>1, <1>4 DEF Range
<1> QED
  BY <1>2, <1>3, <1>5

\* Every container is told its own number, and there is a number 1.
THEOREM NumbersAreOwn == Spec => []OwnNumber
<1>1. TypeOK => OwnNumber
  <2> SUFFICES ASSUME TypeOK
               PROVE  OwnNumber
    OBVIOUS
  <2> DEFINE list == NewScaleContainer(ms)
             Env(n) == Objects(list[n]).workload.template.containers[1].env
  <2>1. ms \in Services
    BY DEF TypeOK
  <2>2. 1 \in DOMAIN list
    BY <2>1, ServiceTypes DEF NewScaleContainer
  <2>3. ASSUME NEW n \in DOMAIN list
        PROVE  {v[2] : v \in {e \in Env(n) : e[1] = "MS_NUMBER"}} = {ToString(n)}
    <3>1. list[n].data.env = Put(ms.env, "MS_NUMBER", ToString(n))
      BY <2>1, Numbered
    <3>2. Env(n) = getContainer(list[n].serviceName, list[n].data, list[n].number).env
      BY ObjectParts
    <3>3. Env(n) = getEnvList(list[n].serviceName, list[n].data)
      BY <3>2 DEF getContainer
    <3> QED
      BY <3>1, <3>3, NumberOfEnv
  <2> QED
    BY <2>2, <2>3 DEF OwnNumber
<1> QED
  BY <1>1, TypeCorrect, PTL

\* The objects of a container fit together, and meet those of no other number.
THEOREM ObjectsFit == Spec => []PartsFit
<1>1. TypeOK => PartsFit
  <2> SUFFICES ASSUME TypeOK, NEW n \in DOMAIN NewScaleContainer(ms)
               PROVE  LET list == NewScaleContainer(ms)
                          own == Objects(list[n])
                          pod == own.workload.template
                      IN /\ \A c \in Range(pod.containers) : \A mount \in Range(c.volumeMounts) :
                              Cardinality({i \in DOMAIN pod.volumes : pod.volumes[i].name = mount.name}) = 1
                         /\ \A v \in Range(pod.volumes) : v.name = <<"envoy">> => v.configMap = own.configMap.name
                         /\ \A k \in DOMAIN list :
                              Objects(list[k]).workload.template.labels = own.service.selector <=> k = n
                         /\ ms.always => own.workload.matchLabels = pod.labels
                         /\ own.configMap.name = DeletedConfigMapName(Name, n)
                         /\ own.service.meta.name = DeletedServiceName(Name, n)
    BY DEF PartsFit
  <2> DEFINE list == NewScaleContainer(ms)
             c == list[n]
             own == Objects(c)
             pod == own.workload.template
  <2>1. ms \in Services
    BY DEF TypeOK
  <2>2. /\ ms.volumeMountPathList \in Seq(Seq(STRING))
        /\ c.serviceName = Name /\ c.number = n /\ c.data.always = ms.always
        /\ c.data.volumeMountPathList = ms.volumeMountPathList
    BY <2>1, ServiceTypes, Numbered
  <2>3. \A k \in DOMAIN list : Objects(list[k]).workload.template.labels = getLabelMap(Name, k)
    <3> SUFFICES ASSUME NEW k \in DOMAIN list
                 PROVE  Objects(list[k]).workload.template.labels = getLabelMap(Name, k)
      OBVIOUS
    <3>1. list[k].serviceName = Name /\ list[k].number = k
      BY <2>1, Numbered
    <3> QED
      BY <3>1, ObjectParts
  <2> HIDE DEF list, c
  <2>4. /\ pod.containers = <<getContainer(Name, c.data, n), getEnvoyContainer>>
        /\ pod.volumes = getVolumeList(Name, c.data, n)
        /\ pod.labels = getLabelMap(Name, n)
        /\ own.service.selector = getLabelMap(Name, n)
        /\ own.service.meta.name = ServiceName(Name, n)
        /\ own.configMap.name = ConfigMapName(Name, n)
        /\ ms.always => own.workload.matchLabels = getLabelMap(Name, n)
    BY <2>2, ObjectParts
  <2> HIDE DEF own
  <2>5. ASSUME NEW d \in Range(pod.containers), NEW mount \in Range(d.volumeMounts)
        PROVE  Cardinality({i \in DOMAIN pod.volumes : pod.volumes[i].name = mount.name}) = 1
    <3>1. mount \in Range(getVolumeMountList(c.data)) \/ mount \in Range(getEnvoyContainer.volumeMounts)
      BY <2>4 DEF Range, getContainer
    <3>2. mount \in Range(getVolumeMountList(c.data)) =>
             mount.name = <<"aion-data">>
               \/ \E i \in DOMAIN c.data.volumeMountPathList : mount.name = DataName(i)
      BY <2>2, MountNames
    <3>3. mount \in Range(getEnvoyContainer.volumeMounts) => mount.name = <<"envoy">>
      BY DEF getEnvoyContainer, Range
    <3>4. c.data.volumeMountPathList \in Seq(Seq(STRING))
      BY <2>2
    <3>5. pod.volumes = getVolumeList(Name, c.data, n)
      BY <2>4
    <3>6. MountName(c.data, mount.name)
      BY <3>1, <3>2, <3>3 DEF MountName
    <3>7. Cardinality(Named(getVolumeList(Name, c.data, n), mount.name)) = 1
      BY <3>4, <3>6, OneVolume
    <3> QED
      BY <3>5, <3>7 DEF Named
  <2>6. ASSUME NEW v \in Range(pod.volumes), v.name = <<"envoy">>
        PROVE  v.configMap = own.configMap.name
    BY <2>2, <2>4, <2>6, EnvoyVolume
  <2>7. \A k : getLabelMap(Name, k) = getLabelMap(Name, n) <=> k = n
    BY DEF getLabelMap, getLabelName
  <2>8. ConfigMapName(Name, n) = DeletedConfigMapName(Name, n)
        /\ ServiceName(Name, n) = DeletedServiceName(Name, n)
    BY DEF ConfigMapName, ServiceName, DeletedConfigMapName, DeletedServiceName
  <2>9. \A k \in DOMAIN list :
          Objects(list[k]).workload.template.labels = own.service.selector <=> k = n
    BY <2>3, <2>4, <2>7
  <2> QED
    BY <2>4, <2>5, <2>6, <2>8, <2>9 DEF own, c, list
<1> QED
  BY <1>1, TypeCorrect, PTL
=============================================================================

-------------------------- MODULE ProjectServerProofs --------------------------
(***************************************************************************)
(* The safety properties of ProjectServer, for any number of requests,     *)
(* services and devices.                                                   *)
(***************************************************************************)
EXTENDS ProjectServer, TLAPS

Pc == {"new", "remove", "load", "push", "finish", "answered"}

\* TypeOK in two parts: the prover of sequences and the prover of flags.
DataOK ==
  /\ prj \in Request \cup {NoRequest}
  /\ services \in [Request -> SUBSET Service]
  /\ pc \in [Request -> Pc]
  /\ todo \in [Request -> SUBSET Service]
  /\ arg \in [Request -> Request \cup {NoRequest}]
  /\ aionCh \in {<<>>} \cup {<<r>> : r \in Request}
  /\ taken \in Request \cup {NoRequest}
  /\ ltodo \subseteq Device
  /\ sent \in [Device -> SUBSET Service]
  /\ joined \subseteq Device
  /\ missed \subseteq Device
  /\ last \in Request \cup {NoRequest}
  /\ beside \in [Request -> SUBSET Request]
  /\ deleted \subseteq Service

FlagOK == panicked \in BOOLEAN

\* p.prj is set by the first Apply and never unset.
AppliedSet == prj = NoRequest => \A r \in Request : Op[r] = "apply" => pc[r] = "new"

\* What is pushed, and what is handed out, is a message.
Loaded ==
  /\ \A r \in Request : pc[r] \in {"push", "finish", "answered"} => arg[r] \in Request
  /\ ltodo # {} => taken \in Request

\* A message that has not come in is as its sender wrote it, and not in use.
Fresh == \A r \in Request : pc[r] = "new" => services[r] = Named[r] /\ prj # r

\* A handler is between its first step and the channel.
OnTheWay(r) == pc[r] \in {"remove", "load", "push"}

\* With no handler on its way to the channel and nothing in it, the devices
\* that were handed the setting have what the deployed message contains now.
InStep ==
  taken \in Request /\ aionCh = <<>> /\ (\A r \in Request : ~OnTheWay(r)) =>
    \A d \in Reached \ ltodo : sent[d] = services[taken]

\* S is what request r asks for.
Result(r, S) == IF Op[r] = "apply" THEN S = Named[r] ELSE S \cap Named[r] = {}

\* How far a request has come that no other one ran beside.
LoneProgress(r) ==
  /\ pc[r] = "remove" /\ prj \in Request =>
       /\ Op[r] = "delete"
       /\ services[prj] \cap (Named[r] \ todo[r]) = {}
  /\ pc[r] = "load" /\ prj \in Request => Result(r, services[prj])
  /\ pc[r] \in {"push", "finish", "answered"} => Result(r, services[arg[r]])
  /\ pc[r] \in {"finish", "answered"} =>
       aionCh = <<arg[r]>> \/ (aionCh = <<>> /\ taken = arg[r])

Lone == \A r \in Request : Alone(r) => LoneProgress(r)

\* Requests have themselves beside them, and all that run are beside the last.
Overlaps ==
  /\ \A r \in Request : pc[r] # "new" => r \in beside[r]
  /\ \A q, r \in Request : Running(q) /\ Running(r) => q \in beside[r]
  /\ last # NoRequest => pc[last] # "new"
  /\ \A r \in Request : Running(r) => last # NoRequest /\ r \in beside[last]

\* What an Apply loads is its own message or one of a request beside it.
Near ==
  \A r \in Request : Op[r] = "apply" =>
    /\ pc[r] # "remove"
    /\ pc[r] = "load" => prj \in beside[r]
    /\ pc[r] \in {"push", "finish", "answered"} => arg[r] \in beside[r]

\* Once the last request has sent its setting, the one in the channel, or else
\* the one taken from it, is from a request beside it.
LastPushed ==
  last # NoRequest /\ ~OnTheWay(last) =>
    \E p \in beside[last] :
      /\ pc[p] \in {"finish", "answered"}
      /\ aionCh = <<arg[p]>> \/ (aionCh = <<>> /\ taken = arg[p])

IInv ==
  /\ DataOK /\ FlagOK
  /\ PanicsOnlyAtFirst /\ AppliedSet
  /\ Loaded /\ Fresh /\ InStep /\ Lone
  /\ Overlaps /\ Near /\ LastPushed

\* The parts of TypeOK, which different provers treat.
LEMMA TypeParts == (TypeOK <=> DataOK /\ FlagOK) /\ (TypeOK' <=> DataOK' /\ FlagOK')
  BY DEF TypeOK, DataOK, FlagOK, Pc

\* The invariant holds before the first request.
LEMMA InitIInv == Init => IInv
<1> SUFFICES ASSUME Init PROVE IInv
  OBVIOUS
<1> USE RequestAssumption DEF Init
<1>1. DataOK /\ FlagOK
  <2>1. DataOK
    BY DEF DataOK, Pc
  <2>2. FlagOK
    BY Zenon DEF FlagOK
  <2> QED
    BY <2>1, <2>2
<1>2. PanicsOnlyAtFirst /\ AppliedSet /\ Loaded /\ Fresh
  BY DEF PanicsOnlyAtFirst, AppliedSet, Loaded, Fresh
<1>3. InStep /\ Lone
  BY DEF InStep, Lone, Alone
<1>4. Overlaps /\ Near /\ LastPushed
  BY DEF Overlaps, Near, LastPushed, Running
<1> QED
  BY <1>1, <1>2, <1>3, <1>4 DEF IInv

\* A request that comes while no other one runs is alone, and no other is.
LEMMA BeginAlone ==
  ASSUME IInv, NEW r \in Request, Begin(r)
  PROVE  /\ last' = r /\ beside' \in [Request -> SUBSET Request]
         /\ r \in beside'[r]
         /\ \A q \in Request : Running(q) => q # r /\ q \in beside'[r] /\ r \in beside'[q]
         /\ \A q \in Request : beside[q] \subseteq beside'[q] \/ q = r
         /\ \A q \in Request : Alone(q)' => q = r /\ \A o \in Request : ~Running(o)
<1>1. last' = r /\ beside' \in [Request -> SUBSET Request]
  BY DEF Begin, IInv, DataOK
<1>2. \A q \in Request : beside'[q] = IF q = r THEN {r} \cup {o \in Request : Running(o)}
                                     ELSE IF Running(q) THEN beside[q] \cup {r} ELSE beside[q]
  BY DEF Begin
<1>3. ~Running(r)
  BY DEF Begin, Running
<1> QED
  BY <1>1, <1>2, <1>3, RequestAssumption DEF Alone

\* While a request that came alone runs, no other one does.
LEMMA AloneRuns ==
  ASSUME IInv, NEW r \in Request, Alone(r)
  PROVE  pc[r] # "new" /\ \A q \in Request \ {r} : ~Running(q)
BY RequestAssumption DEF IInv, Overlaps, Alone

\* The step of a handler that runs beside the last request keeps who ran
\* beside whom.
LEMMA OverlapsStay ==
  ASSUME IInv, UNCHANGED <<last, beside>>,
         \A q \in Request : (pc'[q] = "new" <=> pc[q] = "new") /\ (Running(q)' => Running(q))
  PROVE  Overlaps'
BY RequestAssumption DEF IInv, DataOK, Overlaps

\* A step that leaves the handlers' settings alone, and what the last request
\* has sent in the channel or taken from it.
LEMMA PushedStays ==
  ASSUME IInv, UNCHANGED <<last, beside>>,
         \A q \in Request : /\ OnTheWay(q) <=> OnTheWay(q)'
                            /\ pc[q] \in {"finish", "answered"} =>
                                 pc'[q] \in {"finish", "answered"} /\ arg'[q] = arg[q],
         \A q \in Request : aionCh = <<q>> \/ (aionCh = <<>> /\ taken = q) =>
                              aionCh' = <<q>> \/ (aionCh' = <<>> /\ taken' = q)
  PROVE  LastPushed'
<1> SUFFICES ASSUME last' # NoRequest, pc'[last'] \notin {"remove", "load", "push"}
             PROVE  \E p \in beside'[last'] :
                      /\ pc'[p] \in {"finish", "answered"}
                      /\ aionCh' = <<arg'[p]>> \/ (aionCh' = <<>> /\ taken' = arg'[p])
  BY DEF LastPushed, OnTheWay
<1>1. /\ last \in Request /\ last # NoRequest /\ ~OnTheWay(last)
      /\ beside[last] \subseteq Request
  BY DEF IInv, DataOK, OnTheWay
<1>2. PICK p \in beside[last] : /\ pc[p] \in {"finish", "answered"}
                                /\ aionCh = <<arg[p]>> \/ (aionCh = <<>> /\ taken = arg[p])
  BY <1>1 DEF IInv, LastPushed
<1>3. p \in Request /\ arg[p] \in Request
  <2>1. p \in Request
    BY <1>1, <1>2
  <2> QED
    BY <1>2, <2>1 DEF IInv, Loaded
<1>4. pc'[p] \in {"finish", "answered"} /\ arg'[p] = arg[p]
  BY <1>2, <1>3
<1>5. aionCh' = <<arg[p]>> \/ (aionCh' = <<>> /\ taken' = arg[p])
  BY <1>2, <1>3
<1> QED
  BY <1>2, <1>4, <1>5

\* Every step of an Apply, a Delete or the receiver of AionCh keeps it.
LEMMA NextIInv == IInv /\ [Next]_vars => IInv'
<1> SUFFICES ASSUME IInv, [Next]_vars PROVE IInv'
  OBVIOUS
<1> USE RequestAssumption DEF IInv, handlerVars, receiverVars, history
<1>1. ASSUME NEW r \in Request, Apply(r), ~panicked PROVE IInv'
  <2>8. /\ last' = r /\ beside' \in [Request -> SUBSET Request]
        /\ r \in beside'[r]
        /\ \A q \in Request : Running(q) => q # r /\ q \in beside'[r] /\ r \in beside'[q]
        /\ \A q \in Request : beside[q] \subseteq beside'[q] \/ q = r
        /\ \A q \in Request : Alone(q)' => q = r /\ \A o \in Request : ~Running(o)
    BY <1>1, BeginAlone DEF Apply
  <2>9. pc \in [Request -> Pc] /\ pc[r] = "new" /\ \A q \in Request \ {r} : pc'[q] = pc[q]
    BY <1>1 DEF DataOK, Apply, Begin
  <2> USE <1>1 DEF Apply
  <2>1. DataOK'
    BY <2>8, <2>9 DEF DataOK, Pc
  <2>2. FlagOK' /\ PanicsOnlyAtFirst'
    BY Zenon DEF FlagOK, PanicsOnlyAtFirst
  <2>3. AppliedSet' /\ Loaded' /\ Fresh' /\ InStep'
    BY <2>9 DEF DataOK, AppliedSet, Loaded, Fresh, InStep, Reached, OnTheWay
  <2>4. Lone'
    BY <2>8, <2>9 DEF DataOK, Lone, LoneProgress, Fresh, Result
  <2>5. Overlaps'
    <3>1. pc'[r] = "load" /\ \A q \in Request \ {r} : Running(q)' => Running(q)
      BY <2>9 DEF Running
    <3>2. \A q \in Request : pc'[q] # "new" => q \in beside'[q]
      BY <2>8, <2>9 DEF Overlaps
    <3>3. \A q, o \in Request : Running(q)' /\ Running(o)' => q \in beside'[o]
      BY <2>8, <3>1 DEF Overlaps
    <3>4. \A q \in Request : Running(q)' => q \in beside'[last']
      BY <2>8, <3>1
    <3>5. last' # NoRequest /\ pc'[last'] # "new"
      BY <2>8, <3>1
    <3> QED
      BY <3>2, <3>3, <3>4, <3>5 DEF Overlaps
  <2>6. Near'
    <3>1. \A q \in Request : pc[q] = "load" => r \in beside'[q]
      BY <2>8 DEF Running
    <3> QED
      BY <2>8, <2>9, <3>1 DEF DataOK, Near
  <2>7. LastPushed'
    BY <2>8, <2>9 DEF LastPushed, OnTheWay
  <2> QED
    BY <2>1, <2>2, <2>3, <2>4, <2>5, <2>6, <2>7
<1>2. ASSUME NEW r \in Request, Delete(r), ~panicked PROVE IInv'
  <2>8. /\ last' = r /\ beside' \in [Request -> SUBSET Request]
        /\ r \in beside'[r]
        /\ \A q \in Request : Running(q) => q # r /\ q \in beside'[r] /\ r \in beside'[q]
        /\ \A q \in Request : beside[q] \subseteq beside'[q] \/ q = r
        /\ \A q \in Request : Alone(q)' => q = r /\ \A o \in Request : ~Running(o)
    BY <1>2, BeginAlone DEF Delete
  <2>9. pc \in [Request -> Pc] /\ pc[r] = "new" /\ \A q \in Request \ {r} : pc'[q] = pc[q]
    BY <1>2 DEF DataOK, Delete, Begin
  <2> USE <1>2 DEF Delete
  <2>1. DataOK'
    BY <2>8, <2>9 DEF DataOK, Pc
  <2>2. FlagOK' /\ PanicsOnlyAtFirst'
    BY Zenon DEF FlagOK, PanicsOnlyAtFirst
  <2>3. AppliedSet' /\ Loaded' /\ Fresh' /\ InStep'
    BY <2>9 DEF DataOK, AppliedSet, Loaded, Fresh, InStep, Reached, OnTheWay
  <2>4. Lone'
    BY <2>8, <2>9 DEF DataOK, Lone, LoneProgress, Fresh, Result
  <2>5. Overlaps'
    <3>1. pc'[r] = "remove" /\ \A q \in Request \ {r} : Running(q)' => Running(q)
      BY <2>9 DEF Running
    <3>2. \A q \in Request : pc'[q] # "new" => q \in beside'[q]
      BY <2>8, <2>9 DEF Overlaps
    <3>3. \A q, o \in Request : Running(q)' /\ Running(o)' => q \in beside'[o]
      BY <2>8, <3>1 DEF Overlaps
    <3>4. \A q \in Request : Running(q)' => q \in beside'[last']
      BY <2>8, <3>1
    <3>5. last' # NoRequest /\ pc'[last'] # "new"
      BY <2>8, <3>1
    <3> QED
      BY <3>2, <3>3, <3>4, <3>5 DEF Overlaps
  <2>6. Near'
    BY <2>8, <2>9 DEF DataOK, Near
  <2>7. LastPushed'
    BY <2>8, <2>9 DEF LastPushed, OnTheWay
  <2> QED
    BY <2>1, <2>2, <2>3, <2>4, <2>5, <2>6, <2>7
<1>3. ASSUME NEW r \in Request, Remove(r), ~panicked PROVE IInv'
  <2>8. PICK s \in todo[r] :
          /\ todo' = [todo EXCEPT ![r] = @ \ {s}]
          /\ \/ prj = NoRequest /\ panicked' = TRUE /\ UNCHANGED services
             \/ /\ prj # NoRequest
                /\ services' = [services EXCEPT ![prj] = @ \ {s}]
                /\ UNCHANGED panicked
    BY <1>3 DEF Remove
  <2> USE <1>3, <2>8 DEF Remove
  <2>1. DataOK'
    BY DEF DataOK, Pc
  <2>2. FlagOK' /\ PanicsOnlyAtFirst'
    <3>1. FlagOK'
      BY Zenon DEF FlagOK
    <3>2. PanicsOnlyAtFirst'
      BY Zenon DEF PanicsOnlyAtFirst, AppliedSet
    <3> QED
      BY <3>1, <3>2
  <2>3. AppliedSet' /\ Loaded' /\ Fresh' /\ InStep'
    BY DEF DataOK, AppliedSet, Loaded, Fresh, InStep, Reached, OnTheWay
  <2>4. Lone'
    BY AloneRuns DEF DataOK, Lone, LoneProgress, Running, Result, Alone
  <2>5. Overlaps'
    BY OverlapsStay DEF DataOK, Running
  <2>6. Near'
    BY DEF DataOK, Near
  <2>7. LastPushed'
    BY PushedStays DEF DataOK, OnTheWay
  <2> QED
    BY <2>1, <2>2, <2>3, <2>4, <2>5, <2>6, <2>7
<1>4. ASSUME NEW r \in Request, RemoveDone(r), ~panicked PROVE IInv'
  <2> USE <1>4 DEF RemoveDone
  <2>1. DataOK'
    BY DEF DataOK, Pc
  <2>2. FlagOK' /\ PanicsOnlyAtFirst'
    BY Zenon DEF FlagOK, PanicsOnlyAtFirst
  <2>3. AppliedSet' /\ Loaded' /\ Fresh' /\ InStep'
    BY DEF DataOK, AppliedSet, Loaded, Fresh, InStep, Reached, OnTheWay
  <2>4. Lone'
    BY AloneRuns DEF DataOK, Lone, LoneProgress, Running, Result, Alone
  <2>5. Overlaps'
    BY OverlapsStay DEF DataOK, Running
  <2>6. Near'
    BY DEF DataOK, Near
  <2>7. LastPushed'
    BY PushedStays DEF DataOK, OnTheWay
  <2> QED
    BY <2>1, <2>2, <2>3, <2>4, <2>5, <2>6, <2>7
<1>5. ASSUME NEW r \in Request, Load(r), ~panicked PROVE IInv'
  <2> USE <1>5 DEF Load
  <2>1. DataOK'
    BY DEF DataOK, Pc
  <2>2. FlagOK' /\ PanicsOnlyAtFirst'
    <3>1. FlagOK'
      BY Zenon DEF FlagOK
    <3>2. PanicsOnlyAtFirst'
      BY DEF DataOK, PanicsOnlyAtFirst, AppliedSet
    <3> QED
      BY <3>1, <3>2
  <2>3. AppliedSet' /\ Loaded' /\ Fresh' /\ InStep'
    BY DEF DataOK, AppliedSet, Loaded, Fresh, InStep, Reached, OnTheWay
  <2>4. Lone'
    BY AloneRuns DEF DataOK, Lone, LoneProgress, Running, Result, Alone
  <2>5. Overlaps'
    BY OverlapsStay DEF DataOK, Running
  <2>6. Near'
    BY DEF DataOK, Near
  <2>7. LastPushed'
    BY PushedStays DEF DataOK, OnTheWay
  <2> QED
    BY <2>1, <2>2, <2>3, <2>4, <2>5, <2>6, <2>7
<1>6. ASSUME NEW r \in Request, Push(r), ~panicked PROVE IInv'
  <2> USE <1>6 DEF Push
  <2>1. DataOK'
    BY DEF DataOK, Pc, Loaded
  <2>2. FlagOK' /\ PanicsOnlyAtFirst'
    BY Zenon DEF FlagOK, PanicsOnlyAtFirst
  <2>3. AppliedSet' /\ Loaded' /\ Fresh' /\ InStep'
    BY DEF DataOK, AppliedSet, Loaded, Fresh, InStep, Reached, OnTheWay
  <2>4. Lone'
    BY AloneRuns DEF DataOK, Lone, LoneProgress, Running, Result, Alone
  <2>5. Overlaps'
    BY OverlapsStay DEF DataOK, Running
  <2>6. Near'
    BY DEF DataOK, Near
  <2>7. LastPushed'
    <3>1. pc \in [Request -> Pc] /\ last' = last /\ beside' = beside /\ arg' = arg
      BY DEF DataOK
    <3>2. last # NoRequest /\ r \in beside[last]
      BY DEF Overlaps, Running
    <3>3. pc'[r] = "finish" /\ aionCh' = <<arg'[r]>>
      BY <3>1
    <3> QED
      BY <3>1, <3>2, <3>3 DEF LastPushed
  <2> QED
    BY <2>1, <2>2, <2>3, <2>4, <2>5, <2>6, <2>7
<1>7. ASSUME NEW r \in Request, Finish(r), ~panicked PROVE IInv'
  <2> USE <1>7 DEF Finish
  <2>1. DataOK'
    BY DEF DataOK, Pc
  <2>2. FlagOK' /\ PanicsOnlyAtFirst'
    BY Zenon DEF FlagOK, PanicsOnlyAtFirst
  <2>3. AppliedSet' /\ Loaded' /\ Fresh' /\ InStep'
    BY DEF DataOK, AppliedSet, Loaded, Fresh, InStep, Reached, OnTheWay
  <2>4. Lone'
    BY AloneRuns DEF DataOK, Lone, LoneProgress, Running, Result, Alone
  <2>5. Overlaps'
    BY OverlapsStay DEF DataOK, Running
  <2>6. Near'
    <3>1. \A q \in Request : Op[q] = "apply" /\ pc[q] = "load" => r \in beside[q]
      BY DEF Overlaps, Running
    <3> QED
      BY <3>1 DEF DataOK, Near
  <2>7. LastPushed'
    BY PushedStays DEF DataOK, OnTheWay
  <2> QED
    BY <2>1, <2>2, <2>3, <2>4, <2>5, <2>6, <2>7
<1>8. ASSUME Take, ~panicked PROVE IInv'
  <2> USE <1>8 DEF Take
  <2>8. PICK q \in Request : aionCh = <<q>> /\ taken' = q /\ aionCh' = <<>> /\ ltodo' = Devices[q]
    <3>1. PICK q \in Request : aionCh = <<q>>
      BY DEF DataOK
    <3>2. Head(aionCh) = q
      BY <3>1
    <3> QED
      BY <3>1, <3>2
  <2>1. DataOK'
    BY <2>8 DEF DataOK, Pc
  <2>2. FlagOK' /\ PanicsOnlyAtFirst'
    BY Zenon DEF FlagOK, PanicsOnlyAtFirst
  <2>3. AppliedSet' /\ Loaded' /\ Fresh' /\ InStep'
    BY <2>8 DEF DataOK, AppliedSet, Loaded, Fresh, InStep, Reached, OnTheWay
  <2>4. Lone'
    BY <2>8, AloneRuns DEF DataOK, Lone, LoneProgress, Running, Result, Alone
  <2>5. Overlaps'
    BY OverlapsStay DEF DataOK, Running
  <2>6. Near'
    BY DEF DataOK, Near
  <2>7. LastPushed'
    BY <2>8, PushedStays DEF DataOK, OnTheWay
  <2> QED
    BY <2>1, <2>2, <2>3, <2>4, <2>5, <2>6, <2>7
<1>9. ASSUME NEW d \in Device, HandTo(d), ~panicked PROVE IInv'
  <2> USE <1>9 DEF HandTo
  <2>1. DataOK'
    BY DEF DataOK, Pc, Loaded
  <2>2. FlagOK' /\ PanicsOnlyAtFirst'
    BY Zenon DEF FlagOK, PanicsOnlyAtFirst
  <2>3. AppliedSet' /\ Loaded' /\ Fresh' /\ InStep'
    BY DEF DataOK, AppliedSet, Loaded, Fresh, InStep, Reached, OnTheWay
  <2>4. Lone'
    BY AloneRuns DEF DataOK, Lone, LoneProgress, Running, Result, Alone
  <2>5. Overlaps'
    BY OverlapsStay DEF DataOK, Running
  <2>6. Near'
    BY DEF DataOK, Near
  <2>7. LastPushed'
    BY PushedStays DEF DataOK, OnTheWay
  <2> QED
    BY <2>1, <2>2, <2>3, <2>4, <2>5, <2>6, <2>7
<1>10. ASSUME NEW d \in Device, Join(d), ~panicked PROVE IInv'
  <2> USE <1>10 DEF Join
  <2>1. DataOK'
    BY DEF DataOK, Pc
  <2>2. FlagOK' /\ PanicsOnlyAtFirst'
    BY Zenon DEF FlagOK, PanicsOnlyAtFirst
  <2>3. AppliedSet' /\ Loaded' /\ Fresh' /\ InStep'
    BY DEF DataOK, AppliedSet, Loaded, Fresh, InStep, Reached, OnTheWay
  <2>4. Lone'
    BY AloneRuns DEF DataOK, Lone, LoneProgress, Running, Result, Alone
  <2>5. Overlaps'
    BY OverlapsStay DEF DataOK, Running
  <2>6. Near'
    BY DEF DataOK, Near
  <2>7. LastPushed'
    BY PushedStays DEF DataOK, OnTheWay
  <2> QED
    BY <2>1, <2>2, <2>3, <2>4, <2>5, <2>6, <2>7
<1>11. CASE UNCHANGED vars
  <2> USE <1>11 DEF vars
  <2>1. DataOK'
    BY DEF DataOK, Pc
  <2>2. FlagOK' /\ PanicsOnlyAtFirst'
    BY Zenon DEF FlagOK, PanicsOnlyAtFirst
  <2>3. AppliedSet' /\ Loaded' /\ Fresh' /\ InStep'
    BY DEF DataOK, AppliedSet, Loaded, Fresh, InStep, Reached, OnTheWay
  <2>4. Lone'
    BY AloneRuns DEF DataOK, Lone, LoneProgress, Running, Result, Alone
  <2>5. Overlaps'
    BY OverlapsStay DEF DataOK, Running
  <2>6. Near'
    BY DEF DataOK, Near
  <2>7. LastPushed'
    BY PushedStays DEF DataOK, OnTheWay
  <2> QED
    BY <2>1, <2>2, <2>3, <2>4, <2>5, <2>6, <2>7
<1> QED
  BY <1>1, <1>2, <1>3, <1>4, <1>5, <1>6, <1>7, <1>8, <1>9, <1>10, <1>11
  DEF Next, Receiver, Handler

\* The inductive invariant holds throughout, for any requests.
THEOREM IInvHolds == Spec => []IInv
  BY InitIInv, NextIInv, PTL DEF Spec

\* The server's state and the handlers' locals have their types: in
\* particular AionCh never holds more than one setting.
THEOREM TypeCorrect == Spec => []TypeOK
<1>1. IInv => TypeOK
  BY TypeParts DEF IInv
<1> QED
  BY <1>1, IInvHolds, PTL

\* When nothing is under way the devices that the setting has got to have what
\* the deployed message contains, although Deletes change it while it is handed
\* from one device to the next.
THEOREM DevicesAgree == Spec => []DevicesInStep
<1>1. IInv => DevicesInStep
  BY DEF IInv, DataOK, InStep, DevicesInStep, Idle, OnTheWay, Running, Pc
<1> QED
  BY <1>1, IInvHolds, PTL

\* A request that no other one ran beside has had the effect it asks for, on
\* the devices that the setting has got to.
THEOREM LoneRequestCounts == Spec => []LoneRequestDeployed
<1>1. IInv => LoneRequestDeployed
  <2> SUFFICES ASSUME IInv, Idle, NEW r \in Request, Alone(r)
               PROVE  /\ Op[r] = "apply" => taken = r /\ \A d \in Reached : sent[d] = Named[r]
                      /\ Op[r] = "delete" => \A d \in Reached : sent[d] \cap Named[r] = {}
    BY DEF LoneRequestDeployed
  <2>1. pc[r] = "answered" /\ LoneProgress(r)
    BY AloneRuns DEF IInv, DataOK, Lone, Idle, Running, Pc
  <2>2. taken = arg[r] /\ taken \in Request
    BY <2>1 DEF IInv, Loaded, LoneProgress, Idle
  <2>3. \A d \in Reached : sent[d] = services[taken]
    BY <2>2 DEF IInv, InStep, Idle, OnTheWay, Running
  <2>4. Op[r] = "apply" => taken = r
    BY <2>1, <2>2 DEF IInv, Near, Alone
  <2> QED
    BY <2>1, <2>2, <2>3, <2>4, RequestAssumption DEF LoneProgress, Result
<1> QED
  BY <1>1, IInvHolds, PTL

\* However requests overlap, what is deployed in the end comes from the last
\* request or from one beside it, and an Apply there deploys nothing older
\* than what ran beside it.
THEOREM OverlapsCount == Spec => []OverlapDeployed
<1>1. IInv => OverlapDeployed
  <2> SUFFICES ASSUME IInv, Idle, last # NoRequest
               PROVE  \E p \in beside[last] :
                        taken = arg[p] /\ (Op[p] = "apply" => taken \in beside[p])
    BY DEF OverlapDeployed
  <2>1. last \in Request /\ pc[last] = "answered" /\ beside[last] \subseteq Request
    BY DEF IInv, DataOK, Overlaps, Idle, Running, Pc
  <2>2. PICK p \in beside[last] : /\ pc[p] \in {"finish", "answered"}
                                  /\ aionCh = <<arg[p]>> \/ (aionCh = <<>> /\ taken = arg[p])
    BY <2>1 DEF IInv, LastPushed, OnTheWay
  <2>3. p \in Request /\ aionCh = <<>> /\ taken = arg[p]
    BY <2>1, <2>2 DEF IInv, DataOK, Idle
  <2>4. Op[p] = "apply" => arg[p] \in beside[p]
    BY <2>2, <2>3 DEF IInv, Near
  <2> QED
    BY <2>2, <2>3, <2>4
<1> QED
  BY <1>1, IInvHolds, PTL

\* The process can only be ended by a Delete that comes before any Apply.
THEOREM PanicsNeedNoApply == Spec => []PanicsOnlyAtFirst
<1>1. IInv => PanicsOnlyAtFirst
  BY DEF IInv
<1> QED
  BY <1>1, IInvHolds, PTL
=============================================================================

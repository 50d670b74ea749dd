---------------------------- MODULE MCProjectServer ----------------------------
(* Instances of ProjectServer: which requests come, in any order. *)
EXTENDS ProjectServer

\* Two Applies and a Delete that overlap on one service.
MCRequest == {"apply1", "apply2", "delete1"}

\* One Apply and two Deletes.
MCDeletes == {"apply1", "delete1", "delete2"}

MCOp == [r \in Request |-> IF r \in {"apply1", "apply2"} THEN "apply" ELSE "delete"]
MCNamed == [r \in Request |->
  CASE r = "apply1"  -> {"camera", "display"}
    [] r = "apply2"  -> {"display"}
    [] r = "delete1" -> {"camera"}
    [] r = "delete2" -> {"display"}]

\* The Applies name different devices and the Delete names none.
MCDevices == [r \in Request |->
  CASE r = "apply1" -> {"worker1", "worker2"}
    [] r = "apply2" -> {"worker2"}
    [] OTHER -> {}]

\* In default mode there is no choice.
MCController == [r \in Request |-> Device]
=============================================================================

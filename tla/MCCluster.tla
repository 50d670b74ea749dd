------------------------------- MODULE MCCluster -------------------------------
(* Instances of Cluster: how often each worker joins, and the settings. *)
EXTENDS Cluster, TLC

\* One worker may come back once.
MCJoin == [w \in Worker |-> IF w = CHOOSE u \in Worker : TRUE THEN 2 ELSE 1]
MCJoinOnce == [w \in Worker |-> 1]

\* Sound with MCJoinOnce, where no worker is special.
MCSymmetry == Permutations(Worker)

\* The second setting no longer starts one of the services.
MCStartup == [n \in 1..MaxApply |->
  IF n = 1 THEN Service ELSE Service \ {CHOOSE s \in Service : TRUE}]
=============================================================================

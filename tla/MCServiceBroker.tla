--------------------------- MODULE MCServiceBroker --------------------------
(***************************************************************************)
(* Two services.yml files: in Both the startup unit a feeds b on this      *)
(* device (and, in the liveness run, first c on another one); in Only, b   *)
(* has moved to the other device.  What the broker uses of them is what    *)
(* the loaded settings say.                                                *)
(***************************************************************************)
EXTENDS ServiceBroker, TLC

CONSTANTS Nil, Both, Only

C == INSTANCE AionSetting

A == <<"a", 1>>
B == <<"b", 1>>
Remote == <<"c", 1>>
MCUnit == {A, B}
MCUnitAndRemote == {A, B, Remote}
MCSetting == {Both, Only}

Unit_a == [C!YamlMicroservice EXCEPT !.startup = TRUE]
Next_b == [C!YamlNextService EXCEPT !.nextServiceName = "b"]
Next_Moved == [Next_b EXCEPT !.nextDevice = "other"]
Next_Remote == [Next_Moved EXCEPT !.nextServiceName = "c"]

\* The loaded setting s, where a feeds the services of the list in Both.
Loaded(s, list) ==
  C!LoadConfigFromDirectory(
    [deviceName |-> "self", debug |-> Nil,
     devices |-> IF s = Only \/ Next_Remote \in {list[i] : i \in DOMAIN list}
                   THEN "other" :> C!YamlDevice ELSE Nil,
     microservices |->
       IF s = Only THEN "a" :> [Unit_a EXCEPT !.nextService = "default" :> <<Next_Moved>>]
       ELSE "a" :> [Unit_a EXCEPT !.always = TRUE, !.nextService = "default" :> list]
              @@ "b" :> C!YamlMicroservice]).setting

-----------------------------------------------------------------------------
(* The constants of the broker, which TLC evaluates in every state *)

MCDeclared == [s \in MCSetting |-> IF s = Both THEN {A, B} ELSE {A}]
MCStartup == [s \in MCSetting |-> {A}]
MCAlways == [s \in MCSetting |-> IF s = Both THEN {A} ELSE {}]
MCMultiple == [s \in MCSetting |-> {}]
MCOwnName == [s \in MCSetting |-> "self"]

\* In Both there is no other device, or there is one.
MCDevices == [s \in MCSetting |-> IF s = Both THEN {} ELSE {"other"}]
MCAlwaysOther == [s \in MCSetting |-> {"other"}]

Entry(u, device) == [to |-> u, device |-> device]
Route(next) ==
  [s \in MCSetting |->
     [u \in Unit |->
        CASE u = A /\ s = Both -> next
          [] u = A /\ s = Only -> <<Entry(B, "other")>>
          [] OTHER -> <<>>]]
MCLocal == Route(<<Entry(B, "")>>)
MCDeviceAndLocal == Route(<<Entry(Remote, "other"), Entry(B, "")>>)
MCLocalAndDevice == Route(<<Entry(B, ""), Entry(Remote, "other")>>)

-----------------------------------------------------------------------------
(* They are what the loaded settings say *)

\* The units of the services with this property: one for each number.
Units(s, has(_)) ==
  LET ms == Loaded(s, <<Next_b>>).microservices
  IN UNION {{<<name, n>> : n \in 1..ms[name].scale} : name \in {m \in DOMAIN ms : has(ms[m])}}

Declares(m) == TRUE
StartsUp(m) == m.startup
StaysUp(m) == m.always
StartsTwice(m) == m.multiple

\* GetNextServiceList for a kanban of number 1.
ListOf(loaded, u) ==
  LET next == C!GetNextServiceList(loaded, u[1], "default")
  IN IF next = Nil THEN <<>>
     ELSE [i \in DOMAIN next |->
             [to |-> <<next[i].nextServiceName, C!GetNextNumber(1, next[i].numberPattern)>>,
              device |-> next[i].nextDevice]]

ASSUME LoadedAssumption ==
  \A s \in MCSetting :
    /\ MCDeclared[s] = Units(s, Declares)
    /\ MCStartup[s] = Units(s, StartsUp)
    /\ MCAlways[s] = Units(s, StaysUp)
    /\ MCMultiple[s] = Units(s, StartsTwice)
    /\ MCOwnName[s] = Loaded(s, <<Next_b>>).deviceName
    /\ MCDevices[s] = DOMAIN Loaded(s, <<Next_b>>).devices
    /\ MCAlwaysOther[s] = DOMAIN Loaded(s, <<Next_b, Next_Remote>>).devices
    /\ \A u \in Unit :
         /\ MCLocal[s][u] = ListOf(Loaded(s, <<Next_b>>), u)
         /\ MCDeviceAndLocal[s][u] = ListOf(Loaded(s, <<Next_Remote, Next_b>>), u)
         /\ MCLocalAndDevice[s][u] = ListOf(Loaded(s, <<Next_b, Next_Remote>>), u)

Symmetry == Permutations(Watcher)
=============================================================================

---------------------------- MODULE AionSetting ----------------------------
(***************************************************************************)
(* Loading a services.yml (package config): the YAML value becomes the     *)
(* message of the project API, omitted keys get their defaults, and the    *)
(* controller and the watchers look services and connections up in it.     *)
(*                                                                         *)
(* A loaded file is a record [microservices, devices, deviceName, debug];  *)
(* Nil stands for a YAML null and for a Go nil.  A key that the file omits *)
(* has the zero value of its type.                                         *)
(***************************************************************************)
EXTENDS Integers, Sequences, Functions

CONSTANT Nil

\* The entry of a service, of a device or of a next service with all keys omitted.
YamlMicroservice ==
  [command |-> <<>>, nextService |-> Nil, scale |-> 0, env |-> Nil, position |-> "",
   always |-> FALSE, multiple |-> FALSE, startup |-> FALSE, ports |-> <<>>,
   serviceAccount |-> "", network |-> "", tag |-> "", volumeMountPathList |-> <<>>,
   privileged |-> FALSE, withoutKanban |-> FALSE, targetNode |-> "", resources |-> Nil]

YamlDevice == [addr |-> "", sshPort |-> 0, username |-> "", password |-> "", aionHome |-> ""]

YamlNextService == [nextServiceName |-> "", numberPattern |-> "", nextDevice |-> ""]

Map(f) == IF f = Nil THEN <<>> ELSE f
Default(v, zero, d) == IF v = zero THEN d ELSE v

-----------------------------------------------------------------------------
(* LoadConfigFromFile *)

\* Entries that mapToGRPCAionSetting reads through a nil pointer.
NullEntry(m) ==
  \/ m = Nil
  \/ \E list \in Range(Map(m.nextService)) : Nil \in Range(list)
  \/ Nil \in Range(m.ports)

Unmappable(file) ==
  \/ Nil \in Range(Map(file.devices))
  \/ \E m \in Range(Map(file.microservices)) : NullEntry(m)

mapToGRPCAionSetting(file) ==
  LET ms == Map(file.microservices) IN
  [file EXCEPT
     !.devices = Map(file.devices),
     !.microservices =
        [s \in DOMAIN ms |-> [ms[s] EXCEPT !.nextService = Map(ms[s].nextService)]]]

-----------------------------------------------------------------------------
(* Defaults *)

DefaultConnectionKey == "default"
Spread == "n"

InitialDevice(d) ==
  [d EXCEPT
     !.aionHome = Default(d.aionHome, "", "/var/lib/aion"),
     !.username = Default(d.username, "", "aion"),
     !.password = Default(d.password, "", "aion"),
     !.sshPort = Default(d.sshPort, 0, 22)]

InitialNext(list) ==
  [i \in DOMAIN list |->
     [list[i] EXCEPT !.numberPattern = Default(list[i].numberPattern, "", Spread)]]

InitialMicroservice(m) ==
  [m EXCEPT
     !.position = Default(m.position, "", "Runtime"),
     !.scale = IF m.scale <= 0 THEN 1 ELSE m.scale,
     !.network = Default(m.network, "", "ClusterIP"),
     !.serviceAccount = Default(m.serviceAccount, "", "default"),
     !.env = Map(m.env),
     !.tag = Default(m.tag, "", "latest"),
     !.nextService = [key \in DOMAIN Map(m.nextService) |-> InitialNext(m.nextService[key])]]

setInitializeValue(setting) ==
  [setting EXCEPT
     !.devices = [d \in DOMAIN setting.devices |-> InitialDevice(setting.devices[d])],
     !.microservices = [s \in DOMAIN setting.microservices |->
                          InitialMicroservice(setting.microservices[s])]]

-----------------------------------------------------------------------------
(* What loading answers *)

LoadConfigFromGRPC(setting) ==
  IF Nil \in Range(setting.microservices)
    THEN [answer |-> "error", setting |-> Nil]
    ELSE [answer |-> "ok", setting |-> setInitializeValue(setting)]

\* A file that cannot be read, or is not YAML of these types, is Nil.
LoadConfigFromDirectory(file) ==
  CASE file = Nil -> [answer |-> "error", setting |-> Nil]
    [] file # Nil /\ Unmappable(file) -> [answer |-> "panic", setting |-> Nil]
    [] OTHER -> LoadConfigFromGRPC(mapToGRPCAionSetting(file))

-----------------------------------------------------------------------------
(* Lookups *)

Declares(setting, name) == name \in DOMAIN setting.microservices

GetMicroserviceByName(setting, name) ==
  IF Declares(setting, name) THEN setting.microservices[name] ELSE Nil

\* The list of the key, or of "default", or an error.
GetNextServiceList(setting, name, key) ==
  LET next == setting.microservices[name].nextService IN
  CASE ~Declares(setting, name) -> Nil
    [] Declares(setting, name) /\ key \in DOMAIN next -> next[key]
    [] Declares(setting, name) /\ key \notin DOMAIN next
         /\ DefaultConnectionKey \in DOMAIN next -> next[DefaultConnectionKey]
    [] OTHER -> Nil

\* The number of the container that a kanban goes to.
GetNextNumber(previous, pattern) == IF pattern = Spread THEN previous ELSE 1

=============================================================================

------------------------------ MODULE Manifest ------------------------------
(***************************************************************************)
(* The objects that package k8s makes for container number n of service s  *)
(* from its loaded entry m: a pod in a job or in a deployment, a service,  *)
(* and the config map of the pod's envoy.  They find each other by name.   *)
(*                                                                         *)
(* A service name "dir/base:tag" is a record, a name made from a format is *)
(* the tuple of what goes into it, and a path or an entry of               *)
(* volumeMountPathList is the sequence of its parts.                       *)
(***************************************************************************)
EXTENDS AionSetting

CONSTANTS
  Quantity,    \* the texts that resource.MustParse accepts
  K8sEnv       \* [aionDataPath, repositoryPrefix, namespace, registrySecret]

\* The directory and the tag of the service's name are dropped.
getLabelName(s, n) == <<s.base, n>>
getLabelMap(s, n) == [run |-> getLabelName(s, n)]
getObjectMeta(s, n) ==
  [name |-> getLabelName(s, n), labels |-> getLabelMap(s, n), namespace |-> K8sEnv.namespace]

ConfigMapName(s, n) == <<"envoy-config", getLabelName(s, n)>>
ServiceName(s, n) == <<getLabelName(s, n), "srv">>

-----------------------------------------------------------------------------
(* Pod *)

\* Data volumes are numbered from 0.
DataName(i) == <<"data", i - 1>>

getVolumeMountList(m) ==
  <<[name |-> <<"aion-data">>, mountPath |-> K8sEnv.aionDataPath, propagation |-> "None"]>> \o
  [i \in DOMAIN m.volumeMountPathList |->
     LET part == m.volumeMountPathList[i] IN
     [name |-> DataName(i), mountPath |-> part[1],
      propagation |-> IF Len(part) > 2 /\ part[3] = "Bidirectional"
                        THEN "Bidirectional" ELSE "None"]]

\* The namespace goes before the last part.
getHostAionDataPath ==
  LET path == K8sEnv.aionDataPath IN
  SubSeq(path, 1, Len(path) - 1) \o <<K8sEnv.namespace, path[Len(path)]>>

\* Mutant: the data volumes are numbered from 1.
VolumesFromOne(s, m, n) ==
  <<[name |-> <<"aion-data">>, hostPath |-> getHostAionDataPath],
    [name |-> <<"envoy">>, configMap |-> <<"envoy-config", getLabelName(s, n)>>]>> \o
  [i \in DOMAIN m.volumeMountPathList |->
     [name |-> DataName(i + 1), hostPath |-> m.volumeMountPathList[i][2]]]

getVolumeList(s, m, n) ==
  <<[name |-> <<"aion-data">>, hostPath |-> getHostAionDataPath],
    [name |-> <<"envoy">>, configMap |-> <<"envoy-config", getLabelName(s, n)>>]>> \o
  [i \in DOMAIN m.volumeMountPathList |->
     [name |-> DataName(i), hostPath |-> m.volumeMountPathList[i][2]]]

getEnvList(s, m) ==
  {<<"SERVICE_NAME", s>>} \cup {<<key, m.env[key]>> : key \in DOMAIN m.env}

\* The quantities of a list that are given; memory and cpu may be left out.
Given(list) ==
  IF list = Nil THEN {}
  ELSE {<<key, list[key]>> : key \in {k \in {"memory", "cpu"} : list[k] # ""}}

getResources(m) ==
  IF m.resources = Nil THEN [limits |-> {}, requests |-> {}]
  ELSE [limits |-> Given(m.resources.limits), requests |-> Given(m.resources.requests)]

\* Making the pod indexes the second part of each volume and parses each quantity.
PodPanics(m) ==
  \/ \E part \in Range(m.volumeMountPathList) : Len(part) < 2
  \/ \E q \in getResources(m).limits \cup getResources(m).requests : q[2] \notin Quantity

getContainer(s, m, n) ==
  [name |-> getLabelName(s, n), image |-> <<K8sEnv.repositoryPrefix, s, m.tag>>,
   command |-> m.command, privileged |-> m.privileged,
   ports |-> {<<p.name, p.port, p.protocol>> : p \in Range(m.ports)},
   env |-> getEnvList(s, m), volumeMounts |-> getVolumeMountList(m),
   resources |-> getResources(m)]

getEnvoyContainer ==
  [name |-> "envoy", ports |-> {<<"envoy-admin", 10001, "">>},
   volumeMounts |-> <<[name |-> <<"envoy">>, mountPath |-> "/etc/envoy"]>>]

getNodeSelector(m) == IF m.targetNode = "" THEN {} ELSE {<<"kubernetes.io/hostname", m.targetNode>>}

Pod(s, m, n) ==
  [labels |-> getLabelMap(s, n), hostname |-> getLabelName(s, n),
   serviceAccount |-> m.serviceAccount, imagePullSecret |-> K8sEnv.registrySecret,
   containers |-> <<getContainer(s, m, n), getEnvoyContainer>>,
   volumes |-> getVolumeList(s, m, n), nodeSelector |-> getNodeSelector(m)]

-----------------------------------------------------------------------------
(* The objects *)

Job(s, m, n) ==
  [meta |-> getObjectMeta(s, n), restartPolicy |-> "OnFailure", template |-> Pod(s, m, n),
   completions |-> 1, backoffLimit |-> 1, ttlSecondsAfterFinished |-> 2]

Deployment(s, m, n) ==
  [meta |-> getObjectMeta(s, n), replicas |-> 1, matchLabels |-> getLabelMap(s, n),
   template |-> Pod(s, m, n)]

ServicePort(m, p) ==
  [name |-> p.name, protocol |-> p.protocol, port |-> p.port, targetPort |-> p.port,
   nodePort |-> IF m.network = "NodePort" THEN p.nodePort ELSE 0]

Service(s, m, n) ==
  [meta |-> [name |-> ServiceName(s, n), labels |-> getLabelMap(s, n)],
   type |-> IF m.network = "NodePort" THEN "NodePort" ELSE "ClusterIP",
   ports |-> {[name |-> "envoy-admin", protocol |-> "TCP", port |-> 10001,
               targetPort |-> 0, nodePort |-> 0]}
               \cup {ServicePort(m, p) : p \in Range(m.ports)},
   selector |-> getLabelMap(s, n), topologyKeys |-> <<"kubernetes.io/hostname">>]

ConfigMap(s, n) == [name |-> ConfigMapName(s, n), envoyFor |-> s]

\* The names by which Delete addresses the objects.
DeletedServiceName(s, n) == <<getLabelName(s, n), "srv">>
DeletedConfigMapName(s, n) == <<"envoy-config", getLabelName(s, n)>>

-----------------------------------------------------------------------------
(* NewContainerMicroservice *)

Work(m) == IF m.always THEN "deployment" ELSE "job"

\* The container keeps what its objects are made from ...
NewContainerMicroservice(s, m, n) == [serviceName |-> s, data |-> m, number |-> n]

\* ... and each Apply makes its object anew.
Objects(c) ==
  LET s == c.serviceName  m == c.data  n == c.number IN
  [configMap |-> ConfigMap(s, n), service |-> Service(s, m, n),
   workload |-> IF m.always THEN Deployment(s, m, n) ELSE Job(s, m, n)]
=============================================================================

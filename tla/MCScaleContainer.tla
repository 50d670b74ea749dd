-------------------------- MODULE MCScaleContainer --------------------------
(***************************************************************************)
(* Five services.yml files: the first declares the service test as a job   *)
(* with almost every key omitted, the second as a multiple deployment with *)
(* two containers, and in the third no pod can be made from it.  The last  *)
(* two cannot be loaded: one has an empty entry, one cannot be read.       *)
(***************************************************************************)
EXTENDS ScaleContainer

MCName == [dir |-> "", base |-> "test", tag |-> ""]

MCK8sEnv ==
  [aionDataPath |-> <<"var", "lib", "aion", "Data">>, repositoryPrefix |-> "latonaio",
   namespace |-> "default", registrySecret |-> "dockerhub"]

File(entry) ==
  [microservices |-> MCName :> entry, devices |-> "other" :> YamlDevice,
   deviceName |-> "self", debug |-> ""]

Omitted == [YamlMicroservice EXCEPT !.startup = TRUE]

Scaled ==
  [YamlMicroservice EXCEPT
     !.always = TRUE, !.multiple = TRUE, !.scale = 2, !.network = "NodePort",
     !.env = "env1" :> "test",
     !.ports = <<[name |-> "http", protocol |-> "TCP", port |-> 8080, nodePort |-> 30080]>>,
     !.volumeMountPathList = <<<<"/dev", "/device", "Bidirectional">>, <<"/a", "/b">>>>,
     !.resources = [limits |-> [memory |-> "1Gi", cpu |-> ""], requests |-> Nil],
     !.nextService = "default" :> <<YamlNextService>>]

WithoutColon == [YamlMicroservice EXCEPT !.volumeMountPathList = <<<<"/dev">>>>]

MCFiles == {File(Omitted), File(Scaled), File(WithoutColon), File(Nil), Nil}
=============================================================================

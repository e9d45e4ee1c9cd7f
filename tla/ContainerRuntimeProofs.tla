----------------------- MODULE ContainerRuntimeProofs ------------------------
(***************************************************************************)
(* What is proved of ContainerRuntime for every set of accelerators,       *)
(* device numbers, specifications, hosts and configurations, and for any   *)
(* number of invocations.                                                  *)
(***************************************************************************)
EXTENDS ContainerRuntime, TLAPS

(***************************************************************************)
(* Facts about the operators                                               *)
(***************************************************************************)
(* The environment selects among the devices it is given.                  *)
LEMMA FilterSelects ==
  ASSUME NEW env, NEW devs
  PROVE  FilterDevicesByENV(env, devs) \subseteq devs
  BY DEF FilterDevicesByENV

(* The ids of nodes of the host are numbers of accelerators.               *)
LEMMA RequestedAreNumbers ==
  ASSUME NEW env, NEW nodes \in SUBSET Node
  PROVE  RequestedDevices(env, nodes) \in SUBSET Num
<1>1. FilterDevicesByENV(env, AcceleratorDevices(nodes)) \subseteq nodes
  BY FilterSelects DEF AcceleratorDevices
<1>2. \A d \in nodes : d[2] \in Num
  BY DEF Node
<1> QED
  BY <1>1, <1>2, NumAssumption DEF RequestedDevices, DevicesIDs

LEMMA AddErrorEnvVarType ==
  ASSUME NEW s \in SpecType, NEW e \in EnvErrors
  PROVE  AddErrorEnvVar(s, e) \in SpecType
  BY DEF AddErrorEnvVar, SpecType

LEMMA AddHookType ==
  ASSUME NEW s \in SpecType, NEW l \in Lifecycle
  PROVE  AddHook(s, l) \in SpecType
  BY DEF AddHook, SpecType

LEMMA AddDevicesToSpecType ==
  ASSUME NEW s \in SpecType, NEW nodes, NEW num
  PROVE  AddDevicesToSpec(s, nodes, num) \in SpecType
<1> DEFINE Count(e) == IF /\ e[1] \in nodes
                          /\ num[e[1]] = e[2]
                          /\ \A d \in Dev : s.devices[<<e[1], d>>] = 0
                       THEN s.devices[e] + 1
                       ELSE s.devices[e]
           new == [e \in Node \X Dev |-> Count(e)]
<1>1. s.devices \in [Node \X Dev -> Nat]
  BY DEF SpecType
<1>2. \A e \in Node \X Dev : Count(e) \in Nat
  BY <1>1
<1>3. new \in [Node \X Dev -> Nat]
  BY <1>2
<1>4. AddDevicesToSpec(s, nodes, num) = [s EXCEPT !.devices = new]
  BY DEF AddDevicesToSpec
<1> HIDE DEF new
<1> QED
  BY <1>3, <1>4 DEF SpecType

LEMMA AddAllowListType ==
  ASSUME NEW s \in SpecType, NEW nodes, NEW num
  PROVE  AddAllowList(s, nodes, num) \in SpecType
  BY DEF AddAllowList, SpecType

LEMMA AddNodesType ==
  ASSUME NEW s \in SpecType, NEW nodes, NEW num
  PROVE  AddNodes(s, nodes, num) \in SpecType
<1>1. s.linux \in {"absent", "bare", "full"}
  BY DEF SpecType, Linuxes
<1> QED
  BY <1>1, AddDevicesToSpecType, AddAllowListType DEF AddNodes

------------------------------------------------------------------------------
(***************************************************************************)
(* The state stays well typed: in particular an id selected from the       *)
(* host's device nodes is always the number of an accelerator, and only    *)
(* the errors of the device and network steps reach HABANA_RUNTIME_ERROR.  *)
(***************************************************************************)
LEMMA InitType == Init => TypeOK
<1> SUFFICES ASSUME Init PROVE TypeOK
  OBVIOUS
<1>1. original \in SpecType
  BY DomainAssumption DEF Init
<1>2. file \in [spec : SpecType, torn : BOOLEAN]
  BY <1>1 DEF Init
<1>3. cfg \in ConfigType /\ host \in HostType /\ rootfs \in RootfsType
  BY DomainAssumption DEF Init
<1> QED
  BY <1>1, <1>2, <1>3 DEF Init, TypeOK, Resting, Commands

LEMMA AddDevicesType ==
  ASSUME TypeOK, NEW nodes, NEW e \in {"accelerator", "uverb"},
         NEW next \in {"uverbs", "netinfo"}, AddDevices(nodes, e, next)
  PROVE  /\ spec' \in SpecType
         /\ err' \in Errors \cup {NoError}
         /\ lastError' \in EnvErrors \cup {NoError}
         /\ pc' \in Stages
         /\ UNCHANGED <<cfg, host, cmd, runs, original, calm>>
<1>1. AddNodes(spec, nodes, host.num) \in SpecType
  BY AddNodesType DEF TypeOK
<1>2. e \in EnvErrors
  BY DEF EnvErrors
<1>3. AddErrorEnvVar(spec, e) \in SpecType
  BY <1>2, AddErrorEnvVarType DEF TypeOK
<1> QED
  BY <1>1, <1>2, <1>3 DEF AddDevices, Goto, Fail, TypeOK, Errors, EnvErrors, Stages

LEMMA StepType == TypeOK /\ [Next]_vars => TypeOK'
<1> SUFFICES ASSUME TypeOK, [Next]_vars PROVE TypeOK'
  OBVIOUS
<1> USE DEF Goto, Fail
<1>1. ASSUME NEW c \in Commands, Invoke(c) PROVE TypeOK'
  BY <1>1 DEF Invoke, TypeOK, Stages
<1>2. CASE StartFails
  BY <1>2 DEF StartFails, TypeOK, Errors, Resting
<1>3. CASE Start
  BY <1>3 DEF Start, TypeOK, Stages
<1>4. CASE LoadSpecs
  BY <1>4 DEF LoadSpecs, TypeOK, Errors, Resting, Stages
<1>5. CASE LoadFails
  BY <1>5 DEF LoadFails, TypeOK, Errors, Resting
<1>6. CASE Route
  <2>1. pc' \in Stages
    BY <1>6 DEF Route, Stages, TypeOK, ConfigType
  <2> QED
    BY <1>6, <2>1 DEF Route, TypeOK
<1>7. CASE AddPrestartHook
  <2>1. AddHook(spec, "prestart") \in SpecType
    BY AddHookType DEF TypeOK, Lifecycle
  <2> QED
    BY <1>7, <2>1
    DEF AddPrestartHook, AddLifecycleHook, TypeOK, Errors, Stages
<1>8. CASE AddCreateRuntimeHook
  <2>1. AddHook(spec, "createRuntime") \in SpecType
    BY AddHookType DEF TypeOK, Lifecycle
  <2> QED
    BY <1>8, <2>1
    DEF AddCreateRuntimeHook, AddLifecycleHook, TypeOK, Errors, Stages
<1>9. CASE Discover
  <2>1. RequestedDevices(spec.env, PresentNodes(host)) \in SUBSET Num
    BY RequestedAreNumbers DEF PresentNodes
  <2> QED
    BY <1>9, <2>1 DEF Discover, TypeOK, Stages
<1>10. CASE AddAcceleratorDevices
  <2>1. CASE cfg.mountAccelerators
    <3>1. AddDevices(AcceleratorNodes, "accelerator", "uverbs")
      BY <1>10, <2>1 DEF AddAcceleratorDevices
    <3> QED
      BY <1>10, <3>1, AddDevicesType DEF AddAcceleratorDevices, TypeOK
  <2>2. CASE ~cfg.mountAccelerators
    BY <1>10, <2>2 DEF AddAcceleratorDevices, TypeOK, Stages
  <2> QED
    BY <2>1, <2>2
<1>11. CASE AddUverbsDevices
  <2>1. CASE cfg.mountUverbs
    <3>1. AddDevices(UverbNodes, "uverb", "netinfo")
      BY <1>11, <2>1 DEF AddUverbsDevices
    <3> QED
      BY <1>11, <3>1, AddDevicesType DEF AddUverbsDevices, TypeOK
  <2>2. CASE ~cfg.mountUverbs
    BY <1>11, <2>2 DEF AddUverbsDevices, TypeOK, Stages
  <2> QED
    BY <2>1, <2>2
<1>12. CASE GenerateNetinfo
  <2>1. AddErrorEnvVar(spec, "netinfo") \in SpecType
    BY AddErrorEnvVarType DEF TypeOK, EnvErrors
  <2>2. rootfs' \in RootfsType
    BY <1>12 DEF GenerateNetinfo, NetinfoWritten, NetinfoFails, TypeOK, RootfsType
  <2> QED
    BY <1>12, <2>1, <2>2
    DEF GenerateNetinfo, Report, TypeOK, EnvErrors, Stages
<1>13. CASE CopyGaudinet
  <2>1. AddErrorEnvVar(spec, "gaudinet") \in SpecType
    BY AddErrorEnvVarType DEF TypeOK, EnvErrors
  <2>2. rootfs' \in RootfsType
    BY <1>13 DEF CopyGaudinet, TypeOK, RootfsType
  <2> QED
    BY <1>13, <2>1, <2>2 DEF CopyGaudinet, Report, TypeOK, EnvErrors, Stages
<1>14. CASE SaveSpecs
  <2>1. file' \in [spec : SpecType, torn : BOOLEAN]
    <3>1. [spec |-> spec, torn |-> FALSE] \in [spec : SpecType, torn : BOOLEAN]
      BY DEF TypeOK
    <3>2. [file EXCEPT !.torn = TRUE] \in [spec : SpecType, torn : BOOLEAN]
      BY DEF TypeOK
    <3> QED
      BY <1>14, <3>1, <3>2 DEF SaveSpecs, TypeOK
  <2>2. settled' \in BOOLEAN
    BY <1>14 DEF SaveSpecs, TypeOK
  <2>3. pc' \in Stages \cup Resting /\ saved' \in {"no", "ok", "unchanged", "torn"}
    BY <1>14 DEF SaveSpecs, Stages, Resting
  <2>4. UNCHANGED <<cfg, host, rootfs, cmd, spec, ids, err, runs, original,
                    lastError, calm>>
    BY <1>14 DEF SaveSpecs
  <2> QED
    BY <2>1, <2>2, <2>3, <2>4 DEF TypeOK
<1>15. CASE ExecRunc
  BY <1>15 DEF ExecRunc, TypeOK, Errors, Resting
<1>16. CASE Kill
  BY <1>16 DEF Kill, TypeOK, Resting
<1>17. CASE HostChange
  BY <1>17, DomainAssumption DEF HostChange, TypeOK, process
<1>18. CASE UNCHANGED vars
  BY <1>18 DEF vars, process, history, TypeOK
<1> QED
  BY <1>1, <1>2, <1>3, <1>4, <1>5, <1>6, <1>7, <1>8, <1>9, <1>10, <1>11,
     <1>12, <1>13, <1>14, <1>15, <1>16, <1>17, <1>18
  DEF Next, Step

THEOREM TypeCorrect == Spec => []TypeOK
  BY InitType, StepType, PTL DEF Spec

------------------------------------------------------------------------------
(***************************************************************************)
(* Every step changes a specification in one of five ways, and config.json *)
(* only ever becomes the specification in memory.  What these preserve is  *)
(* therefore an invariant of both.                                         *)
(***************************************************************************)
Change(s, t) ==
  \/ t = s
  \/ \E l \in Lifecycle : t = AddHook(s, l)
  \/ \E e \in EnvErrors : t = AddErrorEnvVar(s, e)
  \/ \E nodes \in SUBSET Node : t = AddNodes(s, nodes, host.num)

LEMMA AddDevicesChanges ==
  ASSUME NEW nodes \in SUBSET Node, NEW e \in EnvErrors, NEW next,
         AddDevices(nodes, e, next)
  PROVE  Change(spec, spec')
<1>1. CASE nodes \subseteq PresentNodes(host)
  BY <1>1 DEF AddDevices, Change
<1>2. CASE ~(nodes \subseteq PresentNodes(host))
  BY <1>2 DEF AddDevices, Change
<1> QED
  BY <1>1, <1>2

LEMMA SpecChanges ==
  ASSUME TypeOK, [Next]_vars
  PROVE  /\ file'.spec = file.spec \/ (file'.spec = spec /\ spec' = spec)
         /\ spec' = file.spec \/ Change(spec, spec')
<1>1. ASSUME NEW c \in Commands, Invoke(c)
      PROVE  UNCHANGED file /\ spec' = file.spec
  BY <1>1 DEF Invoke
<1>2. CASE StartFails \/ Start \/ LoadFails \/ Route \/ Discover \/ ExecRunc
  <2>1. UNCHANGED <<file, spec>>
    BY <1>2 DEF StartFails, Start, LoadFails, Route, Discover, ExecRunc
  <2> QED
    BY <2>1 DEF Change
<1>3. CASE LoadSpecs
  BY <1>3 DEF LoadSpecs, Change
<1>4. CASE AddPrestartHook \/ AddCreateRuntimeHook
  <2>1. UNCHANGED file
    BY <1>4 DEF AddPrestartHook, AddCreateRuntimeHook, AddLifecycleHook
  <2>2. spec' = spec \/ \E l \in Lifecycle : spec' = AddHook(spec, l)
    BY <1>4 DEF AddPrestartHook, AddCreateRuntimeHook, AddLifecycleHook, Lifecycle
  <2> QED
    BY <2>1, <2>2 DEF Change
<1>5. CASE AddAcceleratorDevices
  <2>1. AcceleratorNodes \in SUBSET Node
    BY DEF AcceleratorNodes, Node, Kind, TypeOK
  <2>2. UNCHANGED file /\ (UNCHANGED spec
                           \/ AddDevices(AcceleratorNodes, "accelerator", "uverbs"))
    BY <1>5 DEF AddAcceleratorDevices
  <2>3. "accelerator" \in EnvErrors
    BY DEF EnvErrors
  <2>4. Change(spec, spec')
    BY <2>1, <2>2, <2>3, AddDevicesChanges DEF Change
  <2> QED
    BY <2>2, <2>4
<1>6. CASE AddUverbsDevices
  <2>1. UverbNodes \in SUBSET Node
    BY DEF UverbNodes, Node, Kind, TypeOK
  <2>2. UNCHANGED file /\ (UNCHANGED spec
                           \/ AddDevices(UverbNodes, "uverb", "netinfo"))
    BY <1>6 DEF AddUverbsDevices
  <2>3. "uverb" \in EnvErrors
    BY DEF EnvErrors
  <2>4. Change(spec, spec')
    BY <2>1, <2>2, <2>3, AddDevicesChanges DEF Change
  <2> QED
    BY <2>2, <2>4
<1>7. CASE GenerateNetinfo
  BY <1>7 DEF GenerateNetinfo, Report, Change, EnvErrors
<1>8. CASE CopyGaudinet
  <2>1. UNCHANGED file /\ (UNCHANGED spec \/ Report("gaudinet"))
    BY <1>8 DEF CopyGaudinet
  <2> QED
    BY <2>1 DEF Report, Change, EnvErrors
<1>9. CASE SaveSpecs
  <2>1. file'.spec \in {file.spec, spec}
    <3>1. [spec |-> spec, torn |-> FALSE].spec = spec
      OBVIOUS
    <3>2. [file EXCEPT !.torn = TRUE].spec = file.spec
      BY DEF TypeOK
    <3> QED
      BY <1>9, <3>1, <3>2 DEF SaveSpecs
  <2> QED
    BY <1>9, <2>1 DEF SaveSpecs, Change
<1>10. CASE Kill
  <2>1. file'.spec = file.spec
    BY <1>10 DEF Kill, TypeOK
  <2> QED
    BY <1>10, <2>1 DEF Kill, Change
<1>11. CASE HostChange
  BY <1>11 DEF HostChange, process, Change
<1>12. CASE UNCHANGED vars
  BY <1>12 DEF vars, process, Change
<1> QED
  BY <1>1, <1>2, <1>3, <1>4, <1>5, <1>6, <1>7, <1>8, <1>9, <1>10, <1>11, <1>12
  DEF Next, Step

(***************************************************************************)
(* What the two list functions do to one entry.                            *)
(***************************************************************************)
Fresh(s, n) == \A d \in Dev : s.devices[<<n, d>>] = 0

Adds(s, nodes, num, n, d) == n \in nodes /\ num[n] = d /\ Fresh(s, n)

LEMMA AddDevicesToSpecAt ==
  ASSUME NEW s \in SpecType, NEW nodes, NEW num, NEW n \in Node, NEW d \in Dev
  PROVE  /\ Adds(s, nodes, num, n, d) =>
              AddDevicesToSpec(s, nodes, num).devices[<<n, d>>] = 1
         /\ ~Adds(s, nodes, num, n, d) =>
              AddDevicesToSpec(s, nodes, num).devices[<<n, d>>] = s.devices[<<n, d>>]
<1> DEFINE Count(e) == IF /\ e[1] \in nodes
                          /\ num[e[1]] = e[2]
                          /\ \A d2 \in Dev : s.devices[<<e[1], d2>>] = 0
                       THEN s.devices[e] + 1
                       ELSE s.devices[e]
           new == [e \in Node \X Dev |-> Count(e)]
<1>1. AddDevicesToSpec(s, nodes, num) = [s EXCEPT !.devices = new]
  BY DEF AddDevicesToSpec
<1>2. new[<<n, d>>] = Count(<<n, d>>)
  OBVIOUS
<1>3. s.devices[<<n, d>>] = 0 => s.devices[<<n, d>>] + 1 = 1
  OBVIOUS
<1> HIDE DEF new
<1>4. AddDevicesToSpec(s, nodes, num).devices = new
  BY <1>1 DEF SpecType
<1> QED
  BY <1>2, <1>3, <1>4 DEF Adds, Fresh

LEMMA AddDevicesToSpecRest ==
  ASSUME NEW s \in SpecType, NEW nodes, NEW num
  PROVE  LET t == AddDevicesToSpec(s, nodes, num)
         IN  /\ t.env = s.env /\ t.privileged = s.privileged
             /\ t.linux = s.linux /\ t.error = s.error
             /\ t.hooks = s.hooks /\ t.rules = s.rules
  BY DEF AddDevicesToSpec, SpecType

LEMMA AddAllowListAt ==
  ASSUME NEW s \in SpecType, NEW nodes, NEW num, NEW d \in Dev
  PROVE  AddAllowList(s, nodes, num).rules[d] =
           IF s.rules[d] = 0 /\ (\E n \in nodes : num[n] = d) THEN 1 ELSE s.rules[d]
  BY DEF AddAllowList, SpecType

LEMMA AddAllowListRest ==
  ASSUME NEW s \in SpecType, NEW nodes, NEW num
  PROVE  LET t == AddAllowList(s, nodes, num)
         IN  /\ t.env = s.env /\ t.privileged = s.privileged
             /\ t.linux = s.linux /\ t.error = s.error
             /\ t.hooks = s.hooks /\ t.devices = s.devices
  BY DEF AddAllowList, SpecType

------------------------------------------------------------------------------
(***************************************************************************)
(* No duplicates: each change preserves the absence of duplicates.         *)
(***************************************************************************)
LEMMA AddHookNoDuplicates ==
  ASSUME NEW s \in SpecType, NEW l \in Lifecycle, NoDuplicatesIn(s)
  PROVE  NoDuplicatesIn(AddHook(s, l))
<1> DEFINE t == AddHook(s, l)
<1>1. t.devices = s.devices /\ t.rules = s.rules
  BY DEF AddHook, SpecType
<1>2. \A m \in Lifecycle : t.hooks[m] \leq 1
  BY DEF AddHook, SpecType, NoDuplicatesIn
<1> QED
  BY <1>1, <1>2 DEF NoDuplicatesIn

LEMMA AddErrorNoDuplicates ==
  ASSUME NEW s \in SpecType, NEW e, NoDuplicatesIn(s)
  PROVE  NoDuplicatesIn(AddErrorEnvVar(s, e))
<1> DEFINE t == AddErrorEnvVar(s, e)
<1>1. t.devices = s.devices /\ t.rules = s.rules /\ t.hooks = s.hooks
  BY DEF AddErrorEnvVar, SpecType
<1> QED
  BY <1>1 DEF NoDuplicatesIn

LEMMA AddDevicesToSpecNoDuplicates ==
  ASSUME NEW s \in SpecType, NEW nodes, NEW num, NoDuplicatesIn(s)
  PROVE  NoDuplicatesIn(AddDevicesToSpec(s, nodes, num))
<1> DEFINE t == AddDevicesToSpec(s, nodes, num)
<1>1. t.hooks = s.hooks /\ t.rules = s.rules
  BY AddDevicesToSpecRest
<1>2. ASSUME NEW n \in Node, NEW d \in Dev, t.devices[<<n, d>>] > 0
      PROVE  /\ t.devices[<<n, d>>] = 1
             /\ \A d2 \in Dev \ {d} : t.devices[<<n, d2>>] = 0
  <2>3. \A d2 \in Dev : Adds(s, nodes, num, n, d2) => t.devices[<<n, d2>>] = 1
    BY AddDevicesToSpecAt
  <2>4. \A d2 \in Dev : ~Adds(s, nodes, num, n, d2) =>
                        t.devices[<<n, d2>>] = s.devices[<<n, d2>>]
    BY AddDevicesToSpecAt
  <2> HIDE DEF t
  <2>1. CASE n \in nodes /\ Fresh(s, n)
    <3>1. \A d2 \in Dev : t.devices[<<n, d2>>] = IF num[n] = d2 THEN 1 ELSE 0
      BY <2>1, <2>3, <2>4 DEF Adds, Fresh
    <3>2. num[n] = d
      BY <1>2, <3>1
    <3> QED
      BY <3>1, <3>2
  <2>2. CASE ~(n \in nodes /\ Fresh(s, n))
    <3>1. \A d2 \in Dev : t.devices[<<n, d2>>] = s.devices[<<n, d2>>]
      BY <2>2, <2>4 DEF Adds
    <3> QED
      BY <1>2, <3>1 DEF NoDuplicatesIn
  <2> QED
    BY <2>1, <2>2
<1> HIDE DEF t
<1> QED
  BY <1>1, <1>2 DEF NoDuplicatesIn, t

LEMMA AddAllowListNoDuplicates ==
  ASSUME NEW s \in SpecType, NEW nodes, NEW num, NoDuplicatesIn(s)
  PROVE  NoDuplicatesIn(AddAllowList(s, nodes, num))
<1> DEFINE t == AddAllowList(s, nodes, num)
<1>1. t.hooks = s.hooks /\ t.devices = s.devices
  BY AddAllowListRest
<1>2. \A d \in Dev : t.rules[d] \leq 1
  BY AddAllowListAt DEF NoDuplicatesIn
<1> HIDE DEF t
<1> QED
  BY <1>1, <1>2 DEF NoDuplicatesIn, t

LEMMA AddNodesNoDuplicates ==
  ASSUME NEW s \in SpecType, NEW nodes, NEW num, NoDuplicatesIn(s)
  PROVE  NoDuplicatesIn(AddNodes(s, nodes, num))
<1>1. s.linux \in {"absent", "bare", "full"}
  BY DEF SpecType, Linuxes
<1>2. NoDuplicatesIn(AddDevicesToSpec(s, nodes, num))
  BY AddDevicesToSpecNoDuplicates
<1>3. NoDuplicatesIn(AddAllowList(AddDevicesToSpec(s, nodes, num), nodes, num))
  BY <1>2, AddDevicesToSpecType, AddAllowListNoDuplicates
<1> QED
  BY <1>1, <1>2, <1>3 DEF AddNodes

(* However often the runtime is invoked for a bundle, on whatever host at  *)
(* each step, config.json has each hook, each node and each rule once.     *)
THEOREM NoDuplicatesInvariant == Spec => []NoDuplicates
<1>1. Init => NoDuplicates
  BY SpecsAssumption DEF Init, NoDuplicates
<1>2. TypeOK /\ NoDuplicates /\ [Next]_vars => NoDuplicates'
  <2> SUFFICES ASSUME TypeOK, NoDuplicates, [Next]_vars PROVE NoDuplicates'
    OBVIOUS
  <2>1. spec \in SpecType /\ NoDuplicatesIn(spec) /\ NoDuplicatesIn(file.spec)
    BY DEF TypeOK, NoDuplicates
  <2>2. NoDuplicatesIn(file'.spec)
    BY <2>1, SpecChanges
  <2>3. ASSUME Change(spec, spec') PROVE NoDuplicatesIn(spec')
    BY <2>1, <2>3, AddHookNoDuplicates, AddErrorNoDuplicates, AddNodesNoDuplicates
    DEF Change
  <2>4. NoDuplicatesIn(spec')
    BY <2>1, <2>3, SpecChanges
  <2> QED
    BY <2>2, <2>4 DEF NoDuplicates, NoDuplicatesIn
<1> QED
  BY <1>1, <1>2, TypeCorrect, PTL DEF Spec

------------------------------------------------------------------------------
(***************************************************************************)
(* Rules follow nodes.  Only addDevicesToSpec can break it, and only in    *)
(* between: addAllowList on the same nodes and numbers restores it.        *)
(***************************************************************************)
LEMMA AddNodesRulesFollow ==
  ASSUME NEW s \in SpecType, NEW nodes, NEW num, RulesFollowNodesIn(s)
  PROVE  RulesFollowNodesIn(AddNodes(s, nodes, num))
<1> DEFINE t == AddDevicesToSpec(s, nodes, num)
           u == AddAllowList(t, nodes, num)
<1>1. t \in SpecType /\ t.linux = s.linux /\ t.rules = s.rules
  BY AddDevicesToSpecType, AddDevicesToSpecRest
<1>2. u.linux = s.linux /\ u.devices = t.devices
  BY <1>1, AddAllowListRest
<1>3. CASE s.linux = "full"
  <2>1. AddNodes(s, nodes, num) = u
    BY <1>3 DEF AddNodes
  <2>2. ASSUME NEW n \in Node, NEW d \in Dev, t.devices[<<n, d>>] > 0
        PROVE  u.rules[d] > 0
    <3>1. u.rules[d] = IF t.rules[d] = 0 /\ (\E m \in nodes : num[m] = d)
                       THEN 1 ELSE t.rules[d]
      BY <1>1, AddAllowListAt
    <3>2. t.rules[d] \in Nat
      BY <1>1 DEF SpecType
    <3>3. CASE n \in nodes /\ num[n] = d
      BY <3>1, <3>2, <3>3
    <3>4. CASE ~(n \in nodes /\ num[n] = d)
      <4>1. ~Adds(s, nodes, num, n, d)
        BY <3>4 DEF Adds
      <4>2. t.devices[<<n, d>>] = s.devices[<<n, d>>]
        BY <4>1, AddDevicesToSpecAt
      <4>3. s.rules[d] > 0
        BY <1>3, <2>2, <4>2 DEF RulesFollowNodesIn
      <4> QED
        BY <1>1, <3>1, <3>2, <4>3
    <3> QED
      BY <3>3, <3>4
  <2> HIDE DEF t, u
  <2> QED
    BY <1>2, <2>1, <2>2 DEF RulesFollowNodesIn
<1>4. CASE s.linux = "bare"
  BY <1>1, <1>4 DEF AddNodes, RulesFollowNodesIn
<1>5. CASE s.linux = "absent"
  BY <1>5 DEF AddNodes
<1>6. s.linux \in {"absent", "bare", "full"}
  BY DEF SpecType, Linuxes
<1> QED
  BY <1>3, <1>4, <1>5, <1>6

LEMMA ChangeRulesFollow ==
  ASSUME NEW s \in SpecType, NEW t, RulesFollowNodesIn(s), Change(s, t)
  PROVE  RulesFollowNodesIn(t)
<1>1. ASSUME NEW l \in Lifecycle PROVE RulesFollowNodesIn(AddHook(s, l))
  BY DEF AddHook, SpecType, RulesFollowNodesIn
<1>2. ASSUME NEW e \in EnvErrors PROVE RulesFollowNodesIn(AddErrorEnvVar(s, e))
  BY DEF AddErrorEnvVar, SpecType, RulesFollowNodesIn
<1> QED
  BY <1>1, <1>2, AddNodesRulesFollow DEF Change

(* The file alone is not inductive: the save copies the other one to it.   *)
RulesInv == RulesFollowNodesIn(file.spec) /\ RulesFollowNodesIn(spec)

LEMMA RulesInit == Init => RulesInv
BY SpecsAssumption DEF Init, RulesInv

LEMMA RulesStep == TypeOK /\ RulesInv /\ [Next]_vars => RulesInv'
<1> SUFFICES ASSUME TypeOK, RulesInv, [Next]_vars PROVE RulesInv'
  OBVIOUS
<1>1. spec \in SpecType
  BY DEF TypeOK
<1>2. RulesFollowNodesIn(file'.spec)
  BY SpecChanges DEF RulesInv
<1>3. RulesFollowNodesIn(spec')
  BY <1>1, SpecChanges, ChangeRulesFollow DEF RulesInv
<1> QED
  BY <1>2, <1>3 DEF RulesInv, RulesFollowNodesIn

LEMMA RulesInvariant == Spec => []RulesInv
BY RulesInit, RulesStep, TypeCorrect, PTL DEF Spec

(* Every device node in config.json can be opened through the cgroup: its  *)
(* number has a rule, after any sequence of failures and retries.          *)
THEOREM RulesFollowNodesInvariant == Spec => []RulesFollowNodes
<1>1. RulesInv => RulesFollowNodes
  BY DEF RulesInv, RulesFollowNodes
<1> QED
  BY <1>1, RulesInvariant, PTL

------------------------------------------------------------------------------
(***************************************************************************)
(* The specification in memory extends config.json at every step, since    *)
(* it starts as its copy and is only added to.                             *)
(***************************************************************************)
LEMMA ExtendsReflexive ==
  ASSUME NEW s \in SpecType
  PROVE  Extends(s, s)
  BY DEF Extends, SpecType

LEMMA ExtendsTransitive ==
  ASSUME NEW s \in SpecType, NEW t \in SpecType, NEW u \in SpecType,
         Extends(t, s), Extends(u, t)
  PROVE  Extends(u, s)
  BY DEF Extends, SpecType

LEMMA AddHookExtends ==
  ASSUME NEW s \in SpecType, NEW l \in Lifecycle
  PROVE  Extends(AddHook(s, l), s)
  BY DEF AddHook, Extends, SpecType

LEMMA AddErrorExtends ==
  ASSUME NEW s \in SpecType, NEW e \in EnvErrors
  PROVE  Extends(AddErrorEnvVar(s, e), s)
  BY DEF AddErrorEnvVar, Extends, SpecType

LEMMA AddDevicesToSpecExtends ==
  ASSUME NEW s \in SpecType, NEW nodes, NEW num
  PROVE  Extends(AddDevicesToSpec(s, nodes, num), s)
<1> DEFINE t == AddDevicesToSpec(s, nodes, num)
<1>1. ASSUME NEW n \in Node, NEW d \in Dev
      PROVE  t.devices[<<n, d>>] \geq s.devices[<<n, d>>]
  <2>1. s.devices[<<n, d>>] \in Nat
    BY DEF SpecType
  <2>2. CASE Adds(s, nodes, num, n, d)
    <3>1. t.devices[<<n, d>>] = 1
      BY <2>2, AddDevicesToSpecAt
    <3>2. s.devices[<<n, d>>] = 0
      BY <2>2 DEF Adds, Fresh
    <3> QED
      BY <3>1, <3>2
  <2>3. CASE ~Adds(s, nodes, num, n, d)
    BY <2>1, <2>3, AddDevicesToSpecAt
  <2> QED
    BY <2>2, <2>3
<1>2. \A e \in Node \X Dev : t.devices[e] \geq s.devices[e]
  BY <1>1
<1>3. /\ t.env = s.env /\ t.privileged = s.privileged /\ t.linux = s.linux
      /\ t.error = s.error /\ t.hooks = s.hooks /\ t.rules = s.rules
  BY DEF AddDevicesToSpec, SpecType
<1>4. /\ \A l \in Lifecycle : s.hooks[l] \in Nat
      /\ \A d \in Dev : s.rules[d] \in Nat
  BY DEF SpecType
<1> HIDE DEF t
<1>5. Extends(t, s)
  BY <1>2, <1>3, <1>4 DEF Extends
<1> QED
  BY <1>5 DEF t

LEMMA AddAllowListExtends ==
  ASSUME NEW s \in SpecType, NEW nodes, NEW num
  PROVE  Extends(AddAllowList(s, nodes, num), s)
<1> DEFINE t == AddAllowList(s, nodes, num)
<1>1. ASSUME NEW d \in Dev PROVE t.rules[d] \geq s.rules[d]
  <2>1. s.rules[d] \in Nat
    BY DEF SpecType
  <2> QED
    BY <2>1, AddAllowListAt
<1>2. /\ t.env = s.env /\ t.privileged = s.privileged /\ t.linux = s.linux
      /\ t.error = s.error /\ t.hooks = s.hooks /\ t.devices = s.devices
  BY DEF AddAllowList, SpecType
<1>3. /\ \A l \in Lifecycle : s.hooks[l] \in Nat
      /\ \A e \in Node \X Dev : s.devices[e] \in Nat
  BY DEF SpecType
<1> HIDE DEF t
<1>4. Extends(t, s)
  BY <1>1, <1>2, <1>3 DEF Extends
<1> QED
  BY <1>4 DEF t

LEMMA AddNodesExtends ==
  ASSUME NEW s \in SpecType, NEW nodes, NEW num
  PROVE  Extends(AddNodes(s, nodes, num), s)
<1> DEFINE t == AddDevicesToSpec(s, nodes, num)
           u == AddAllowList(t, nodes, num)
<1>1. t \in SpecType /\ Extends(t, s)
  BY AddDevicesToSpecType, AddDevicesToSpecExtends
<1>2. u \in SpecType /\ Extends(u, t)
  BY <1>1, AddAllowListType, AddAllowListExtends
<1>3. Extends(u, s)
  BY <1>1, <1>2, ExtendsTransitive
<1>4. s.linux \in {"absent", "bare", "full"}
  BY DEF SpecType, Linuxes
<1> QED
  BY <1>1, <1>3, <1>4, ExtendsReflexive DEF AddNodes

LEMMA ChangeExtends ==
  ASSUME NEW s \in SpecType, NEW t, Change(s, t)
  PROVE  Extends(t, s)
  BY ExtendsReflexive, AddHookExtends, AddErrorExtends, AddNodesExtends DEF Change

(* No save takes away a hook, a node or a rule, or clears an error: what the *)
(* engine and earlier invocations wrote stays in config.json for good.     *)
THEOREM SpecGrows == Spec => SpecOnlyGrows
<1> DEFINE IInv == Extends(spec, file.spec)
<1>1. Init => IInv
  <2> SUFFICES ASSUME Init PROVE IInv
    OBVIOUS
  <2>1. spec \in SpecType /\ file.spec = spec
    BY DomainAssumption DEF Init
  <2> QED
    BY <2>1, ExtendsReflexive
<1>2. TypeOK /\ TypeOK' /\ IInv /\ [Next]_vars =>
        IInv' /\ [Extends(file'.spec, file.spec)]_file
  <2> SUFFICES ASSUME TypeOK, TypeOK', IInv, [Next]_vars
               PROVE  Extends(spec', file'.spec) /\ Extends(file'.spec, file.spec)
    OBVIOUS
  <2>1. /\ spec \in SpecType /\ file.spec \in SpecType
        /\ spec' \in SpecType /\ file'.spec \in SpecType
    BY DEF TypeOK
  <2>2. CASE file'.spec = spec /\ spec' = spec
    BY <2>1, <2>2, ExtendsReflexive
  <2>3. CASE file'.spec = file.spec /\ spec' = file.spec
    BY <2>1, <2>3, ExtendsReflexive
  <2>4. CASE file'.spec = file.spec /\ Change(spec, spec')
    <3>1. Extends(spec', spec)
      BY <2>1, <2>4, ChangeExtends
    <3>2. Extends(spec', file.spec)
      BY <2>1, <3>1, ExtendsTransitive
    <3> QED
      BY <2>1, <2>4, <3>2, ExtendsReflexive
  <2> QED
    BY <2>2, <2>3, <2>4, SpecChanges
<1> QED
  BY <1>1, <1>2, TypeCorrect, PTL DEF Spec, SpecOnlyGrows

------------------------------------------------------------------------------
(***************************************************************************)
(* Torn files.  From the load to the save the file is whole, and after the *)
(* save it is torn only if that save tore it.                              *)
(***************************************************************************)
Loaded == {"route", "prestart", "createRuntime", "discover", "accelerators",
           "uverbs", "netinfo", "gaudinet", "save"}

TornInv ==
  /\ pc \in Loaded => ~file.torn
  /\ pc \in {"exec", "handed"} /\ cmd = "create" /\ file.torn => saved = "torn"

(* A stage that neither loads nor saves moves within Loaded.               *)
LEMMA LoadedStays ==
  ASSUME TornInv, pc \in Loaded, pc' \in Loaded, UNCHANGED file
  PROVE  TornInv'
  BY DEF TornInv, Loaded

(* A container is never created from a config.json that an earlier         *)
(* invocation tore.                                                        *)
THEOREM TornNeverRuns == Spec => []TornSpecNeverRuns
<1>1. Init => TornInv
  BY DEF Init, TornInv, Loaded
<1>2. TypeOK /\ TornInv /\ [Next]_vars => TornInv'
  <2> SUFFICES ASSUME TypeOK, TornInv, [Next]_vars PROVE TornInv'
    OBVIOUS
  <2>1. ASSUME NEW c \in Commands, Invoke(c) PROVE TornInv'
    BY <2>1 DEF Invoke, TornInv, Loaded
  <2>2. CASE StartFails \/ LoadFails
    BY <2>2 DEF StartFails, LoadFails, Goto, TornInv, Loaded
  <2>3. CASE Start
    BY <2>3 DEF Start, Goto, TornInv, Loaded
  <2>4. CASE LoadSpecs
    BY <2>4 DEF LoadSpecs, Goto, TornInv, Loaded
  <2>5. CASE Route
    <3>1. cfg.mode \in {"oci", "legacy"} /\ Gated(spec) \in BOOLEAN
      BY DEF TypeOK, ConfigType, Gated, IsHabanaContainer
    <3>2. pc = "route" /\ pc' \in Loaded /\ UNCHANGED file
      BY <2>5, <3>1 DEF Route, Goto, Loaded
    <3> QED
      BY <3>2, LoadedStays DEF Loaded
  <2>6. CASE AddPrestartHook
    BY <2>6, LoadedStays DEF AddPrestartHook, AddLifecycleHook, Goto, Loaded
  <2>7. CASE AddCreateRuntimeHook
    BY <2>7, LoadedStays DEF AddCreateRuntimeHook, AddLifecycleHook, Goto, Loaded
  <2>8. CASE Discover
    BY <2>8, LoadedStays DEF Discover, Goto, Loaded
  <2>9. CASE AddAcceleratorDevices
    BY <2>9, LoadedStays DEF AddAcceleratorDevices, AddDevices, Goto, Loaded
  <2>10. CASE AddUverbsDevices
    BY <2>10, LoadedStays DEF AddUverbsDevices, AddDevices, Goto, Loaded
  <2>11. CASE GenerateNetinfo
    BY <2>11, LoadedStays DEF GenerateNetinfo, Goto, Loaded
  <2>12. CASE CopyGaudinet
    BY <2>12, LoadedStays DEF CopyGaudinet, Goto, Loaded
  <2>13. CASE SaveSpecs
    <3>1. pc = "save" /\ ~file.torn /\ pc' \in {"exec", "exited"}
      BY <2>13 DEF SaveSpecs, Goto, TornInv, Loaded
    <3>2. ~file'.torn \/ saved' = "torn"
      BY <2>13, <3>1 DEF SaveSpecs
    <3> QED
      BY <3>1, <3>2 DEF TornInv, Loaded
  <2>14. CASE ExecRunc
    BY <2>14 DEF ExecRunc, Goto, TornInv, Loaded
  <2>15. CASE Kill
    BY <2>15 DEF Kill, Goto, TornInv, Loaded
  <2>16. CASE HostChange
    BY <2>16 DEF HostChange, process, TornInv
  <2>17. CASE UNCHANGED vars
    BY <2>17 DEF vars, process, history, TornInv
  <2> QED
    BY <2>1, <2>2, <2>3, <2>4, <2>5, <2>6, <2>7, <2>8, <2>9, <2>10, <2>11,
       <2>12, <2>13, <2>14, <2>15, <2>16, <2>17
    DEF Next, Step
<1>3. TornInv => TornSpecNeverRuns
  BY DEF TornInv, TornSpecNeverRuns
<1> QED
  BY <1>1, <1>2, <1>3, TypeCorrect, PTL DEF Spec
==============================================================================

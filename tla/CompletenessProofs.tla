--------------------------- MODULE CompletenessProofs ---------------------------
(***************************************************************************)
(* A container that the runtime hands to runc without HABANA_RUNTIME_ERROR *)
(* is complete (NoErrorMeansComplete), and an invocation has nothing to    *)
(* add to what an earlier one saved on the same host, except the error of  *)
(* a network file that it cannot write (RetryIsIdempotent): for any number *)
(* of accelerators, invocations, failures, kills and changes of the host.  *)
(***************************************************************************)
EXTENDS CreateCommandProofs

(***************************************************************************)
(* The inductive invariant: what each stage has done for ids, the devices  *)
(* of this invocation.  In legacy mode, and for a container that fails the *)
(* gate, ids stays empty, and nothing is claimed.                          *)
(***************************************************************************)
NodesDone(s) ==
  /\ s.hooks["createRuntime"] > 0
  /\ cfg.mountAccelerators => \A n \in AcceleratorNodes : Usable(s, n)

MacDone(s) == s.error = NoError /\ ids # {} => rootfs.mac = ids

CopyDone(s) ==
  s.error = NoError /\ calm /\ host.gaudinet = "file" => rootfs.gaudinet = "copied"

AllDone(s) == NodesDone(s) /\ MacDone(s) /\ CopyDone(s)

BeforeDevices == {"start", "load", "route", "prestart", "createRuntime", "discover"}

CompleteInv ==
  /\ pc \in Stages \ {"exec"} => saved = "no"
  /\ pc \in BeforeDevices => ids = {}
  /\ pc \in AtDevices => NodesDone(spec)
  /\ pc = "gaudinet" => MacDone(spec)
  /\ pc = "save" /\ err = NoError /\ ids # {} => AllDone(spec)
  /\ pc \in {"exec", "handed"} /\ saved = "ok" /\ ids # {} => AllDone(file.spec)

------------------------------------------------------------------------------
LEMMA UsableStays ==
  ASSUME NEW s \in SpecType, NEW t \in SpecType, Extends(t, s), NEW n \in Node, Usable(s, n)
  PROVE  Usable(t, n)
<1>1. PICK d \in Dev : s.devices[<<n, d>>] > 0 /\ s.rules[d] > 0
  BY DEF Usable
<1>2. /\ t.devices[<<n, d>>] \geq s.devices[<<n, d>>] /\ t.rules[d] \geq s.rules[d]
      /\ s.devices[<<n, d>>] \in Nat /\ t.devices[<<n, d>>] \in Nat
      /\ s.rules[d] \in Nat /\ t.rules[d] \in Nat
  BY DEF Extends, SpecType
<1>. QED
  BY <1>1, <1>2 DEF Usable

LEMMA NodesStayDone ==
  ASSUME TypeOK, UNCHANGED <<cfg, ids>>, spec' \in SpecType, Extends(spec', spec),
         NodesDone(spec)
  PROVE  NodesDone(spec)'
<1>1. AcceleratorNodes' = AcceleratorNodes /\ AcceleratorNodes \subseteq Node
  BY DEF AcceleratorNodes, TypeOK, Node, Kind
<1>2. \A n \in AcceleratorNodes : Usable(spec, n) => Usable(spec', n)
  BY <1>1, UsableStays DEF TypeOK
<1>3. spec'.hooks["createRuntime"] \geq spec.hooks["createRuntime"]
      /\ spec.hooks["createRuntime"] \in Nat /\ spec'.hooks["createRuntime"] \in Nat
  BY DEF Extends, TypeOK, SpecType, Lifecycle
<1>. QED
  BY <1>1, <1>2, <1>3 DEF NodesDone

(* A reported error takes no node away.                                    *)
LEMMA ReportKeepsNodes ==
  ASSUME TypeOK, UNCHANGED <<cfg, ids>>, NodesDone(spec), NEW e \in EnvErrors, Report(e)
  PROVE  NodesDone(spec)' /\ spec'.error # NoError
<1>1. spec'.error # NoError
  BY DEF Report, AddErrorEnvVar, TypeOK, SpecType, EnvErrors, NoError
<1>2. AcceleratorNodes' = AcceleratorNodes
  BY DEF AcceleratorNodes
<1>3. spec'.hooks = spec.hooks /\ spec'.devices = spec.devices /\ spec'.rules = spec.rules
  BY DEF Report, AddErrorEnvVar, TypeOK, SpecType
<1>. QED
  BY <1>1, <1>2, <1>3 DEF NodesDone, Usable

------------------------------------------------------------------------------
(***************************************************************************)
(* The steps                                                               *)
(***************************************************************************)
LEMMA DevicesComplete ==
  ASSUME TypeOK, TypeOK', RulesInv, StageInv, CompleteInv,
         AddAcceleratorDevices \/ AddUverbsDevices
  PROVE  CompleteInv'
<1>1. /\ UNCHANGED <<cfg, ids, saved>> /\ saved = "no"
      /\ pc \in {"accelerators", "uverbs"} /\ spec' \in SpecType
  BY DEF AddAcceleratorDevices, AddUverbsDevices, AddDevices, Goto, CompleteInv, Stages,
     TypeOK
<1>2. CASE pc' = "save" /\ err' # NoError
  BY <1>1, <1>2 DEF CompleteInv, BeforeDevices, AtDevices
<1>3. CASE /\ pc' = (IF pc = "accelerators" THEN "uverbs" ELSE "netinfo")
           /\ spec'.hooks = spec.hooks /\ Extends(spec', spec)
           /\ pc = "accelerators" /\ cfg.mountAccelerators =>
                \A n \in AcceleratorNodes : Usable(spec', n)
  <2>1. CASE pc = "accelerators"
    <3>1. spec.hooks["createRuntime"] > 0
      BY <2>1, HookSaves DEF StageInv, TypeOK, Lifecycle, Asked
    <3>2. AcceleratorNodes' = AcceleratorNodes
      BY <1>1 DEF AcceleratorNodes
    <3>3. NodesDone(spec)'
      BY <1>1, <1>3, <2>1, <3>1, <3>2 DEF NodesDone
    <3>. QED
      BY <1>1, <1>3, <2>1, <3>3 DEF CompleteInv, BeforeDevices, AtDevices
  <2>2. CASE pc = "uverbs"
    <3>1. NodesDone(spec)'
      BY <1>1, <1>3, <2>2, NodesStayDone DEF CompleteInv, AtDevices
    <3>. QED
      BY <1>1, <1>3, <2>2, <3>1 DEF CompleteInv, BeforeDevices, AtDevices
  <2>. QED
    BY <1>1, <2>1, <2>2
<1>. QED
  BY <1>2, <1>3, DevicesAdded

LEMMA NetinfoComplete ==
  ASSUME TypeOK, TypeOK', CompleteInv, GenerateNetinfo PROVE CompleteInv'
<1>1. /\ UNCHANGED <<cfg, ids, saved>> /\ saved = "no" /\ NodesDone(spec)
      /\ pc = "netinfo" /\ pc' = "gaudinet"
  BY DEF GenerateNetinfo, Goto, CompleteInv, Stages, AtDevices
<1>2. CASE NetinfoWritten(ids) /\ UNCHANGED spec
  <2>1. AcceleratorNodes' = AcceleratorNodes
    BY <1>1 DEF AcceleratorNodes
  <2>2. ids # {} => rootfs'.mac = ids
    BY <1>2 DEF NetinfoWritten, TypeOK, RootfsType
  <2>. QED
    BY <1>1, <1>2, <2>1, <2>2 DEF CompleteInv, BeforeDevices, AtDevices, NodesDone, MacDone
<1>3. CASE Report("netinfo")
  BY <1>1, <1>3, ReportKeepsNodes DEF CompleteInv, BeforeDevices, AtDevices, MacDone,
     EnvErrors
<1>. QED
  BY <1>2, <1>3 DEF GenerateNetinfo

LEMMA GaudinetComplete ==
  ASSUME TypeOK, TypeOK', CompleteInv, CopyGaudinet PROVE CompleteInv'
<1>1. /\ UNCHANGED <<cfg, host, ids, saved, calm>> /\ saved = "no"
      /\ NodesDone(spec) /\ MacDone(spec) /\ pc' = "save"
      /\ rootfs'.mac = rootfs.mac
  BY DEF CopyGaudinet, Goto, CompleteInv, Stages, AtDevices, TypeOK, RootfsType
<1>2. CASE UNCHANGED spec /\ (host.gaudinet = "file" => rootfs'.gaudinet = "copied")
  <2>1. AcceleratorNodes' = AcceleratorNodes
    BY <1>1 DEF AcceleratorNodes
  <2>. QED
    BY <1>1, <1>2, <2>1 DEF CompleteInv, BeforeDevices, AtDevices, AllDone, NodesDone,
       MacDone, CopyDone
<1>3. CASE Report("gaudinet")
  <2>1. NodesDone(spec)' /\ spec'.error # NoError
    BY <1>1, <1>3, ReportKeepsNodes DEF EnvErrors
  <2>. QED
    BY <1>1, <2>1 DEF CompleteInv, BeforeDevices, AtDevices, AllDone, MacDone, CopyDone
<1>. QED
  BY <1>2, <1>3 DEF CopyGaudinet, TypeOK, RootfsType

LEMMA SaveComplete ==
  ASSUME TypeOK, CompleteInv, SaveSpecs PROVE CompleteInv'
<1>1. /\ UNCHANGED <<cfg, host, rootfs, ids, calm>> /\ pc = "save"
      /\ pc' = (IF err = NoError THEN "exec" ELSE "exited")
      /\ saved' = "ok" => file'.spec = spec
  BY DEF SaveSpecs, Goto
<1>2. AcceleratorNodes' = AcceleratorNodes
  BY <1>1 DEF AcceleratorNodes
<1>. QED
  BY <1>1, <1>2 DEF CompleteInv, BeforeDevices, AtDevices, Stages, AllDone, NodesDone,
     MacDone, CopyDone

LEMMA CompleteStep ==
  TypeOK /\ TypeOK' /\ RulesInv /\ StageInv /\ CompleteInv /\ [Next]_vars => CompleteInv'
<1> SUFFICES ASSUME TypeOK, TypeOK', RulesInv, StageInv, CompleteInv, [Next]_vars
             PROVE  CompleteInv'
  OBVIOUS
<1>1. CASE \E c \in Commands : Invoke(c)
  BY <1>1 DEF Invoke, CompleteInv, BeforeDevices, AtDevices
<1>2. CASE Start
  BY <1>2 DEF Start, Goto, CompleteInv, BeforeDevices, AtDevices, Stages
<1>3. CASE StartFails \/ LoadFails \/ Kill
  <2>1. pc' \in {"exited", "killed"}
    BY <1>3 DEF StartFails, LoadFails, Kill, Goto
  <2>. QED
    BY <2>1 DEF CompleteInv, BeforeDevices, AtDevices, Stages
<1>4. CASE LoadSpecs \/ Route \/ AddPrestartHook \/ AddCreateRuntimeHook
  <2>1. /\ UNCHANGED <<ids, saved>> /\ pc \in BeforeDevices /\ pc \in Stages \ {"exec"}
        /\ pc' \in BeforeDevices \cup {"save", "exited"}
    BY <1>4 DEF LoadSpecs, Route, AddPrestartHook, AddCreateRuntimeHook,
       AddLifecycleHook, Goto, BeforeDevices, Stages, Gated, TypeOK, ConfigType
  <2>. QED
    BY <2>1 DEF CompleteInv, BeforeDevices, AtDevices, Stages
<1>5. CASE Discover
  <2>1. /\ saved' = "no" /\ pc' = IF ids' = {} THEN "save" ELSE "accelerators"
    BY <1>5 DEF Discover, Goto, CompleteInv, Stages
  <2>. QED
    BY <2>1 DEF CompleteInv, BeforeDevices, AtDevices
<1>6. CASE ExecRunc
  <2>1. /\ pc = "exec" /\ pc' \in {"handed", "exited"}
        /\ UNCHANGED <<cfg, host, rootfs, file, ids, saved, calm>>
    BY <1>6 DEF ExecRunc, Goto
  <2>2. AcceleratorNodes' = AcceleratorNodes
    BY <2>1 DEF AcceleratorNodes
  <2>. QED
    BY <2>1, <2>2 DEF CompleteInv, BeforeDevices, AtDevices, Stages, AllDone, NodesDone,
       MacDone, CopyDone
<1>7. CASE HostChange
  <2>1. UNCHANGED <<cfg, rootfs, file, pc, spec, ids, err, saved>> /\ ~calm'
    BY <1>7 DEF HostChange, process
  <2>2. AcceleratorNodes' = AcceleratorNodes
    BY <2>1 DEF AcceleratorNodes
  <2>. QED
    BY <2>1, <2>2 DEF CompleteInv, AllDone, NodesDone, MacDone, CopyDone
<1>8. CASE UNCHANGED vars
  <2>1. UNCHANGED <<cfg, host, rootfs, file, pc, spec, ids, err, saved, calm>>
    BY <1>8 DEF vars, process, history
  <2>2. AcceleratorNodes' = AcceleratorNodes
    BY <2>1 DEF AcceleratorNodes
  <2>. QED
    BY <2>1, <2>2 DEF CompleteInv, AllDone, NodesDone, MacDone, CopyDone
<1>. QED
  BY <1>1, <1>2, <1>3, <1>4, <1>5, <1>6, <1>7, <1>8, DevicesComplete, NetinfoComplete,
     GaudinetComplete, SaveComplete DEF Next, Step

(* A container handed to runc without HABANA_RUNTIME_ERROR has its hook,   *)
(* its usable nodes and its network files, whatever happened before, in    *)
(* this invocation and in earlier ones (main.go:94-194).                   *)
THEOREM CompleteWhenHandedOver == Spec => []NoErrorMeansComplete
<1>1. Init => CompleteInv
  BY DEF Init, CompleteInv, BeforeDevices, AtDevices, Stages
<1>2. CompleteInv => NoErrorMeansComplete
  BY DEF CompleteInv, NoErrorMeansComplete, HandedOver, AllDone, NodesDone, MacDone,
     CopyDone
<1>. QED
  BY <1>1, <1>2, CompleteStep, TypeCorrect, RulesInvariant, StageInvariant, PTL DEF Spec

------------------------------------------------------------------------------
(***************************************************************************)
(* Retries.  What a request has nothing left to do for, as the host is:    *)
(* each node is there, and its number has a rule; or the error that stands *)
(* for the missing ones is.                                                *)
(***************************************************************************)
Included(s, nodes) ==
  IF nodes \subseteq PresentNodes(host)
    THEN s.linux # "absent" =>
           \A n \in nodes : Has(s, n) /\ (s.linux = "full" => s.rules[host.num[n]] > 0)
    ELSE s.error # NoError

Ids(s) == RequestedDevices(s.env, PresentNodes(host))
AccelNodes(s) == {"accel", "ctl"} \X Ids(s)
VerbNodes(s)  == {"uverb"} \X (Ids(s) \cap host.verbs)

AccelDone(s) == cfg.mountAccelerators => Included(s, AccelNodes(s))
VerbsDone(s) == cfg.mountUverbs => Included(s, VerbNodes(s))

(* The request goes on after the nodes of the accelerators.                *)
AccelPass(s) ==
  cfg.mountAccelerators => AccelNodes(s) \subseteq PresentNodes(host) /\ ~Panics(s)

NothingToDo(s) ==
  Gated(s) =>
    /\ cfg.mode = "legacy" /\ host.hook => s.hooks["prestart"] > 0
    /\ cfg.mode = "oci" /\ host.hook =>
         /\ s.hooks["createRuntime"] > 0
         /\ Ids(s) # {} =>
              /\ AccelDone(s)
              /\ AccelPass(s) => VerbsDone(s)

(***************************************************************************)
(* The inductive invariant: what the stages of a calm invocation have done *)
(* of it, and that one which follows a settled save adds nothing before it *)
(* comes to the network files, and at most their error there.              *)
(***************************************************************************)
FromHook == {"discover", "accelerators", "uverbs", "netinfo", "gaudinet"}

CalmAt(stage, s, devices) ==
  /\ stage \in {"prestart", "createRuntime"} \cup FromHook => Gated(s)
  /\ stage = "prestart" => cfg.mode = "legacy"
  /\ stage \in FromHook \cup {"createRuntime"} => cfg.mode = "oci"
  /\ stage \in FromHook => host.hook /\ s.hooks["createRuntime"] > 0
  /\ stage \in FromHook \ {"discover"} => devices = Ids(s) /\ devices # {}
  /\ stage \in AtDevices => AccelDone(s) /\ AccelPass(s)
  /\ stage \in {"netinfo", "gaudinet"} => VerbsDone(s)
  /\ stage = "save" => NothingToDo(s)

CalmStages == calm => CalmAt(pc, spec, ids)

(* What a retry may save.                                                  *)
Retried(s) ==
  \/ s = file.spec
  \/ /\ lastError \in FileErrors
     /\ \E e \in FileErrors : s = AddErrorEnvVar(file.spec, e)

AfterFiles == {"gaudinet", "save"}

SettledBundle ==
  settled =>
    /\ pc \notin Resting => calm
    /\ NothingToDo(file.spec)
    /\ pc \in Loaded \ AfterFiles => spec = file.spec
    /\ pc \in AfterFiles => Retried(spec)

RetryInv == CalmStages /\ SettledBundle

------------------------------------------------------------------------------
(* Nodes that are included are not added again.                            *)
LEMMA IncludedAddsNothing ==
  ASSUME TypeOK, NEW s \in SpecType, NEW nodes \in SUBSET Node,
         nodes \subseteq PresentNodes(host), Included(s, nodes)
  PROVE  AddNodes(s, nodes, host.num) = s
<1>. DEFINE num == host.num
<1>1. \A n \in nodes : num[n] \in Dev
  BY DEF PresentNodes, TypeOK, HostType
<1>2. s.linux \in {"absent", "bare", "full"}
  BY DEF SpecType, Linuxes
<1>3. ASSUME s.linux # "absent" PROVE AddDevicesToSpec(s, nodes, num) = s
  <2>. DEFINE Count(e) == IF /\ e[1] \in nodes
                             /\ num[e[1]] = e[2]
                             /\ \A d2 \in Dev : s.devices[<<e[1], d2>>] = 0
                          THEN s.devices[e] + 1
                          ELSE s.devices[e]
              new == [e \in Node \X Dev |-> Count(e)]
  <2>1. AddDevicesToSpec(s, nodes, num) = [s EXCEPT !.devices = new]
    BY DEF AddDevicesToSpec
  <2>2. ASSUME NEW e \in Node \X Dev PROVE Count(e) = s.devices[e]
    <3> SUFFICES ASSUME e[1] \in nodes PROVE ~\A d2 \in Dev : s.devices[<<e[1], d2>>] = 0
      OBVIOUS
    <3>1. PICK d \in Dev : s.devices[<<e[1], d>>] > 0
      BY <1>3 DEF Included, Has
    <3>. QED
      BY <3>1
  <2>3. s.devices \in [Node \X Dev -> Nat]
    BY DEF SpecType
  <2>. HIDE DEF Count
  <2>4. new = s.devices
    BY <2>2, <2>3
  <2>. HIDE DEF new
  <2>. QED
    BY <2>1, <2>4 DEF SpecType
<1>4. ASSUME s.linux = "full" PROVE AddAllowList(s, nodes, num) = s
  <2>. DEFINE Rule(d) == IF s.rules[d] = 0 /\ (\E n \in nodes : num[n] = d) THEN 1 ELSE s.rules[d]
              new == [d \in Dev |-> Rule(d)]
  <2>1. AddAllowList(s, nodes, num) = [s EXCEPT !.rules = new]
    BY DEF AddAllowList
  <2>2. ASSUME NEW d \in Dev PROVE Rule(d) = s.rules[d]
    <3> SUFFICES ASSUME NEW n \in nodes, num[n] = d PROVE s.rules[d] # 0
      OBVIOUS
    <3>1. s.rules[d] > 0
      BY <1>4 DEF Included
    <3>. QED
      BY <3>1
  <2>3. s.rules \in [Dev -> Nat]
    BY DEF SpecType
  <2>. HIDE DEF Rule
  <2>4. new = s.rules
    BY <2>2, <2>3
  <2>. HIDE DEF new
  <2>. QED
    BY <2>1, <2>4 DEF SpecType
<1>. QED
  BY <1>2, <1>3, <1>4 DEF AddNodes

LEMMA AddNodesRest ==
  ASSUME NEW s \in SpecType, NEW nodes, NEW num
  PROVE  LET t == AddNodes(s, nodes, num)
         IN  /\ t \in SpecType /\ t.env = s.env /\ t.linux = s.linux
             /\ t.error = s.error /\ t.hooks = s.hooks
<1>. DEFINE u == AddDevicesToSpec(s, nodes, num)
            v == AddAllowList(u, nodes, num)
<1>1. s.linux \in {"absent", "bare", "full"}
  BY DEF SpecType, Linuxes
<1>2. u \in SpecType /\ v \in SpecType
  BY AddDevicesToSpecType, AddAllowListType
<1>3. /\ u.env = s.env /\ u.linux = s.linux /\ u.error = s.error /\ u.hooks = s.hooks
      /\ v.env = u.env /\ v.linux = u.linux /\ v.error = u.error /\ v.hooks = u.hooks
  BY <1>2, AddDevicesToSpecRest, AddAllowListRest
<1>4. AddNodes(s, nodes, num) \in {s, u, v}
  BY <1>1 DEF AddNodes
<1>. HIDE DEF u, v
<1>. QED
  BY <1>2, <1>3, <1>4

(* Nodes that were added are included, and included nodes stay.            *)
LEMMA AddedAreIncluded ==
  ASSUME TypeOK, NEW s \in SpecType, NEW nodes \in SUBSET Node,
         nodes \subseteq PresentNodes(host)
  PROVE  Included(AddNodes(s, nodes, host.num), nodes)
<1>. DEFINE t == AddNodes(s, nodes, host.num)
            u == AddDevicesToSpec(s, nodes, host.num)
<1>1. t.linux = s.linux
  BY AddNodesRest
<1>2. \A n \in nodes : host.num[n] \in Dev
  BY DEF PresentNodes, TypeOK, HostType
<1>3. ASSUME s.linux # "absent", NEW n \in nodes PROVE Has(t, n)
  BY <1>2, <1>3, AddNodesHas
<1>4. ASSUME s.linux = "full", NEW n \in nodes PROVE t.rules[host.num[n]] > 0
  <2>1. u \in SpecType
    BY AddDevicesToSpecType
  <2>2. t = AddAllowList(u, nodes, host.num)
    BY <1>4 DEF AddNodes
  <2>3. host.num[n] \in Dev /\ u.rules[host.num[n]] \in Nat
    BY <1>2, <2>1 DEF SpecType
  <2>. HIDE DEF u, t
  <2>4. t.rules[host.num[n]] = IF u.rules[host.num[n]] = 0 THEN 1 ELSE u.rules[host.num[n]]
    BY <2>1, <2>2, <2>3, AddAllowListAt
  <2>. QED
    BY <2>3, <2>4
<1>. HIDE DEF t
<1>5. Included(t, nodes)
  BY <1>1, <1>3, <1>4 DEF Included
<1>. QED
  BY <1>5 DEF t

LEMMA IncludedStays ==
  ASSUME TypeOK, NEW s \in SpecType, NEW t \in SpecType, Extends(t, s),
         NEW nodes \in SUBSET Node, Included(s, nodes)
  PROVE  Included(t, nodes)
<1>1. CASE nodes \subseteq PresentNodes(host)
  <2> SUFFICES ASSUME s.linux # "absent", NEW n \in nodes
               PROVE  Has(t, n) /\ (s.linux = "full" => t.rules[host.num[n]] > 0)
    BY <1>1 DEF Included, Extends
  <2>1. host.num[n] \in Dev
    BY <1>1 DEF PresentNodes, TypeOK, HostType
  <2>2. PICK d \in Dev : s.devices[<<n, d>>] > 0
    BY <1>1 DEF Included, Has
  <2>3. t.devices[<<n, d>>] \geq s.devices[<<n, d>>]
        /\ s.devices[<<n, d>>] \in Nat /\ t.devices[<<n, d>>] \in Nat
    BY DEF Extends, SpecType
  <2>4. t.rules[host.num[n]] \geq s.rules[host.num[n]]
        /\ s.rules[host.num[n]] \in Nat /\ t.rules[host.num[n]] \in Nat
    BY <2>1 DEF Extends, SpecType
  <2>5. s.linux = "full" => s.rules[host.num[n]] > 0
    BY <1>1 DEF Included
  <2>. QED
    BY <2>2, <2>3, <2>4, <2>5 DEF Has
<1>2. CASE ~(nodes \subseteq PresentNodes(host))
  BY <1>2 DEF Included, Extends
<1>. QED
  BY <1>1, <1>2

(* What the environment selects on this host.                              *)
LEMMA RequestedNodes ==
  ASSUME TypeOK, NEW s
  PROVE  /\ Ids(s) \in SUBSET Num
         /\ AccelNodes(s) \in SUBSET Node /\ VerbNodes(s) \in SUBSET Node
<1>1. PresentNodes(host) \in SUBSET Node
  BY DEF PresentNodes
<1>. QED
  BY <1>1, RequestedAreNumbers DEF Ids, AccelNodes, VerbNodes, Node, Kind

(* A specification that grows keeps what was done for it.                  *)
LEMMA DoneStays ==
  ASSUME TypeOK, NEW s \in SpecType, NEW t \in SpecType, Extends(t, s)
  PROVE  /\ Gated(t) = Gated(s) /\ Ids(t) = Ids(s)
         /\ AccelDone(s) => AccelDone(t)
         /\ VerbsDone(s) => VerbsDone(t)
         /\ AccelPass(t) = AccelPass(s)
         /\ \A l \in Lifecycle : s.hooks[l] > 0 => t.hooks[l] > 0
<1>1. t.env = s.env /\ t.linux = s.linux /\ (s.error # NoError => t.error # NoError)
  BY DEF Extends
<1>2. Ids(t) = Ids(s) /\ AccelNodes(t) = AccelNodes(s) /\ VerbNodes(t) = VerbNodes(s)
  BY <1>1 DEF Ids, AccelNodes, VerbNodes
<1>3. /\ Included(s, AccelNodes(s)) => Included(t, AccelNodes(s))
      /\ Included(s, VerbNodes(s)) => Included(t, VerbNodes(s))
  BY RequestedNodes, IncludedStays
<1>4. Gated(t) = Gated(s)
  BY <1>1 DEF Gated
<1>5. ASSUME NEW l \in Lifecycle, s.hooks[l] > 0 PROVE t.hooks[l] > 0
  <2>1. t.hooks[l] \geq s.hooks[l] /\ s.hooks[l] \in Nat /\ t.hooks[l] \in Nat
    BY DEF Extends, SpecType
  <2>. QED
    BY <1>5, <2>1
<1>. QED
  BY <1>1, <1>2, <1>3, <1>4, <1>5 DEF AccelDone, VerbsDone, AccelPass, Panics

(***************************************************************************)
(* A step of the invocation, on the host it finds                          *)
(***************************************************************************)
LEMMA SameHost ==
  ASSUME UNCHANGED <<cfg, host>>
  PROVE  /\ CalmAt(pc, spec, ids)' <=> CalmAt(pc', spec', ids')
         /\ NothingToDo(file.spec)' <=> NothingToDo(file'.spec)
<1>1. \A t : Gated(t)' <=> Gated(t)
  BY DEF Gated
<1>2. \A t : (Ids(t))' = Ids(t)
  BY DEF Ids, PresentNodes
<1>3. \A t : AccelNodes(t)' = AccelNodes(t) /\ VerbNodes(t)' = VerbNodes(t)
  BY <1>2 DEF AccelNodes, VerbNodes
<1>4. \A t, nodes : Included(t, nodes)' <=> Included(t, nodes)
  BY DEF Included, PresentNodes
<1>5. \A t : AccelDone(t)' <=> AccelDone(t)
  BY <1>3, <1>4 DEF AccelDone
<1>6. \A t : VerbsDone(t)' <=> VerbsDone(t)
  BY <1>3, <1>4 DEF VerbsDone
<1>7. \A t : AccelPass(t)' <=> AccelPass(t)
  BY <1>3 DEF AccelPass, PresentNodes
<1>8. \A t : NothingToDo(t)' <=> NothingToDo(t)
  BY <1>1, <1>2, <1>5, <1>6, <1>7 DEF NothingToDo
<1>9. \A stage, t, devices : CalmAt(stage, t, devices)' <=> CalmAt(stage, t, devices)
  BY <1>1, <1>2, <1>5, <1>6, <1>7, <1>8 DEF CalmAt
<1>. QED
  BY <1>8, <1>9

LEMMA Moves ==
  ASSUME RetryInv, UNCHANGED <<cfg, host, file, calm, settled>>, pc \notin Resting,
         calm => CalmAt(pc', spec', ids'),
         settled /\ pc' \in Loaded =>
           spec' = file.spec \/ (pc' \in AfterFiles /\ Retried(spec)')
  PROVE  RetryInv'
BY SameHost DEF RetryInv, CalmStages, SettledBundle, Retried, AfterFiles, Loaded

(* Stages at which nothing is claimed.                                     *)
LEMMA NothingAt ==
  ASSUME NEW stage \in Resting \cup {"start", "load", "exec"}, NEW s, NEW devices
  PROVE  CalmAt(stage, s, devices)
BY DEF CalmAt, FromHook, AtDevices, Resting

LEMMA QuietSteps ==
  ASSUME RetryInv, StartFails \/ Start \/ LoadSpecs \/ LoadFails \/ ExecRunc
  PROVE  RetryInv'
<1>1. /\ UNCHANGED <<cfg, host, file, calm, settled, rootfs>> /\ pc \notin Resting
      /\ pc' \in Resting \cup {"load", "exec", "route"}
      /\ pc' = "route" => spec' = file.spec
  BY DEF StartFails, Start, LoadSpecs, LoadFails, ExecRunc, Goto, Resting
<1>2. CalmAt(pc', spec', ids')
  <2>1. CASE pc' = "route"
    BY <2>1 DEF CalmAt, FromHook, AtDevices
  <2>2. CASE pc' \in Resting \cup {"start", "load", "exec"}
    BY <2>2, NothingAt DEF Resting
  <2>. QED
    BY <1>1, <2>1, <2>2
<1>3. pc' \in Loaded => spec' = file.spec
  BY <1>1 DEF Loaded, Resting
<1>. QED
  BY <1>1, <1>2, <1>3, Moves

LEMMA RouteStep == ASSUME TypeOK, RetryInv, Route PROVE RetryInv'
<1>1. /\ UNCHANGED <<cfg, host, file, calm, settled, rootfs, spec, ids>> /\ pc = "route"
      /\ \/ pc' = "save" /\ ~Gated(spec)
         \/ pc' = "prestart" /\ Gated(spec) /\ cfg.mode = "legacy"
         \/ pc' = "createRuntime" /\ Gated(spec) /\ cfg.mode = "oci"
  BY DEF Route, Goto, TypeOK, ConfigType
<1>2. CalmAt(pc', spec', ids')
  BY <1>1 DEF CalmAt, FromHook, AtDevices, NothingToDo
<1>3. settled => spec' = file.spec
  BY <1>1 DEF RetryInv, SettledBundle, Loaded, AfterFiles
<1>. QED
  BY <1>1, <1>2, <1>3, Moves DEF Resting

(* What an invocation that follows a settled save finds, up to the files.  *)
LEMMA Quiet ==
  ASSUME RetryInv, settled, pc \in Loaded \ AfterFiles
  PROVE  calm /\ spec = file.spec /\ NothingToDo(spec) /\ CalmAt(pc, spec, ids)
BY DEF RetryInv, CalmStages, SettledBundle, Loaded, Resting

LEMMA HookSteps ==
  ASSUME TypeOK, RetryInv, AddPrestartHook \/ AddCreateRuntimeHook
  PROVE  RetryInv'
<1>1. /\ UNCHANGED <<cfg, host, file, calm, settled, rootfs, ids>>
      /\ pc \in Loaded \ AfterFiles /\ pc \notin Resting /\ pc' \in {"save", "discover"}
      /\ pc = "prestart" => pc' = "save"
      /\ pc \in Lifecycle
  BY DEF AddPrestartHook, AddCreateRuntimeHook, AddLifecycleHook, Goto, Loaded, Resting,
     Lifecycle, AfterFiles
<1>2. \/ host.hook /\ spec' = AddHook(spec, pc) /\ (pc = "createRuntime" => pc' = "discover")
      \/ ~host.hook /\ spec' = spec /\ pc' = "save"
  BY DEF AddPrestartHook, AddCreateRuntimeHook, AddLifecycleHook, Goto
<1>3. AddHook(spec, pc) \in SpecType /\ Extends(AddHook(spec, pc), spec)
  BY <1>1, AddHookType, AddHookExtends DEF TypeOK
<1>4. host.hook => spec'.hooks[pc] > 0
  BY <1>1, <1>2 DEF AddHook, TypeOK, SpecType
<1>5. Gated(spec') = Gated(spec)
  BY <1>2, <1>3 DEF Extends, Gated
<1>6. ASSUME calm PROVE CalmAt(pc', spec', ids')
  <2>1. CalmAt(pc, spec, ids)
    BY <1>6 DEF RetryInv, CalmStages
  <2>2. Gated(spec) /\ (pc = "prestart" => cfg.mode = "legacy")
        /\ (pc = "createRuntime" => cfg.mode = "oci")
    BY <1>1, <2>1 DEF CalmAt, Lifecycle
  <2>3. CASE pc = "prestart"
    BY <1>1, <1>4, <2>2, <2>3 DEF CalmAt, FromHook, AtDevices, NothingToDo
  <2>4. CASE pc = "createRuntime" /\ host.hook
    BY <1>1, <1>2, <1>4, <1>5, <2>2, <2>4 DEF CalmAt, FromHook, AtDevices
  <2>5. CASE pc = "createRuntime" /\ ~host.hook
    BY <1>1, <1>2, <2>2, <2>5 DEF CalmAt, FromHook, AtDevices, NothingToDo
  <2>. QED
    BY <1>1, <2>3, <2>4, <2>5 DEF Lifecycle
<1>7. ASSUME settled PROVE spec' = file.spec
  <2>1. spec = file.spec /\ NothingToDo(spec) /\ CalmAt(pc, spec, ids)
    BY <1>1, <1>7, Quiet
  <2>2. host.hook => spec.hooks[pc] > 0
    BY <1>1, <2>1 DEF NothingToDo, CalmAt, Lifecycle
  <2>. QED
    BY <1>2, <2>1, <2>2 DEF AddHook
<1>. QED
  BY <1>1, <1>6, <1>7, Moves

LEMMA DiscoverStep == ASSUME RetryInv, Discover PROVE RetryInv'
<1>1. /\ UNCHANGED <<cfg, host, file, calm, settled, rootfs, spec>>
      /\ pc = "discover" /\ ids' = Ids(spec)
      /\ pc' = IF ids' = {} THEN "save" ELSE "accelerators"
  BY DEF Discover, Goto, Ids
<1>2. ASSUME calm PROVE CalmAt(pc', spec', ids')
  <2>1. /\ Gated(spec) /\ cfg.mode = "oci" /\ host.hook
        /\ spec.hooks["createRuntime"] > 0
    BY <1>1, <1>2 DEF RetryInv, CalmStages, CalmAt, FromHook
  <2>. QED
    BY <1>1, <2>1 DEF CalmAt, FromHook, AtDevices, NothingToDo
<1>3. settled => spec' = file.spec
  BY <1>1, Quiet DEF Loaded, AfterFiles
<1>. QED
  BY <1>1, <1>2, <1>3, Moves DEF Resting

(* What addAcceleratorDevices and addUverbsDevices do for their nodes.     *)
LEMMA DevicesStep ==
  ASSUME TypeOK, NEW nodes \in SUBSET Node, NEW e \in {"accelerator", "uverb"}, NEW next,
         AddDevices(nodes, e, next)
  PROVE  /\ spec' \in SpecType /\ Extends(spec', spec) /\ Included(spec', nodes)
         /\ Included(spec, nodes) => spec' = spec
         /\ pc' = IF nodes \subseteq PresentNodes(host) /\ ~Panics(spec)
                  THEN next ELSE "save"
         /\ UNCHANGED <<cfg, host, calm>>
<1>1. UNCHANGED <<cfg, host, calm>>
  BY DEF AddDevices, Goto
<1>2. spec \in SpecType /\ e \in EnvErrors
  BY DEF TypeOK, EnvErrors
<1>3. CASE nodes \subseteq PresentNodes(host)
  <2>1. spec' = AddNodes(spec, nodes, host.num)
    BY <1>3 DEF AddDevices
  <2>2. pc' = IF ~Panics(spec) THEN next ELSE "save"
    BY <1>3 DEF AddDevices, Goto
  <2>. QED
    BY <1>1, <1>2, <1>3, <2>1, <2>2, AddNodesType, AddNodesExtends, AddedAreIncluded,
       IncludedAddsNothing
<1>4. CASE ~(nodes \subseteq PresentNodes(host))
  <2>1. spec' = AddErrorEnvVar(spec, e) /\ pc' = "save"
    BY <1>4 DEF AddDevices, Goto
  <2>2. spec'.error # NoError /\ (spec.error # NoError => spec' = spec)
    BY <1>2, <2>1 DEF AddErrorEnvVar, SpecType, EnvErrors, NoError
  <2>. QED
    BY <1>1, <1>2, <1>4, <2>1, <2>2, AddErrorEnvVarType, AddErrorExtends DEF Included
<1>. QED
  BY <1>3, <1>4

LEMMA AcceleratorStep == ASSUME TypeOK, RetryInv, AddAcceleratorDevices PROVE RetryInv'
<1>1. /\ UNCHANGED <<cfg, host, file, calm, settled, rootfs, ids>>
      /\ pc = "accelerators" /\ pc' \in {"uverbs", "save"}
  BY DEF AddAcceleratorDevices, AddDevices, Goto
<1>2. ASSUME calm
      PROVE  CalmAt(pc', spec', ids') /\ (AccelDone(spec) => spec' = spec)
  <2>1. /\ Gated(spec) /\ cfg.mode = "oci" /\ host.hook
        /\ spec.hooks["createRuntime"] > 0 /\ ids = Ids(spec) /\ ids # {}
    BY <1>1, <1>2 DEF RetryInv, CalmStages, CalmAt, FromHook
  <2>2. AcceleratorNodes = AccelNodes(spec) /\ AccelNodes(spec) \in SUBSET Node
    BY <2>1, RequestedNodes DEF AcceleratorNodes, AccelNodes
  <2>3. /\ spec' \in SpecType /\ Extends(spec', spec)
        /\ cfg.mountAccelerators => Included(spec', AccelNodes(spec))
        /\ AccelDone(spec) => spec' = spec
        /\ pc' = IF AccelPass(spec) THEN "uverbs" ELSE "save"
    <3>1. CASE cfg.mountAccelerators
      <4>1. AddDevices(AccelNodes(spec), "accelerator", "uverbs")
        BY <2>2, <3>1 DEF AddAcceleratorDevices
      <4>. QED
        BY <2>2, <3>1, <4>1, DevicesStep DEF AccelDone, AccelPass
    <3>2. CASE ~cfg.mountAccelerators
      <4>1. spec' = spec /\ pc' = "uverbs"
        BY <3>2 DEF AddAcceleratorDevices, Goto
      <4>. QED
        BY <3>2, <4>1, ExtendsReflexive DEF AccelPass, TypeOK
    <3>. QED
      BY <3>1, <3>2
  <2>4. AccelDone(spec')
    BY <2>3 DEF AccelDone, AccelNodes, Ids, Extends
  <2>5. /\ Gated(spec') /\ Ids(spec') = Ids(spec) /\ AccelPass(spec') = AccelPass(spec)
        /\ spec'.hooks["createRuntime"] > 0
    BY <2>1, <2>3, DoneStays DEF TypeOK, Lifecycle
  <2>. QED
    BY <1>1, <2>1, <2>3, <2>4, <2>5 DEF CalmAt, FromHook, AtDevices, NothingToDo
<1>3. ASSUME settled PROVE spec' = file.spec
  <2>1. calm /\ spec = file.spec /\ NothingToDo(spec) /\ CalmAt(pc, spec, ids)
    BY <1>1, <1>3, Quiet DEF Loaded, AfterFiles
  <2>2. AccelDone(spec)
    BY <1>1, <2>1 DEF NothingToDo, CalmAt, FromHook
  <2>. QED
    BY <1>2, <2>1, <2>2
<1>. QED
  BY <1>1, <1>2, <1>3, Moves DEF Resting

LEMMA UverbsStep == ASSUME TypeOK, RetryInv, AddUverbsDevices PROVE RetryInv'
<1>1. /\ UNCHANGED <<cfg, host, file, calm, settled, rootfs, ids>>
      /\ pc = "uverbs" /\ pc' \in {"netinfo", "save"}
  BY DEF AddUverbsDevices, AddDevices, Goto
<1>2. ASSUME calm
      PROVE  CalmAt(pc', spec', ids') /\ (VerbsDone(spec) => spec' = spec)
  <2>1. /\ Gated(spec) /\ cfg.mode = "oci" /\ host.hook
        /\ spec.hooks["createRuntime"] > 0 /\ ids = Ids(spec) /\ ids # {}
        /\ AccelDone(spec) /\ AccelPass(spec)
    BY <1>1, <1>2 DEF RetryInv, CalmStages, CalmAt, FromHook, AtDevices
  <2>2. UverbNodes = VerbNodes(spec) /\ VerbNodes(spec) \in SUBSET Node
    BY <2>1, RequestedNodes DEF UverbNodes, VerbNodes
  <2>3. /\ spec' \in SpecType /\ Extends(spec', spec)
        /\ cfg.mountUverbs => Included(spec', VerbNodes(spec))
        /\ VerbsDone(spec) => spec' = spec
    <3>1. CASE cfg.mountUverbs
      <4>1. AddDevices(VerbNodes(spec), "uverb", "netinfo")
        BY <2>2, <3>1 DEF AddUverbsDevices
      <4>. QED
        BY <2>2, <3>1, <4>1, DevicesStep DEF VerbsDone
    <3>2. CASE ~cfg.mountUverbs
      <4>1. spec' = spec
        BY <3>2 DEF AddUverbsDevices
      <4>. QED
        BY <3>2, <4>1, ExtendsReflexive DEF TypeOK
    <3>. QED
      BY <3>1, <3>2
  <2>4. VerbsDone(spec')
    BY <2>3 DEF VerbsDone, VerbNodes, Ids, Extends
  <2>5. /\ Gated(spec') /\ Ids(spec') = Ids(spec) /\ AccelDone(spec')
        /\ AccelPass(spec') /\ spec'.hooks["createRuntime"] > 0
    BY <2>1, <2>3, DoneStays DEF TypeOK, Lifecycle
  <2>. QED
    BY <1>1, <2>1, <2>3, <2>4, <2>5 DEF CalmAt, FromHook, AtDevices, NothingToDo
<1>3. ASSUME settled PROVE spec' = file.spec
  <2>1. calm /\ spec = file.spec /\ NothingToDo(spec) /\ CalmAt(pc, spec, ids)
    BY <1>1, <1>3, Quiet DEF Loaded, AfterFiles
  <2>2. VerbsDone(spec)
    BY <1>1, <2>1 DEF NothingToDo, CalmAt, FromHook, AtDevices
  <2>. QED
    BY <1>2, <2>1, <2>2
<1>. QED
  BY <1>1, <1>2, <1>3, Moves DEF Resting

(* Generate and GaudinetFile change nothing, or report their error.        *)
LEMMA ReportOrNot ==
  ASSUME TypeOK, NEW e \in FileErrors,
         (spec' = spec /\ lastError' = lastError) \/ Report(e), UNCHANGED file
  PROVE  /\ spec' \in SpecType /\ Extends(spec', spec)
         /\ Retried(spec) => Retried(spec)'
<1>1. spec \in SpecType /\ file.spec \in SpecType /\ e \in EnvErrors /\ FileErrors \subseteq EnvErrors
  BY DEF TypeOK, FileErrors, EnvErrors
<1>2. CASE spec' = spec /\ lastError' = lastError
  BY <1>1, <1>2, ExtendsReflexive DEF Retried
<1>3. CASE Report(e)
  <2>1. spec' = AddErrorEnvVar(spec, e) /\ lastError' = e
    BY <1>3 DEF Report
  <2>2. ASSUME NEW f \in FileErrors, spec = AddErrorEnvVar(file.spec, f)
        PROVE  spec' = AddErrorEnvVar(file.spec, f)
    <3>1. spec.error # NoError
      BY <1>1, <2>2 DEF AddErrorEnvVar, SpecType, EnvErrors, NoError
    <3>. QED
      BY <2>1, <2>2, <3>1 DEF AddErrorEnvVar
  <2>3. Retried(spec) => Retried(spec)'
    BY <2>1, <2>2 DEF Retried
  <2>. QED
    BY <1>1, <2>1, <2>3, AddErrorEnvVarType, AddErrorExtends
<1>. QED
  BY <1>2, <1>3

LEMMA FileSteps ==
  ASSUME TypeOK, RetryInv, GenerateNetinfo \/ CopyGaudinet
  PROVE  RetryInv'
<1>1. /\ UNCHANGED <<cfg, host, file, calm, settled, ids>>
      /\ \/ pc = "netinfo" /\ pc' = "gaudinet"
         \/ pc = "gaudinet" /\ pc' = "save"
  BY DEF GenerateNetinfo, CopyGaudinet, Goto
<1>2. PICK e \in FileErrors : (spec' = spec /\ lastError' = lastError) \/ Report(e)
  BY DEF GenerateNetinfo, CopyGaudinet, FileErrors
<1>3. /\ spec' \in SpecType /\ Extends(spec', spec)
      /\ Retried(spec) => Retried(spec)'
  BY <1>1, <1>2, ReportOrNot
<1>4. ASSUME calm PROVE CalmAt(pc', spec', ids')
  <2>1. /\ Gated(spec) /\ cfg.mode = "oci" /\ host.hook
        /\ spec.hooks["createRuntime"] > 0 /\ ids = Ids(spec) /\ ids # {}
        /\ AccelDone(spec) /\ AccelPass(spec) /\ VerbsDone(spec)
    BY <1>1, <1>4 DEF RetryInv, CalmStages, CalmAt, FromHook, AtDevices
  <2>2. /\ Gated(spec') /\ Ids(spec') = Ids(spec) /\ AccelDone(spec') /\ AccelPass(spec')
        /\ VerbsDone(spec') /\ spec'.hooks["createRuntime"] > 0
    BY <2>1, <1>3, DoneStays DEF TypeOK, Lifecycle
  <2>. QED
    BY <1>1, <2>1, <2>2 DEF CalmAt, FromHook, AtDevices, NothingToDo
<1>5. settled => Retried(spec)
  BY <1>1 DEF RetryInv, SettledBundle, Loaded, AfterFiles, Retried
<1>6. pc' \in AfterFiles /\ pc \notin Resting
  BY <1>1 DEF AfterFiles, Resting
<1>. QED
  BY <1>1, <1>3, <1>4, <1>5, <1>6, Moves

(***************************************************************************)
(* The steps that write config.json, and those of the environment          *)
(***************************************************************************)
LEMMA SaveStep == ASSUME TypeOK, RetryInv, SaveSpecs PROVE RetryInv'
<1>1. /\ UNCHANGED <<cfg, host, rootfs, spec, ids, calm>>
      /\ pc = "save" /\ pc' \in {"exec", "exited"}
  BY DEF SaveSpecs, Goto
<1>2. \/ file'.spec = spec /\ settled' = calm
      \/ file'.spec = file.spec /\ settled' = settled
  BY DEF SaveSpecs, TypeOK
<1>3. calm => NothingToDo(spec)
  BY <1>1 DEF RetryInv, CalmStages, CalmAt
<1>4. settled => calm /\ NothingToDo(file.spec)
  BY <1>1 DEF RetryInv, SettledBundle, Resting
<1>5. CalmAt(pc', spec', ids') /\ pc' \notin Loaded \cup AfterFiles
  BY <1>1, NothingAt DEF Resting, Loaded, AfterFiles
<1>. QED
  BY <1>1, <1>2, <1>3, <1>4, <1>5, SameHost DEF RetryInv, CalmStages, SettledBundle

LEMMA InvokeStep ==
  ASSUME RetryInv, NEW c \in Commands, Invoke(c)
  PROVE  RetryInv'
<1>1. /\ UNCHANGED <<cfg, host, rootfs, file, settled>> /\ calm' = TRUE /\ pc' = "start"
  BY DEF Invoke
<1>2. CalmAt(pc', spec', ids') /\ pc' \notin Loaded \cup AfterFiles
  BY <1>1, NothingAt DEF Loaded, AfterFiles
<1>. QED
  BY <1>1, <1>2, SameHost DEF RetryInv, CalmStages, SettledBundle

LEMMA KillStep == ASSUME TypeOK, RetryInv, Kill PROVE RetryInv'
<1>1. /\ UNCHANGED <<cfg, host, rootfs, settled>> /\ pc' = "killed"
      /\ file'.spec = file.spec
  BY DEF Kill, Goto, TypeOK
<1>2. CalmAt(pc', spec', ids') /\ pc' \notin Loaded \cup AfterFiles /\ pc' \in Resting
  BY <1>1, NothingAt DEF Loaded, AfterFiles, Resting
<1>. QED
  BY <1>1, <1>2, SameHost DEF RetryInv, CalmStages, SettledBundle

LEMMA RetryStep == TypeOK /\ RetryInv /\ [Next]_vars => RetryInv'
<1> SUFFICES ASSUME TypeOK, RetryInv, [Next]_vars PROVE RetryInv'
  OBVIOUS
<1>1. CASE HostChange
  BY <1>1 DEF HostChange, RetryInv, CalmStages, SettledBundle
<1>2. CASE UNCHANGED vars
  <2>1. UNCHANGED <<cfg, host, file, pc, spec, ids, lastError, calm, settled>>
    BY <1>2 DEF vars, process, history
  <2>. QED
    BY <2>1, SameHost DEF RetryInv, CalmStages, SettledBundle, Retried
<1>. QED
  BY <1>1, <1>2, QuietSteps, RouteStep, HookSteps, DiscoverStep, AcceleratorStep,
     UverbsStep, FileSteps, SaveStep, InvokeStep, KillStep
     DEF Next, Step

(* After an invocation that saved on a steady host, a later one on the     *)
(* unchanged host saves config.json as it is, or with the error of a       *)
(* network file that it could not write and no other change, however often *)
(* the engine retries, and whatever failed, panicked, tore the file or was *)
(* killed before (the lookups of specs.go:205-302, addErrorEnvVar).        *)
THEOREM RetriesAddNothing == Spec => RetryIsIdempotent
<1>1. Init => RetryInv
  BY DEF Init, RetryInv, CalmStages, SettledBundle
<1>2. TypeOK /\ RetryInv /\ [Next]_vars =>
        [pc = "save" /\ settled =>
           \/ file'.spec = file.spec
           \/ /\ lastError \in FileErrors
              /\ \E e \in FileErrors :
                   file'.spec = AddErrorEnvVar(file.spec, e)]_file
  <2> SUFFICES ASSUME TypeOK, RetryInv, [Next]_vars, pc = "save", settled, file' # file,
                      file'.spec # file.spec
               PROVE  /\ lastError \in FileErrors
                      /\ \E e \in FileErrors : file'.spec = AddErrorEnvVar(file.spec, e)
    OBVIOUS
  <2>1. Retried(spec)
    BY DEF RetryInv, SettledBundle, AfterFiles
  <2>2. file'.spec = spec
    BY SpecChanges
  <2>. QED
    BY <2>1, <2>2 DEF Retried
<1>. QED
  BY <1>1, <1>2, RetryStep, TypeCorrect, PTL DEF Spec, RetryIsIdempotent
==============================================================================

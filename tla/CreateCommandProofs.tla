-------------------------- MODULE CreateCommandProofs --------------------------
(***************************************************************************)
(* The runtime keeps the contract of CreateCommand, and what follows from  *)
(* it for the devices a container is given over all its invocations.       *)
(***************************************************************************)
EXTENDS ContainerRuntimeProofs

(***************************************************************************)
(* The contract in the terms of the runtime's own module                   *)
(***************************************************************************)
OnlyRequested(s, t) ==
  \A n \in Node : AddedTo(s, t, n) =>
    /\ cfg.mode = "oci"
    /\ n[2] \in MayRequest(s.env)
    /\ ~Has(s, n)
    /\ t.hooks["createRuntime"] > 0

AllUsable(s, t) ==
  \A n \in Node : AddedTo(s, t, n) =>
    /\ Usable(t, n)
    /\ n[1] \in {"accel", "ctl"} => Has(t, <<"accel", n[2]>>) /\ Has(t, <<"ctl", n[2]>>)

Passable(s, t) == t.error # s.error => t.error \in {"netinfo", "gaudinet"}

Grown(s, t) ==
  /\ Extends(t, s)
  /\ t # s => Gated(s)
  /\ cfg.mode = "legacy" => t \in {s, AddHook(s, "prestart")}
  /\ cfg.mode = "oci" => t.hooks["prestart"] = s.hooks["prestart"]
  /\ OnlyRequested(s, t)

Saves(s, t) == Grown(s, t) /\ AllUsable(s, t) /\ Passable(s, t)

Fails(s, t) == Grown(s, t) /\ (t.error # NoError \/ t.linux # "full" \/ t = s)

LEMMA SameMayRequest == ASSUME NEW env PROVE Command!MayRequest(env) = MayRequest(env)
BY DEF Command!MayRequest, MayRequest, Command!RequestedDevices, RequestedDevices,
   Command!DevicesIDs, DevicesIDs, Command!LastDigit, LastDigit,
   Command!FilterDevicesByENV, FilterDevicesByENV, Command!Tokens, Tokens,
   Command!AcceleratorDevices, AcceleratorDevices, Command!EntriesOf, EntriesOf,
   Command!Min, Min, Command!VisiblePrefixed, VisiblePrefixed,
   Command!VisibleDevices, VisibleDevices

LEMMA SameContract ==
  ASSUME NEW s, NEW t
  PROVE  /\ Saves(s, t) => Command!Prepared(s, t, "saved")
         /\ Fails(s, t) => Command!Prepared(s, t, "failed")
<1>1. /\ Command!Node = Node
      /\ Command!Gate(s) = Gated(s)
      /\ Command!Extends(t, s) = Extends(t, s)
      /\ Command!AddHook(s, "prestart") = AddHook(s, "prestart")
      /\ Command!NoError = NoError
  BY DEF Command!Node, Node, Command!Kind, Kind, Command!Gate, Gated,
     Command!IsHabanaContainer, IsHabanaContainer, Command!VisiblePrefixed,
     VisiblePrefixed, Command!VisibleDevices, VisibleDevices, Command!Extends, Extends,
     Command!Lifecycle, Lifecycle, Command!NoError, NoError, Command!AddHook, AddHook
<1>2. /\ \A n : Command!AddedTo(s, t, n) = AddedTo(s, t, n)
      /\ \A n : Command!Has(s, n) = Has(s, n)
      /\ \A n : Command!Has(t, n) = Has(t, n)
      /\ \A n : Command!Usable(t, n) = Usable(t, n)
  BY DEF Command!AddedTo, AddedTo, Command!Has, Has, Command!Usable, Usable
<1>3. Grown(s, t) => Command!AddsOnlyRequested(s, t)
  BY <1>1, <1>2, SameMayRequest DEF Grown, OnlyRequested, Command!AddsOnlyRequested
<1>4. AllUsable(s, t) => Command!AddsUsable(s, t)
  BY <1>1, <1>2 DEF AllUsable, Command!AddsUsable
<1>. QED
  BY <1>1, <1>3, <1>4 DEF Saves, Fails, Grown, Passable, Command!Prepared

------------------------------------------------------------------------------
(***************************************************************************)
(* What one request adds                                                   *)
(***************************************************************************)
LEMMA AddNodesAdded ==
  ASSUME NEW s \in SpecType, NEW nodes, NEW num, NEW n \in Node,
         AddedTo(s, AddNodes(s, nodes, num), n)
  PROVE  n \in nodes /\ ~Has(s, n)
<1>. DEFINE t == AddDevicesToSpec(s, nodes, num)
<1>1. PICK d \in Dev : AddNodes(s, nodes, num).devices[<<n, d>>] > s.devices[<<n, d>>]
  BY DEF AddedTo
<1>2. s.linux \in {"absent", "bare", "full"} /\ s.devices[<<n, d>>] \in Nat
  BY DEF SpecType, Linuxes
<1>3. AddNodes(s, nodes, num).devices \in {s.devices, t.devices}
  <2>1. AddAllowList(t, nodes, num).devices = t.devices
    BY AddDevicesToSpecType, AddAllowListRest
  <2>. HIDE DEF t
  <2>2. AddNodes(s, nodes, num) \in {s, t, AddAllowList(t, nodes, num)}
    BY <1>2 DEF AddNodes, t
  <2>. QED
    BY <2>1, <2>2
<1>4. t.devices[<<n, d>>] > s.devices[<<n, d>>]
  BY <1>1, <1>2, <1>3
<1>5. Adds(s, nodes, num, n, d)
  <2> SUFFICES ASSUME ~Adds(s, nodes, num, n, d) PROVE FALSE
    OBVIOUS
  <2>1. t.devices[<<n, d>>] = s.devices[<<n, d>>]
    BY AddDevicesToSpecAt
  <2>. HIDE DEF t
  <2>. QED
    BY <1>2, <1>4, <2>1
<1>6. n \in nodes /\ \A e \in Dev : s.devices[<<n, e>>] = 0
  BY <1>5 DEF Adds, Fresh
<1>7. \A e \in Dev : ~(s.devices[<<n, e>>] > 0)
  BY <1>6
<1>. QED
  BY <1>6, <1>7 DEF Has

(* After the nodes were added to a specification with a linux section,     *)
(* every one of them that exists is there.                                 *)
LEMMA AddNodesHas ==
  ASSUME NEW s \in SpecType, s.linux # "absent", NEW nodes, NEW num,
         NEW n \in nodes \cap Node, num[n] \in Dev
  PROVE  Has(AddNodes(s, nodes, num), n)
<1>. DEFINE t == AddDevicesToSpec(s, nodes, num)
<1>1. AddNodes(s, nodes, num).devices = t.devices
  <2>1. s.linux \in {"bare", "full"}
    BY DEF SpecType, Linuxes
  <2>. QED
    BY <2>1, AddDevicesToSpecType, AddAllowListRest DEF AddNodes
<1>2. CASE Fresh(s, n)
  <2>1. Adds(s, nodes, num, n, num[n])
    BY <1>2 DEF Adds
  <2>2. t.devices[<<n, num[n]>>] = 1
    BY <2>1, AddDevicesToSpecAt
  <2>. QED
    BY <1>1, <2>2 DEF Has
<1>3. CASE ~Fresh(s, n)
  <2>1. PICK d \in Dev : s.devices[<<n, d>>] # 0
    BY <1>3 DEF Fresh
  <2>2. s.devices[<<n, d>>] \in Nat
    BY DEF SpecType
  <2>3. t.devices[<<n, d>>] = s.devices[<<n, d>>]
    BY <1>3, AddDevicesToSpecAt DEF Adds
  <2>. QED
    BY <1>1, <2>1, <2>2, <2>3 DEF Has
<1>. QED
  BY <1>2, <1>3

LEMMA HasUsable ==
  ASSUME NEW s, RulesFollowNodesIn(s), s.linux = "full", NEW n \in Node, Has(s, n)
  PROVE  Usable(s, n)
BY DEF RulesFollowNodesIn, Has, Usable

LEMMA AddedThenHas ==
  ASSUME NEW s \in SpecType, NEW t \in SpecType, NEW n \in Node, AddedTo(s, t, n)
  PROVE  Has(t, n)
<1>1. PICK d \in Dev : t.devices[<<n, d>>] > s.devices[<<n, d>>]
  BY DEF AddedTo
<1>2. s.devices[<<n, d>>] \in Nat /\ t.devices[<<n, d>>] \in Nat
  BY DEF SpecType
<1>. QED
  BY <1>1, <1>2 DEF Has

LEMMA AddedInTwo ==
  ASSUME NEW s \in SpecType, NEW t \in SpecType, NEW u \in SpecType, NEW n \in Node,
         AddedTo(s, u, n)
  PROVE  AddedTo(s, t, n) \/ AddedTo(t, u, n)
<1>1. PICK d \in Dev : u.devices[<<n, d>>] > s.devices[<<n, d>>]
  BY DEF AddedTo
<1>2. /\ s.devices[<<n, d>>] \in Nat /\ t.devices[<<n, d>>] \in Nat
      /\ u.devices[<<n, d>>] \in Nat
  BY DEF SpecType
<1>. QED
  BY <1>1, <1>2 DEF AddedTo

LEMMA HasStays ==
  ASSUME NEW s \in SpecType, NEW t \in SpecType, Extends(t, s), NEW n \in Node, Has(s, n)
  PROVE  Has(t, n)
<1>1. PICK d \in Dev : s.devices[<<n, d>>] > 0
  BY DEF Has
<1>2. /\ t.devices[<<n, d>>] \geq s.devices[<<n, d>>]
      /\ s.devices[<<n, d>>] \in Nat /\ t.devices[<<n, d>>] \in Nat
  BY DEF SpecType, Extends
<1>. QED
  BY <1>1, <1>2 DEF Has

(* A hook and an error add no node.                                        *)
LEMMA SameDevicesAddNothing ==
  ASSUME NEW s \in SpecType, NEW t, t.devices = s.devices, NEW n \in Node
  PROVE  ~AddedTo(s, t, n)
<1>1. \A d \in Dev : s.devices[<<n, d>>] \in Nat
  BY DEF SpecType
<1>2. \A d \in Dev : ~(t.devices[<<n, d>>] > s.devices[<<n, d>>])
  BY <1>1
<1>. QED
  BY <1>2 DEF AddedTo

(* A specification that one step has grown may grow by further nodes of    *)
(* the same request, or without a node.                                    *)
LEMMA OnlyRequestedGrows ==
  ASSUME NEW s \in SpecType, NEW t \in SpecType, NEW u \in SpecType,
         Extends(t, s), Extends(u, t), OnlyRequested(s, t),
         \A n \in Node : AddedTo(t, u, n) =>
           /\ cfg.mode = "oci" /\ n[2] \in MayRequest(s.env)
           /\ ~Has(t, n) /\ u.hooks["createRuntime"] > 0
  PROVE  OnlyRequested(s, u)
<1> SUFFICES ASSUME NEW n \in Node, AddedTo(s, u, n)
             PROVE  /\ cfg.mode = "oci" /\ n[2] \in MayRequest(s.env)
                    /\ ~Has(s, n) /\ u.hooks["createRuntime"] > 0
  BY DEF OnlyRequested
<1>1. CASE AddedTo(s, t, n)
  <2>1. u.hooks["createRuntime"] \geq t.hooks["createRuntime"]
    BY DEF Extends, Lifecycle
  <2>2. t.hooks["createRuntime"] \in Nat /\ u.hooks["createRuntime"] \in Nat
    BY DEF SpecType, Lifecycle
  <2>. QED
    BY <1>1, <2>1, <2>2 DEF OnlyRequested
<1>2. CASE AddedTo(t, u, n)
  BY <1>2, HasStays
<1>. QED
  BY <1>1, <1>2, AddedInTwo

------------------------------------------------------------------------------
(***************************************************************************)
(* What holds at each stage of an invocation: how the specification in     *)
(* memory stands to the one in config.json.                                *)
(***************************************************************************)
Asked(s) == Gated(s) /\ cfg.mode = "oci" /\ err = NoError

AtDevices == {"uverbs", "netinfo", "gaudinet"}

StageInv ==
  /\ pc \in Loaded => ~file.torn
  /\ pc \in {"start", "load"} => err = NoError
  /\ pc = "route" => spec = file.spec /\ err = NoError
  /\ pc = "prestart" =>
       spec = file.spec /\ Gated(spec) /\ cfg.mode = "legacy" /\ err = NoError
  /\ pc = "createRuntime" => spec = file.spec /\ Asked(spec)
  /\ pc \in {"discover", "accelerators"} =>
       spec = AddHook(file.spec, "createRuntime") /\ Asked(file.spec)
  /\ pc \in AtDevices =>
       Saves(file.spec, spec) /\ Asked(file.spec) /\ spec.hooks["createRuntime"] > 0
  /\ pc \in AtDevices \cup {"accelerators"} => ids \subseteq MayRequest(spec.env)
  /\ pc = "save" => IF err = NoError THEN Saves(file.spec, spec) ELSE Fails(file.spec, spec)

(* A step that leaves both specifications where they are, on the way from  *)
(* one stage to another with the same condition or none.                   *)
LEMMA ReflexiveSaves ==
  ASSUME NEW s \in SpecType
  PROVE  Saves(s, s) /\ Fails(s, s)
<1>1. \A n \in Node : ~AddedTo(s, s, n)
  BY SameDevicesAddNothing
<1>. QED
  BY <1>1, ExtendsReflexive DEF Saves, Fails, Grown, OnlyRequested, AllUsable, Passable

(* The hook that either mode adds.                                         *)
LEMMA HookSaves ==
  ASSUME NEW s \in SpecType, NEW l \in Lifecycle, Gated(s),
         l = IF cfg.mode = "legacy" THEN "prestart" ELSE "createRuntime"
  PROVE  /\ Saves(s, AddHook(s, l))
         /\ AddHook(s, l).hooks[l] > 0
<1>. DEFINE t == AddHook(s, l)
<1>1. /\ t \in SpecType /\ Extends(t, s)
  BY AddHookType, AddHookExtends
<1>2. /\ t.devices = s.devices /\ t.error = s.error
      /\ t.hooks[l] > 0
      /\ \A m \in Lifecycle \ {l} : t.hooks[m] = s.hooks[m]
  BY DEF AddHook, SpecType
<1>3. \A n \in Node : ~AddedTo(s, t, n)
  BY <1>2, SameDevicesAddNothing
<1>4. cfg.mode = "oci" => t.hooks["prestart"] = s.hooks["prestart"]
  BY <1>2 DEF Lifecycle
<1>. QED
  BY <1>1, <1>2, <1>3, <1>4 DEF Saves, Grown, OnlyRequested, AllUsable, Passable

(* An error that is reported adds nothing else.                            *)
LEMMA ErrorGrows ==
  ASSUME NEW s \in SpecType, NEW t \in SpecType, NEW e \in EnvErrors,
         Grown(s, t), Gated(s), cfg.mode = "oci"
  PROVE  LET u == AddErrorEnvVar(t, e)
         IN  /\ u \in SpecType /\ Grown(s, u) /\ Fails(s, u)
             /\ u.hooks = t.hooks /\ u.env = t.env
             /\ u.devices = t.devices /\ u.rules = t.rules
             /\ u.error \in {t.error, e}
<1>. DEFINE u == AddErrorEnvVar(t, e)
<1>1. u \in SpecType /\ Extends(u, t)
  BY AddErrorEnvVarType, AddErrorExtends
<1>2. /\ u.devices = t.devices /\ u.hooks = t.hooks /\ u.rules = t.rules
      /\ u.env = t.env /\ u.error # NoError /\ u.error \in {t.error, e}
  BY DEF AddErrorEnvVar, SpecType, EnvErrors, NoError
<1>3. Extends(u, s)
  BY <1>1, ExtendsTransitive DEF Grown
<1>4. OnlyRequested(s, u)
  <2>1. \A n \in Node : ~AddedTo(t, u, n)
    BY <1>2, SameDevicesAddNothing
  <2>. HIDE DEF u
  <2>. QED
    BY <1>1, <2>1, OnlyRequestedGrows DEF Grown
<1>. HIDE DEF u
<1>5. Grown(s, u)
  BY <1>2, <1>3, <1>4 DEF Grown
<1>. QED
  BY <1>1, <1>2, <1>5 DEF Fails, u

LEMMA ErrorSaves ==
  ASSUME NEW s \in SpecType, NEW t \in SpecType, NEW e \in {"netinfo", "gaudinet"},
         Saves(s, t), Gated(s), cfg.mode = "oci"
  PROVE  Saves(s, AddErrorEnvVar(t, e))
<1>. DEFINE u == AddErrorEnvVar(t, e)
<1>1. e \in EnvErrors
  BY DEF EnvErrors
<1>2. /\ Grown(s, u) /\ u.devices = t.devices /\ u.rules = t.rules
      /\ u.error \in {t.error, e}
  BY <1>1, ErrorGrows DEF Saves
<1>. HIDE DEF u
<1>3. AllUsable(s, u)
  BY <1>2 DEF Saves, AllUsable, AddedTo, Usable, Has
<1>4. Passable(s, u)
  BY <1>2 DEF Saves, Passable
<1>. QED
  BY <1>2, <1>3, <1>4 DEF Saves, u

(* Nodes of requested accelerators are added to what the hook, or an       *)
(* earlier step, has grown.                                                *)
LEMMA NodesGrow ==
  ASSUME NEW s \in SpecType, NEW t \in SpecType, Grown(s, t),
         Gated(s), cfg.mode = "oci", t.hooks["createRuntime"] > 0,
         NEW nodes \in SUBSET Node, NEW num,
         \A n \in nodes : n[2] \in MayRequest(t.env)
  PROVE  LET u == AddNodes(t, nodes, num)
         IN  /\ u \in SpecType /\ Extends(u, t) /\ Grown(s, u)
             /\ u.hooks = t.hooks /\ u.error = t.error /\ u.linux = t.linux
             /\ u.env = t.env
<1>. DEFINE u == AddNodes(t, nodes, num)
<1>1. u \in SpecType /\ Extends(u, t)
  BY AddNodesType, AddNodesExtends
<1>2. u.hooks = t.hooks /\ u.error = t.error /\ u.linux = t.linux /\ u.env = t.env
  <2>1. t.linux \in {"absent", "bare", "full"}
    BY DEF SpecType, Linuxes
  <2>2. LET v == AddDevicesToSpec(t, nodes, num)
            w == AddAllowList(v, nodes, num)
        IN  /\ v.hooks = t.hooks /\ v.error = t.error /\ v.linux = t.linux /\ v.env = t.env
            /\ w.hooks = t.hooks /\ w.error = t.error /\ w.linux = t.linux /\ w.env = t.env
    BY AddDevicesToSpecType, AddDevicesToSpecRest, AddAllowListRest
  <2>. QED
    BY <2>1, <2>2 DEF AddNodes
<1>3. Extends(u, s)
  BY <1>1, ExtendsTransitive DEF Grown
<1>4. s.env = t.env
  BY DEF Grown, Extends
<1>5. \A n \in Node : AddedTo(t, u, n) => n \in nodes /\ ~Has(t, n)
  BY AddNodesAdded
<1>. HIDE DEF u
<1>6. OnlyRequested(s, u)
  BY <1>1, <1>2, <1>4, <1>5, OnlyRequestedGrows DEF Grown
<1>. QED
  BY <1>1, <1>2, <1>3, <1>6 DEF Grown, u

(* Nodes that exist are usable once they were added to a specification     *)
(* with a list of rules.                                                   *)
InPairs(nodes) ==
  \A n \in nodes : n[1] \in {"accel", "ctl"} =>
    <<"accel", n[2]>> \in nodes /\ <<"ctl", n[2]>> \in nodes

LEMMA NodesUsable ==
  ASSUME NEW s \in SpecType, NEW t \in SpecType, Extends(t, s), AllUsable(s, t),
         t.linux = "full", RulesFollowNodesIn(t),
         NEW nodes \in SUBSET Node, InPairs(nodes),
         NEW num, \A n \in nodes : num[n] \in Dev
  PROVE  LET u == AddNodes(t, nodes, num)
         IN  /\ AllUsable(s, u)
             /\ \A n \in nodes : Usable(u, n)
<1>. DEFINE u == AddNodes(t, nodes, num)
<1>1. u \in SpecType /\ Extends(u, t) /\ RulesFollowNodesIn(u)
  BY AddNodesType, AddNodesExtends, AddNodesRulesFollow
<1>2. u.linux = "full"
  BY <1>1 DEF Extends
<1>3. \A n \in nodes : Has(u, n)
  BY AddNodesHas
<1>4. \A n \in Node : AddedTo(t, u, n) => n \in nodes
  BY AddNodesAdded
<1>. HIDE DEF u
<1>5. \A n \in Node : Has(u, n) => Usable(u, n)
  BY <1>1, <1>2, HasUsable
<1>6. AllUsable(s, u)
  <2> SUFFICES ASSUME NEW n \in Node, AddedTo(s, u, n)
               PROVE  /\ Usable(u, n)
                      /\ n[1] \in {"accel", "ctl"} =>
                           Has(u, <<"accel", n[2]>>) /\ Has(u, <<"ctl", n[2]>>)
    BY DEF AllUsable
  <2>1. Usable(u, n)
    BY <1>1, <1>5, AddedThenHas
  <2>2. CASE AddedTo(s, t, n)
    <3>1. <<"accel", n[2]>> \in Node /\ <<"ctl", n[2]>> \in Node
      BY DEF Node, Kind
    <3>. QED
      BY <1>1, <2>1, <2>2, <3>1, HasStays DEF AllUsable
  <2>3. CASE AddedTo(t, u, n)
    BY <1>3, <1>4, <2>1, <2>3 DEF InPairs
  <2>. QED
    BY <1>1, <2>2, <2>3, AddedInTwo
<1>. QED
  BY <1>3, <1>5, <1>6 DEF u

(* addAcceleratorDevices and addUverbsDevices lead on with a specification *)
(* that may be saved for runc, or to the save of one that says why not.    *)
LEMMA AddDevicesStage ==
  ASSUME TypeOK, RulesInv, Saves(file.spec, spec), Asked(file.spec),
         spec.hooks["createRuntime"] > 0,
         NEW nodes \in SUBSET Node, InPairs(nodes),
         \A n \in nodes : n[2] \in MayRequest(spec.env),
         NEW e \in {"accelerator", "uverb"}, NEW next, AddDevices(nodes, e, next)
  PROVE  \/ /\ pc' = next /\ err' = err /\ Saves(file.spec, spec')
            /\ spec'.hooks = spec.hooks /\ spec'.env = spec.env
            /\ spec'.error = spec.error /\ Extends(spec', spec)
            /\ \A n \in nodes : Usable(spec', n)
         \/ /\ pc' = "save" /\ err' # NoError /\ Fails(file.spec, spec')
<1>1. spec \in SpecType /\ file.spec \in SpecType
  BY DEF TypeOK
<1>2. Grown(file.spec, spec) /\ Gated(file.spec) /\ cfg.mode = "oci"
  BY DEF Saves, Asked
<1>3. CASE nodes \subseteq PresentNodes(host)
  <2>. DEFINE u == AddNodes(spec, nodes, host.num)
  <2>1. spec' = u /\ (IF Panics(spec) THEN err' = "panic" /\ pc' = "save"
                                     ELSE err' = err /\ pc' = next)
    BY <1>3 DEF AddDevices, Goto, Fail
  <2>2. /\ u \in SpecType /\ Extends(u, spec) /\ Grown(file.spec, u)
        /\ u.hooks = spec.hooks /\ u.error = spec.error /\ u.linux = spec.linux
        /\ u.env = spec.env
    BY <1>1, <1>2, NodesGrow
  <2>3. \A n \in nodes : host.num[n] \in Dev
    BY <1>3 DEF PresentNodes, TypeOK, HostType
  <2>4. CASE Panics(spec)
    <3>. HIDE DEF u
    <3>1. Fails(file.spec, u)
      BY <2>2, <2>4 DEF Panics, Fails
    <3>. QED
      BY <2>1, <2>4, <3>1 DEF NoError
  <2>5. CASE ~Panics(spec)
    <3>1. AllUsable(file.spec, u) /\ \A n \in nodes : Usable(u, n)
      BY <1>1, <1>2, <2>3, <2>5, NodesUsable DEF Panics, Saves, RulesInv, Grown
    <3>. HIDE DEF u
    <3>2. Saves(file.spec, u)
      BY <2>2, <3>1 DEF Saves, Passable
    <3>. QED
      BY <2>1, <2>2, <2>5, <3>1, <3>2
  <2>. QED
    BY <2>4, <2>5
<1>4. CASE ~(nodes \subseteq PresentNodes(host))
  <2>1. spec' = AddErrorEnvVar(spec, e) /\ err' = e /\ pc' = "save"
    BY <1>4 DEF AddDevices, Goto, Fail
  <2>2. e \in EnvErrors
    BY DEF EnvErrors
  <2>3. Fails(file.spec, spec')
    BY <1>1, <1>2, <2>1, <2>2, ErrorGrows
  <2>. QED
    BY <2>1, <2>3 DEF NoError
<1>. QED
  BY <1>3, <1>4

(* What the environment selects of the nodes a host has, it selects of all *)
(* that a host may have.                                                   *)
LEMMA RequestedMayBe ==
  ASSUME NEW env, NEW nodes \in SUBSET Node
  PROVE  RequestedDevices(env, nodes) \subseteq MayRequest(env)
<1>. DEFINE all == {"accel"} \X Num
<1> SUFFICES ASSUME NEW d \in FilterDevicesByENV(env, AcceleratorDevices(nodes))
             PROVE  LastDigit(d[2]) \in MayRequest(env)
  BY DEF RequestedDevices, DevicesIDs
<1>1. d[2] \in Num
  BY FilterSelects DEF AcceleratorDevices, Node
<1>2. <<"accel", d[2]>> \in AcceleratorDevices(all)
  BY <1>1 DEF AcceleratorDevices
<1>3. <<"accel", d[2]>> \in FilterDevicesByENV(env, AcceleratorDevices(all))
  BY <1>2 DEF FilterDevicesByENV
<1>. QED
  BY <1>3 DEF MayRequest, RequestedDevices, DevicesIDs

------------------------------------------------------------------------------
(***************************************************************************)
(* Each stage leads to the condition of the next                           *)
(***************************************************************************)
(* Where an invocation ends or has yet to load, nothing is claimed.        *)
Unclaimed == Resting \cup {"exec"}

LEMMA RouteStage == ASSUME TypeOK, StageInv, Route PROVE StageInv'
<1>1. /\ pc = "route" /\ spec = file.spec /\ err = NoError /\ ~file.torn
      /\ UNCHANGED <<cfg, file, spec, err>>
  BY DEF Route, Goto, StageInv, Loaded
<1>2. cfg.mode \in {"oci", "legacy"} /\ Gated(spec) \in BOOLEAN
  BY DEF TypeOK, ConfigType, Gated, IsHabanaContainer
<1>3. Saves(file.spec, spec)
  BY <1>1, ReflexiveSaves DEF TypeOK
<1>4. Saves(file.spec, spec)' /\ Gated(spec)' = Gated(spec)
  BY <1>1, <1>3 DEF Saves, Grown, OnlyRequested, AllUsable, Passable, Gated
<1>5. CASE pc' = "save"
  BY <1>1, <1>4, <1>5 DEF StageInv, Loaded, AtDevices
<1>6. CASE pc' = "prestart" /\ Gated(spec) /\ cfg.mode = "legacy"
  BY <1>1, <1>4, <1>6 DEF StageInv, Loaded, AtDevices
<1>7. CASE pc' = "createRuntime" /\ Gated(spec) /\ cfg.mode = "oci"
  BY <1>1, <1>4, <1>7 DEF StageInv, Loaded, AtDevices, Asked
<1>. QED
  BY <1>2, <1>5, <1>6, <1>7 DEF Route, Goto

(* A step that changes neither config.toml nor config.json takes what is   *)
(* said of a specification and a next one with it.                         *)
LEMMA SavesLater ==
  ASSUME UNCHANGED <<cfg, file>>
  PROVE  /\ Saves(file.spec, spec') => Saves(file.spec, spec)'
         /\ Fails(file.spec, spec') => Fails(file.spec, spec)'
         /\ Gated(file.spec) => Gated(file.spec)'
BY DEF Saves, Fails, Grown, OnlyRequested, AllUsable, Passable, Gated

LEMMA HookStages ==
  ASSUME TypeOK, StageInv, AddPrestartHook \/ AddCreateRuntimeHook
  PROVE  StageInv'
<1>1. UNCHANGED <<cfg, file>>
  BY DEF AddPrestartHook, AddCreateRuntimeHook, AddLifecycleHook, Goto
<1>2. CASE ~host.hook
  <2>1. spec' = spec /\ err' = "hook" /\ pc' = "save" /\ spec = file.spec /\ ~file.torn
    BY <1>2 DEF AddPrestartHook, AddCreateRuntimeHook, AddLifecycleHook, Goto, Fail,
       StageInv, Asked, Loaded
  <2>2. Fails(file.spec, spec')
    BY <2>1, ReflexiveSaves DEF TypeOK
  <2>. QED
    BY <1>1, <2>1, <2>2, SavesLater DEF StageInv, AtDevices, NoError
<1>3. CASE host.hook /\ AddPrestartHook
  <2>1. /\ spec' = AddHook(file.spec, "prestart") /\ err' = NoError /\ pc' = "save"
        /\ Gated(file.spec) /\ cfg.mode = "legacy" /\ ~file.torn
    BY <1>3 DEF AddPrestartHook, AddLifecycleHook, Goto, StageInv, Loaded
  <2>2. Saves(file.spec, spec')
    BY <2>1, HookSaves DEF TypeOK, Lifecycle
  <2>. QED
    BY <1>1, <2>1, <2>2, SavesLater DEF StageInv, AtDevices
<1>4. CASE host.hook /\ AddCreateRuntimeHook
  <2>1. /\ spec' = AddHook(file.spec, "createRuntime") /\ err' = NoError
        /\ pc' = "discover" /\ Gated(file.spec) /\ cfg.mode = "oci" /\ ~file.torn
    BY <1>4 DEF AddCreateRuntimeHook, AddLifecycleHook, Goto, StageInv, Loaded, Asked
  <2>. QED
    BY <1>1, <2>1, SavesLater DEF StageInv, AtDevices, Asked
<1>. QED
  BY <1>2, <1>3, <1>4

LEMMA DiscoverStage == ASSUME TypeOK, StageInv, Discover PROVE StageInv'
<1>1. /\ UNCHANGED <<cfg, file, spec, err>> /\ ~file.torn
      /\ spec = AddHook(file.spec, "createRuntime") /\ Asked(file.spec)
  BY DEF Discover, Goto, StageInv, Loaded
<1>2. ids' \subseteq MayRequest(spec.env)
  BY RequestedMayBe DEF Discover, PresentNodes
<1>3. Saves(file.spec, spec)
  BY <1>1, HookSaves DEF TypeOK, Lifecycle, Asked
<1>4. pc' \in {"save", "accelerators"}
  BY DEF Discover, Goto
<1>. QED
  BY <1>1, <1>2, <1>3, <1>4, SavesLater DEF StageInv, AtDevices, Asked

LEMMA DevicesAdded ==
  ASSUME TypeOK, RulesInv, StageInv, AddAcceleratorDevices \/ AddUverbsDevices
  PROVE  \/ /\ pc' = (IF pc = "accelerators" THEN "uverbs" ELSE "netinfo")
            /\ err' = err /\ Saves(file.spec, spec')
            /\ spec'.hooks = spec.hooks /\ spec'.env = spec.env
            /\ spec'.error = spec.error /\ Extends(spec', spec)
            /\ pc = "accelerators" /\ cfg.mountAccelerators =>
                 \A n \in AcceleratorNodes : Usable(spec', n)
         \/ pc' = "save" /\ err' # NoError /\ Fails(file.spec, spec')
<1>1. Asked(file.spec) /\ ids \subseteq MayRequest(spec.env)
  BY DEF AddAcceleratorDevices, AddUverbsDevices, StageInv, AtDevices
<1>2. Saves(file.spec, spec) /\ spec.hooks["createRuntime"] > 0
  <2>1. CASE pc = "accelerators"
    BY <2>1, HookSaves DEF StageInv, TypeOK, Lifecycle, Asked
  <2>2. CASE pc = "uverbs"
    BY <2>2 DEF StageInv, AtDevices
  <2>. QED
    BY <2>1, <2>2 DEF AddAcceleratorDevices, AddUverbsDevices
<1>3. CASE AddAcceleratorDevices /\ cfg.mountAccelerators
  <2>1. /\ AcceleratorNodes \in SUBSET Node /\ InPairs(AcceleratorNodes)
        /\ \A n \in AcceleratorNodes : n[2] \in MayRequest(spec.env)
    BY <1>1 DEF AcceleratorNodes, Node, Kind, TypeOK, InPairs
  <2>2. pc = "accelerators" /\ AddDevices(AcceleratorNodes, "accelerator", "uverbs")
    BY <1>3 DEF AddAcceleratorDevices
  <2>. QED
    BY <1>1, <1>2, <2>1, <2>2, AddDevicesStage
<1>4. CASE AddUverbsDevices /\ cfg.mountUverbs
  <2>1. /\ UverbNodes \in SUBSET Node /\ InPairs(UverbNodes)
        /\ \A n \in UverbNodes : n[2] \in MayRequest(spec.env)
    BY <1>1 DEF UverbNodes, Node, Kind, TypeOK, InPairs
  <2>2. pc = "uverbs" /\ AddDevices(UverbNodes, "uverb", "netinfo")
    BY <1>4 DEF AddUverbsDevices
  <2>. QED
    BY <1>1, <1>2, <2>1, <2>2, AddDevicesStage
<1>5. CASE \/ AddAcceleratorDevices /\ ~cfg.mountAccelerators
           \/ AddUverbsDevices /\ ~cfg.mountUverbs
  <2>1. Extends(spec, spec)
    BY ExtendsReflexive DEF TypeOK
  <2>. QED
    BY <1>2, <1>5, <2>1 DEF AddAcceleratorDevices, AddUverbsDevices, Goto
<1>. QED
  BY <1>3, <1>4, <1>5

LEMMA DeviceStages ==
  ASSUME TypeOK, RulesInv, StageInv, AddAcceleratorDevices \/ AddUverbsDevices
  PROVE  StageInv'
<1>1. /\ UNCHANGED <<cfg, file, ids>> /\ ~file.torn /\ Asked(file.spec)
      /\ ids \subseteq MayRequest(spec.env)
  BY DEF AddAcceleratorDevices, AddUverbsDevices, AddDevices, Goto, StageInv, Loaded,
     AtDevices
<1>2. spec.hooks["createRuntime"] > 0
  <2>1. CASE pc = "accelerators"
    BY <2>1, HookSaves DEF StageInv, TypeOK, Lifecycle, Asked
  <2>2. CASE pc = "uverbs"
    BY <2>2 DEF StageInv, AtDevices
  <2>. QED
    BY <2>1, <2>2 DEF AddAcceleratorDevices, AddUverbsDevices
<1>. QED
  BY <1>1, <1>2, DevicesAdded, SavesLater DEF StageInv, AtDevices, Asked

LEMMA NetworkStages ==
  ASSUME TypeOK, StageInv, GenerateNetinfo \/ CopyGaudinet
  PROVE  StageInv'
<1>1. /\ UNCHANGED <<cfg, file, ids, err>> /\ ~file.torn
      /\ Saves(file.spec, spec) /\ Asked(file.spec) /\ spec.hooks["createRuntime"] > 0
      /\ ids \subseteq MayRequest(spec.env)
      /\ pc' \in {"gaudinet", "save"}
  BY DEF GenerateNetinfo, CopyGaudinet, Goto, StageInv, Loaded, AtDevices
<1>2. spec' = spec \/ \E e \in {"netinfo", "gaudinet"} : spec' = AddErrorEnvVar(spec, e)
  BY DEF GenerateNetinfo, CopyGaudinet, Report
<1>3. Saves(file.spec, spec') /\ spec'.hooks = spec.hooks /\ spec'.env = spec.env
  <2>1. ASSUME NEW e \in {"netinfo", "gaudinet"}
        PROVE  /\ Saves(file.spec, AddErrorEnvVar(spec, e))
               /\ AddErrorEnvVar(spec, e).hooks = spec.hooks
               /\ AddErrorEnvVar(spec, e).env = spec.env
    <3>1. e \in EnvErrors
      BY DEF EnvErrors
    <3>. QED
      BY <1>1, <3>1, ErrorSaves, ErrorGrows DEF TypeOK, Asked, Saves
  <2>. QED
    BY <1>1, <1>2, <2>1
<1>. QED
  BY <1>1, <1>3, SavesLater DEF StageInv, AtDevices, Asked

LEMMA StageStep == TypeOK /\ RulesInv /\ StageInv /\ [Next]_vars => StageInv'
<1> SUFFICES ASSUME TypeOK, RulesInv, StageInv, [Next]_vars PROVE StageInv'
  OBVIOUS
<1>1. CASE \/ \E c \in Commands : Invoke(c)
           \/ Start
  <2>1. \/ pc' \in {"start", "load"} /\ err' = NoError
        \/ pc' \in Unclaimed
    BY <1>1 DEF Invoke, Start, Goto, StageInv, Unclaimed
  <2>. QED
    BY <2>1 DEF Unclaimed, Resting, StageInv, Loaded, AtDevices
<1>2. CASE StartFails \/ LoadFails \/ SaveSpecs \/ ExecRunc \/ Kill
  <2>1. pc' \in Unclaimed
    BY <1>2 DEF StartFails, LoadFails, SaveSpecs, ExecRunc, Kill, Goto, Unclaimed, Resting
  <2>. QED
    BY <2>1 DEF Unclaimed, Resting, StageInv, Loaded, AtDevices
<1>3. CASE LoadSpecs
  BY <1>3 DEF LoadSpecs, Goto, Fail, StageInv, Loaded, AtDevices
<1>4. CASE HostChange
  BY <1>4, SavesLater DEF HostChange, process, StageInv, AtDevices, Asked, Gated,
     Saves, Fails
<1>5. CASE UNCHANGED vars
  BY <1>5, SavesLater DEF vars, process, StageInv, AtDevices, Asked, Gated, Saves,
     Fails
<1>. QED
  BY <1>1, <1>2, <1>3, <1>4, <1>5, RouteStage, HookStages, DiscoverStage, DeviceStages,
     NetworkStages DEF Next, Step

LEMMA StageInit == Init => StageInv
BY DEF Init, StageInv, Loaded, AtDevices

LEMMA StageInvariant == Spec => []StageInv
BY StageInit, StageStep, TypeCorrect, RulesInvariant, PTL DEF Spec

------------------------------------------------------------------------------
(***************************************************************************)
(* The refinement                                                          *)
(***************************************************************************)
LEMMA CommandInit == Init => Command!Init
<1> SUFFICES ASSUME Init PROVE Command!Init
  OBVIOUS
<1>1. file = [spec |-> original, torn |-> FALSE] /\ original \in Specs
  BY DEF Init
<1>2. file \in [spec : Specs, torn : {FALSE}]
  BY <1>1
<1>. QED
  BY <1>2 DEF Init, Phase, Command!Init

(* The stages between the start and the save are one phase.                *)
Working == {"start", "load", "route", "prestart", "createRuntime", "discover",
            "accelerators", "uverbs", "netinfo", "gaudinet", "save"}

LEMMA PhaseOf ==
  /\ pc \in Working => Phase = "working"
  /\ pc = "exec" => Phase = "saved"
  /\ pc = "handed" => Phase = "running"
  /\ pc = "exited" => Phase = "failed"
  /\ pc = "killed" => Phase = "killed"
  /\ pc = "idle" => Phase = "idle"
BY DEF Working, Phase

LEMMA PhaseOfNext ==
  /\ pc' \in Working => Phase' = "working"
  /\ pc' = "exec" => Phase' = "saved"
  /\ pc' = "handed" => Phase' = "running"
  /\ pc' = "exited" => Phase' = "failed"
  /\ pc' = "killed" => Phase' = "killed"
BY DEF Working, Phase

(* A step from stage to stage is none of the contract's.                   *)
LEMMA WorkingStutters ==
  ASSUME pc \in Working, pc' \in Working, UNCHANGED <<cfg, file>>
  PROVE  UNCHANGED Command!vars
BY PhaseOf, PhaseOfNext DEF Command!vars

LEMMA SavePrepares == ASSUME TypeOK, StageInv, SaveSpecs PROVE Command!Prepare
<1>1. /\ pc = "save" /\ ~file.torn /\ cfg' = cfg
      /\ pc' = IF err = NoError THEN "exec" ELSE "exited"
  BY DEF SaveSpecs, Goto, StageInv, Loaded
<1>2. /\ Phase = "working"
      /\ Phase' = IF err = NoError THEN "saved" ELSE "failed"
  BY <1>1, PhaseOf, PhaseOfNext DEF Working
<1>3. Command!Prepared(file.spec, spec, Phase')
  BY <1>1, <1>2, SameContract DEF StageInv
<1>4. \/ file' = [spec |-> spec, torn |-> FALSE]
      \/ file' = file
      \/ file' = [file EXCEPT !.torn = TRUE]
  BY DEF SaveSpecs
<1>5. CASE file' = [spec |-> spec, torn |-> FALSE]
  <2>1. file'.spec = spec /\ ~file'.torn
    BY <1>5
  <2>. QED
    BY <1>1, <1>2, <1>3, <2>1 DEF Command!Prepare
<1>. QED
  BY <1>1, <1>2, <1>4, <1>5 DEF Command!Prepare

LEMMA CommandStep ==
  TypeOK /\ StageInv /\ [Next]_vars => [Command!Next]_Command!vars
<1> SUFFICES ASSUME TypeOK, StageInv, [Next]_vars
             PROVE  Command!Next \/ UNCHANGED Command!vars
  OBVIOUS
<1>1. ASSUME NEW c \in Commands, Invoke(c) PROVE Command!Begin
  BY <1>1, PhaseOf, PhaseOfNext DEF Invoke, Resting, Working, Command!Begin
<1>2. CASE StartFails \/ LoadFails \/ (LoadSpecs /\ pc' = "exited")
  BY <1>2, PhaseOf, PhaseOfNext DEF StartFails, LoadFails, LoadSpecs, Goto, Working,
     Command!GiveUp, Command!Next
<1>3. CASE Start /\ pc' = "exec"
  BY <1>3, PhaseOf, PhaseOfNext DEF Start, Goto, Working, Command!PassOn, Command!Next
<1>4. CASE SaveSpecs
  BY <1>4, SavePrepares DEF Command!Next
<1>5. CASE ExecRunc
  BY <1>5, PhaseOf, PhaseOfNext DEF ExecRunc, Goto, Command!Become, Command!Next
<1>6. CASE Kill
  <2>1. pc \in Working \cup {"exec"} /\ pc' = "killed" /\ cfg' = cfg
    BY <1>6 DEF Kill, Goto, TypeOK, Stages, Working
  <2>2. file' = file \/ (pc = "save" /\ ~file.torn /\ file' = [file EXCEPT !.torn = TRUE])
    BY <1>6 DEF Kill, StageInv, Loaded
  <2>. QED
    BY <2>1, <2>2, PhaseOf, PhaseOfNext DEF Working, Command!Kill, Command!Next
<1>7. CASE \/ Start /\ pc' # "exec"
           \/ LoadSpecs /\ pc' # "exited"
  BY <1>7, WorkingStutters DEF Start, LoadSpecs, Goto, Working
<1>8. CASE Route
  <2>1. cfg.mode \in {"oci", "legacy"} /\ Gated(spec) \in BOOLEAN
    BY DEF TypeOK, ConfigType, Gated, IsHabanaContainer
  <2>. QED
    BY <1>8, <2>1, WorkingStutters DEF Route, Goto, Working
<1>9. CASE \/ AddPrestartHook \/ AddCreateRuntimeHook \/ Discover
           \/ AddAcceleratorDevices \/ AddUverbsDevices
           \/ GenerateNetinfo \/ CopyGaudinet
  BY <1>9, WorkingStutters DEF AddPrestartHook, AddCreateRuntimeHook, AddLifecycleHook,
     Discover, AddAcceleratorDevices, AddUverbsDevices, AddDevices, GenerateNetinfo,
     CopyGaudinet, Goto, Working
<1>10. CASE HostChange \/ UNCHANGED vars
  BY <1>10 DEF HostChange, vars, process, Phase, Command!vars
<1>. QED
  BY <1>1, <1>2, <1>3, <1>4, <1>5, <1>6, <1>7, <1>8, <1>9, <1>10
     DEF Next, Step, Command!Next

(* Every invocation keeps the contract of the create command, on any host  *)
(* and configuration and on whatever an earlier invocation has left        *)
(* (main.go:75-214).                                                       *)
THEOREM RuntimeImplements == Spec => ImplementsCreateCommand
BY CommandInit, CommandStep, TypeCorrect, StageInvariant, PTL
   DEF Spec, ImplementsCreateCommand, Command!Spec

------------------------------------------------------------------------------
(***************************************************************************)
(* Over all invocations                                                    *)
(***************************************************************************)
LEMMA OnlySaveWrites ==
  ASSUME TypeOK, [Next]_vars
  PROVE  /\ UNCHANGED <<cfg, original>>
         /\ file'.spec = file.spec \/ (pc = "save" /\ file'.spec = spec)
<1>1. CASE SaveSpecs
  BY <1>1 DEF SaveSpecs, Goto, TypeOK
<1>2. CASE Kill
  BY <1>2 DEF Kill, Goto, TypeOK
<1>3. CASE ~SaveSpecs /\ ~Kill
  <2>1. UNCHANGED <<cfg, original, file>>
    BY <1>3 DEF Next, Step, Invoke, StartFails, Start, LoadSpecs, LoadFails, Route,
       AddPrestartHook, AddCreateRuntimeHook, AddLifecycleHook, Discover,
       AddAcceleratorDevices, AddUverbsDevices, AddDevices, GenerateNetinfo,
       CopyGaudinet, ExecRunc, HostChange, Goto, vars, history
  <2>. QED
    BY <2>1
<1>. QED
  BY <1>1, <1>2, <1>3

(* config.json holds a node that the engine did not write only if the      *)
(* container passed the gate, asked for that accelerator and got the hook, *)
(* after any number of invocations (main.go:126-172).                      *)
THEOREM OnlyRequestedInvariant == Spec => []OnlyRequestedDevices
<1>. DEFINE IInv == Extends(file.spec, original) /\ OnlyRequestedDevices
<1>1. Init => IInv
  <2> SUFFICES ASSUME Init PROVE IInv
    OBVIOUS
  <2>1. original \in SpecType /\ file.spec = original
    BY DomainAssumption DEF Init
  <2>2. \A n \in Node : ~AddedTo(original, file.spec, n)
    BY <2>1, SameDevicesAddNothing
  <2>. QED
    BY <2>1, <2>2, ExtendsReflexive DEF OnlyRequestedDevices
<1>2. TypeOK /\ StageInv /\ IInv /\ [Next]_vars => IInv'
  <2> SUFFICES ASSUME TypeOK, StageInv, IInv, [Next]_vars PROVE IInv'
    OBVIOUS
  <2>1. UNCHANGED <<cfg, original>>
    BY OnlySaveWrites
  <2>2. CASE file'.spec = file.spec
    BY <2>1, <2>2 DEF OnlyRequestedDevices, Gated, Extends
  <2>3. CASE pc = "save" /\ file'.spec = spec
    <3>1. Grown(file.spec, spec) /\ spec \in SpecType /\ file.spec \in SpecType
          /\ original \in SpecType
      BY <2>3 DEF StageInv, Saves, Fails, TypeOK
    <3>2. Extends(spec, original)
      BY <3>1, ExtendsTransitive DEF Grown
    <3>3. file.spec.env = original.env
      BY DEF Extends
    <3>4. ASSUME NEW n \in Node, AddedTo(original, spec, n)
          PROVE  /\ Gated(original) /\ n[2] \in MayRequest(original.env)
                 /\ cfg.mode = "oci" /\ spec.hooks["createRuntime"] > 0
      <4>1. CASE AddedTo(original, file.spec, n)
        <5>1. /\ spec.hooks["createRuntime"] \geq file.spec.hooks["createRuntime"]
              /\ spec.hooks["createRuntime"] \in Nat
              /\ file.spec.hooks["createRuntime"] \in Nat
          BY <3>1 DEF Grown, Extends, SpecType, Lifecycle
        <5>2. /\ Gated(original) /\ n[2] \in MayRequest(original.env)
              /\ cfg.mode = "oci" /\ file.spec.hooks["createRuntime"] > 0
          BY <4>1 DEF OnlyRequestedDevices
        <5>. QED
          BY <5>1, <5>2
      <4>2. CASE AddedTo(file.spec, spec, n)
        <5>1. /\ n[2] \in MayRequest(original.env) /\ cfg.mode = "oci"
              /\ spec.hooks["createRuntime"] > 0
          BY <3>1, <3>3, <4>2 DEF Grown, OnlyRequested
        <5>2. spec # file.spec
          BY <3>1, <4>2, SameDevicesAddNothing
        <5>3. Gated(original)
          BY <3>1, <3>3, <5>2 DEF Grown, Gated
        <5>. QED
          BY <5>1, <5>3
      <4>. QED
        BY <3>1, <3>4, <4>1, <4>2, AddedInTwo
    <3>. QED
      BY <2>1, <2>3, <3>2, <3>4 DEF OnlyRequestedDevices, Gated, Extends
  <2>. QED
    BY <2>2, <2>3, OnlySaveWrites
<1>. QED
  BY <1>1, <1>2, TypeCorrect, StageInvariant, PTL DEF Spec
==============================================================================

----------------------------- MODULE BundleSpec ------------------------------
(***************************************************************************)
(* The OCI specification of a bundle (config.json) and what the runtime    *)
(* does to it: the helpers of specs.go and addErrorEnvVar as operators,    *)
(* and the relations between two specifications that the properties are    *)
(* about.                                                                  *)
(***************************************************************************)
EXTENDS Naturals, DeviceSelection

CONSTANTS
  Num,      \* numbers of the accelerators a host may have
  Dev,      \* device numbers (a major and a minor)
  NoDev     \* the number of a node that does not exist

ASSUME NumAssumption == Num \subseteq Nat /\ \A n \in Num : LastDigit(n) \in Num
ASSUME NoDevAssumption == NoDev \notin Dev

Kind      == {"accel", "ctl", "uverb"}
Node      == Kind \X Num
Lifecycle == {"prestart", "createRuntime"}

NoError   == "none"
EnvErrors == {"accelerator", "uverb", "netinfo", "gaudinet"}

Linuxes   == {"absent", "bare", "full"}

(***************************************************************************)
(* An OCI specification.  hooks counts the hooks whose path is the habana  *)
(* hook; devices counts the entries of linux.devices by path and number,   *)
(* rules the allow entries of linux.resources.devices by number; error is  *)
(* the value of HABANA_RUNTIME_ERROR.  linux is "bare" without resources.  *)
(***************************************************************************)
SpecType ==
  [env : Seq([name : STRING, eq : BOOLEAN,
              val : [word : Words, nums : SUBSET Nat, junk : BOOLEAN]]),
   privileged : BOOLEAN,
   linux   : Linuxes,
   error   : EnvErrors \cup {NoError},
   hooks   : [Lifecycle -> Nat],
   devices : [Node \X Dev -> Nat],
   rules   : [Dev -> Nat]]

------------------------------------------------------------------------------
(***************************************************************************)
(* Changes to a specification                                              *)
(***************************************************************************)
(* The first error stays: addErrorEnvVar returns when the variable exists. *)
AddErrorEnvVar(s, e) == IF s.error = NoError THEN [s EXCEPT !.error = e] ELSE s

(* Mutant: the hooks that are there are not looked at.                     *)
AppendHook(s, lifecycle) == [s EXCEPT !.hooks[lifecycle] = @ + 1]

(* A hook is added unless one of ours is already there.                    *)
AddHook(s, lifecycle) ==
  IF s.hooks[lifecycle] > 0 THEN s ELSE [s EXCEPT !.hooks[lifecycle] = 1]

(* Mutant: a node with another number is taken for another node.           *)
AddDevicesByNumber(s, nodes, num) ==
  [s EXCEPT !.devices =
     [e \in Node \X Dev |->
        IF e[1] \in nodes /\ num[e[1]] = e[2] /\ s.devices[e] = 0
        THEN 1 ELSE s.devices[e]]]

(* Mutant: a node whose path is there gets the number it has now.          *)
AddDevicesReplacing(s, nodes, num) ==
  [s EXCEPT !.devices =
     [e \in Node \X Dev |->
        IF e[1] \in nodes THEN (IF num[e[1]] = e[2] THEN 1 ELSE 0)
                          ELSE s.devices[e]]]

(* Nodes whose path is in the specification are skipped, whatever number   *)
(* the specification gives them.                                           *)
AddDevicesToSpec(s, nodes, num) ==
  [s EXCEPT !.devices =
     [e \in Node \X Dev |->
        IF /\ e[1] \in nodes
           /\ num[e[1]] = e[2]
           /\ \A d \in Dev : s.devices[<<e[1], d>>] = 0
        THEN s.devices[e] + 1
        ELSE s.devices[e]]]

(* Mutant: no rule for the control nodes.                                  *)
AllowWithoutControl(s, nodes, num) ==
  [s EXCEPT !.rules =
     [d \in Dev |-> IF s.rules[d] = 0 /\ (\E n \in nodes : n[1] # "ctl" /\ num[n] = d)
                    THEN 1 ELSE s.rules[d]]]

(* Rules are looked up by device number, not by path.                      *)
AddAllowList(s, nodes, num) ==
  [s EXCEPT !.rules =
     [d \in Dev |-> IF s.rules[d] = 0 /\ (\E n \in nodes : num[n] = d)
                    THEN 1
                    ELSE s.rules[d]]]

(***************************************************************************)
(* addDevicesToSpec then addAllowList, with the panics of the pointers     *)
(* they follow: without a linux section nothing is added, and without      *)
(* linux.resources the nodes are added and the rules are not.              *)
(***************************************************************************)
Panics(s) == s.linux # "full"

AddNodes(s, nodes, num) ==
  CASE s.linux = "absent" -> s
    [] s.linux = "bare"   -> AddDevicesToSpec(s, nodes, num)
    [] s.linux = "full"   -> AddAllowList(AddDevicesToSpec(s, nodes, num),
                                          nodes, num)

------------------------------------------------------------------------------
(***************************************************************************)
(* What can be said of a specification, and of two                         *)
(***************************************************************************)
Has(s, n) == \E d \in Dev : s.devices[<<n, d>>] > 0

Usable(s, n) == \E d \in Dev : s.devices[<<n, d>>] > 0 /\ s.rules[d] > 0

(* No hook of ours, no path of a node and no number of a rule twice.       *)
NoDuplicatesIn(s) ==
  /\ \A l \in Lifecycle : s.hooks[l] \leq 1
  /\ \A n \in Node, d \in Dev : s.devices[<<n, d>>] > 0 =>
       /\ s.devices[<<n, d>>] = 1
       /\ \A d2 \in Dev \ {d} : s.devices[<<n, d2>>] = 0
  /\ \A d \in Dev : s.rules[d] \leq 1

(* Where there is a list of rules, it has the number of every node.        *)
RulesFollowNodesIn(s) ==
  s.linux = "full" =>
    \A n \in Node, d \in Dev : s.devices[<<n, d>>] > 0 => s.rules[d] > 0

(* t has everything s has, and an error if s has one.                      *)
Extends(t, s) ==
  /\ t.env = s.env /\ t.privileged = s.privileged /\ t.linux = s.linux
  /\ s.error # NoError => t.error # NoError
  /\ \A l \in Lifecycle : t.hooks[l] \geq s.hooks[l]
  /\ \A e \in Node \X Dev : t.devices[e] \geq s.devices[e]
  /\ \A d \in Dev : t.rules[d] \geq s.rules[d]

AddedTo(s, t, n) == \E d \in Dev : t.devices[<<n, d>>] > s.devices[<<n, d>>]

(* The accelerators an environment selects on a host that has them all.    *)
MayRequest(env) == RequestedDevices(env, {"accel"} \X Num)
==============================================================================

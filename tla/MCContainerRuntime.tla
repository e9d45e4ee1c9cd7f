------------------------- MODULE MCContainerRuntime --------------------------
(***************************************************************************)
(* Small instances of ContainerRuntime: two accelerators, device numbers   *)
(* given by two loads of the driver, and the hosts, bundles and            *)
(* configurations that reach every branch of the code.                     *)
(***************************************************************************)
EXTENDS ContainerRuntime

(* Six numbers for the six nodes.                                          *)
MCDev == 1..6

(* The number of a node: by accelerator first, or by kind first.           *)
ByAccelerator(n) ==
  3 * n[2] + (CASE n[1] = "accel" -> 1 [] n[1] = "ctl" -> 2 [] n[1] = "uverb" -> 3)
ByKind(n) ==
  (CASE n[1] = "accel" -> 1 [] n[1] = "ctl" -> 3 [] n[1] = "uverb" -> 5) + n[2]

Numbered(nodes, Number(_)) ==
  [n \in Node |-> IF n \in nodes THEN Number(n) ELSE NoDev]

Healthy ==
  [num |-> Numbered(Node, ByAccelerator), verbs |-> Num, sysfs |-> Num,
   hook |-> TRUE, runc |-> TRUE, gaudinet |-> "file"]

(* The driver was reloaded and numbers its devices in another way, some    *)
(* with a number another node had; no infiniband and no gaudinet.json.     *)
Reloaded == [Healthy EXCEPT !.num = Numbered(Node, ByKind), !.verbs = {},
                            !.gaudinet = "absent"]

(* Accelerator 0 alone, halfway: it should have an uverb node, and its     *)
(* sysfs entries and gaudinet.json cannot be read.                         *)
Halfway == [Healthy EXCEPT
              !.num = Numbered({<<"accel", 0>>, <<"ctl", 0>>}, ByAccelerator),
              !.verbs = {0}, !.sysfs = {}, !.gaudinet = "unreadable"]

(* Neither the driver nor the binaries are there.                          *)
Unloaded == [num |-> Numbered({}, ByKind), verbs |-> {}, sysfs |-> {},
             hook |-> FALSE, runc |-> FALSE, gaudinet |-> "empty"]

MCHosts == {Healthy, Reloaded, Halfway, Unloaded}

Plain(env) ==
  [env |-> env, privileged |-> FALSE, linux |-> "full", error |-> NoError,
   hooks |-> [l \in Lifecycle |-> 0],
   devices |-> [e \in Node \X Dev |-> 0],
   rules |-> [d \in Dev |-> 0]]

Asks(value) == <<Entry(VisibleDevices, value)>>

(* docker run --device /dev/accel/accel0: the engine wrote node and rule.  *)
WithDevice ==
  [Plain(Asks(Word("all"))) EXCEPT
     !.devices[<<<<"accel", 0>>, 1>>] = 1, !.rules[1] = 1]

MCSpecs == {Plain(<<>>), Plain(Asks(List({1}, FALSE))), WithDevice,
            [Plain(Asks(Word("all"))) EXCEPT !.linux = "bare"],
            [Plain(Asks(Word("all"))) EXCEPT !.linux = "absent"]}

MCRootfses == {[etc |-> TRUE, dir |-> FALSE, mac |-> {}, gaudinet |-> "absent"]}

Default == [alwaysMount |-> TRUE, mode |-> "oci",
            mountAccelerators |-> TRUE, mountUverbs |-> TRUE]

MCConfigs == {Default,
              [Default EXCEPT !.alwaysMount = FALSE, !.mountUverbs = FALSE],
              [Default EXCEPT !.mountAccelerators = FALSE],
              [Default EXCEPT !.mode = "legacy", !.alwaysMount = FALSE]}
==============================================================================

--------------------------- MODULE MCPrestartDevices ---------------------------
(***************************************************************************)
(* Small instances of PrestartDevices: two accelerators that exchange      *)
(* their numbers when the driver is loaded again, an infiniband node, and  *)
(* a number the engine allows by itself.                                   *)
(***************************************************************************)
EXTENDS PrestartDevices, TLC

MCDev == 1..4

Both  == "accel0" :> 1 @@ "accel1" :> 2 @@ "uverbs0" :> 3
MCHosts == {Both, [Both EXCEPT !["accel0"] = 2, !["accel1"] = 1],
            [Both EXCEPT !["accel1"] = NoDev]}

(* runc's program, and systemd's beside it.                                *)
Setup(v, limit, slots) ==
  [version |-> v, beyond |-> limit, slots |-> slots,
   base |-> [s \in Slots |-> IF s = "runc" THEN {4} ELSE {1, 4}]]

MCGroups ==
  {Setup(1, MCDev, {"runc"}), Setup(1, MCDev \ {2}, {"runc"}),
   Setup(2, MCDev, {"runc"}), Setup(2, MCDev \ {2}, {"runc", "systemd"}),
   Setup(2, MCDev, {})}

Cgroupfs == <<"sys", "fs", "cgroup">>
Other == MountLine("ext4", <<>>, <<>>)

Unified ==
  [cgroup |-> <<GroupLine("", <<"system", "c1">>)>>,
   mountinfo |-> <<Other, MountLine("cgroup2", <<>>, Cgroupfs)>>]
Hybrid ==
  [cgroup |-> <<GroupLine("memory", <<"docker", "c1">>),
                GroupLine("devices", <<"docker", "c1">>), GroupLine("", <<>>)>>,
   mountinfo |-> <<Other, MountLine("cgroup", <<>>, Cgroupfs \o <<"memory">>),
                   MountLine("cgroup2", <<>>, Cgroupfs \o <<"unified">>),
                   MountLine("cgroup", <<>>, Cgroupfs \o <<"devices">>)>>]
Nested ==
  [cgroup |-> <<GroupLine("", <<"docker", "node", "c1">>)>>,
   mountinfo |-> <<Other, MountLine("cgroup2", <<"docker", "node">>, Cgroupfs)>>]
Outside == [Nested EXCEPT !.mountinfo[2].prefix = <<"..", "..">>]
Broken  == [Unified EXCEPT !.cgroup = <<MalformedGroupLine>> \o @]

MCProcs == {Unified, Hybrid, Nested, Outside, Broken}

(* A /dev of its own, as engines set it up, or the root file system's; a   *)
(* root file system that has the directory or a file of a node.            *)
Root(devfs, dirs, files) == [devfs |-> devfs, tree |-> [dirs |-> dirs, files |-> files]]

MCRootfses ==
  {Root(TRUE, {}, {}), Root(FALSE, {}, {}), Root(TRUE, {"accel"}, {"accel0"})}

MCConfigs == {[mountAccelerators |-> TRUE, mountUverbs |-> TRUE],
              [mountAccelerators |-> FALSE, mountUverbs |-> TRUE],
              [mountAccelerators |-> TRUE, mountUverbs |-> FALSE]}

(* Where the hierarchy is mounted from its root, and where it is not.      *)
NestedProcs == {Unified, Nested}
==============================================================================

---------------------------- MODULE PrestartDevices ----------------------------
(***************************************************************************)
(* The prestart hook's part of a container's creation in legacy mode,      *)
(* handlePrestart of habana-container-cli, command by command: it finds    *)
(* the container's cgroup (CgroupPaths), mounts the accelerators one by    *)
(* one in the container's mount namespace and adds their rules to the      *)
(* cgroup in one call (CgroupDevices), then the same for the infiniband    *)
(* nodes.  runc starts the container only when the hook succeeds.          *)
(*                                                                         *)
(* A container may be created again with the same root file system.  The   *)
(* host's devices may change, systemd may reload, and the CLI may fail or  *)
(* be killed between any two steps.                                        *)
(***************************************************************************)
EXTENDS CgroupDevices, CgroupPaths

CONSTANTS
  Accels,       \* paths of accelerator nodes
  Verbs,        \* paths of infiniband nodes
  NoDev,        \* the number of a node that does not exist
  Hosts,        \* the numbers the host's nodes may have
  Procs,        \* the files of /proc
  Groups,       \* the device cgroups the engine may set up
  Rootfses,     \* the root file systems it may prepare
  Configs,      \* the configurations of the CLI
  MaxCreations  \* bound on the creations of the container

Nodes == Accels \cup Verbs

(* What is to be found below a root of /dev: directories and plain files.  *)
DirOf(n) == IF n \in Accels THEN "accel" ELSE "infiniband"
TreeType == [dirs : SUBSET {"accel", "infiniband"}, files : SUBSET Nodes]
Empty == [dirs |-> {}, files |-> {}]

(* devfs: the container has a file system of its own on /dev.              *)
RootfsType == [devfs : BOOLEAN, tree : TreeType]

ConfigType == [mountAccelerators : BOOLEAN, mountUverbs : BOOLEAN]

GroupType == [version : {1, 2}, beyond : SUBSET Dev, base : [Slots -> SUBSET Dev],
              slots : SUBSET Slots]

ASSUME PrestartAssumption ==
  /\ Accels \cap Verbs = {}
  /\ NoDev \notin Dev
  /\ Hosts \subseteq [Nodes -> Dev \cup {NoDev}]
  /\ Groups \subseteq GroupType
  /\ Rootfses \subseteq RootfsType
  /\ Configs \subseteq ConfigType
  /\ MaxCreations \in Nat

VARIABLES
  num,       \* the numbers of the host's nodes
  proc,      \* /proc of the container's process
  config,    \* the CLI's flags
  rootfs,    \* the container's root file system, as the host sees it
  dev,       \* the tree on the container's own /dev
  mounted,   \* mounts in the container's namespace: pairs of path and number
  stage,     \* where the hook or the container is
  batch,     \* the nodes handleMounts has been called for
  devices,   \* the nodes parseDevices selected
  todo,      \* those of the batch still to be mounted
  node,      \* the one whose file was made and is not mounted, as a set
  infos,     \* numbers of the batch's nodes, for the rules
  creations,
  \* History, read by no action:
  granted,   \* what the engine let the group open
  lookedUp,  \* paths and numbers DeviceInfo returned in this creation
  calm       \* the host has not changed in this creation

hook   == <<stage, batch, devices, todo, node, infos>>
stable == <<proc, config, creations>>
past   == <<granted, lookedUp>>
prestartVars == <<cgroupVars, num, proc, config, rootfs, dev, mounted, hook,
                  creations, past, calm>>

Stages == {"idle", "locate", "mount", "rules", "running", "failed"}

PrestartTypeOK ==
  /\ CgroupTypeOK
  /\ num \in [Nodes -> Dev \cup {NoDev}]
  /\ config \in ConfigType
  /\ rootfs \in RootfsType
  /\ dev \in TreeType
  /\ mounted \in SUBSET (Nodes \X Dev)
  /\ stage \in Stages
  /\ batch \in {"accelerators", "uverbs"}
  /\ devices \in SUBSET Nodes
  /\ todo \in SUBSET devices
  /\ node \in SUBSET todo
  /\ infos \in SUBSET Dev
  /\ creations \in 0..MaxCreations
  /\ granted \in SUBSET Dev
  /\ lookedUp \in SUBSET (Nodes \X Dev)
  /\ calm \in BOOLEAN

Present == {n \in Nodes : num[n] # NoDev}

PrestartInit ==
  /\ \E g \in Groups :
       /\ version = g.version /\ beyond = g.beyond /\ base = g.base
       /\ allowed = {d \in g.beyond : \A s \in g.slots : d \in g.base[s]}
       /\ progs = {EngineProgram(s, g.base[s]) : s \in g.slots}
  /\ CgroupInit
  /\ num \in Hosts
  /\ proc \in Procs /\ CGroupVersion(proc.cgroup) \in {0, version}
  /\ config \in Configs
  /\ rootfs \in Rootfses
  /\ dev = Empty
  /\ mounted = {}
  /\ stage = "idle"
  /\ batch = "accelerators"
  /\ devices = {}
  /\ todo = {}
  /\ node = {}
  /\ infos = {}
  /\ creations = 0
  /\ granted = Access
  /\ lookedUp = {}
  /\ calm = TRUE

(* runc makes group and mount namespace, and runs the hook, which selects  *)
(* some devices of the host, or none.  After a failure the engine may try  *)
(* again.                                                                  *)
Create ==
  /\ stage \in {"idle", "failed", "running"}
  /\ creations < MaxCreations
  /\ creations' = creations + 1
  /\ \E g \in Groups :
       /\ CGroupVersion(proc.cgroup) \in {0, g.version}
       /\ Fresh(g.version, g.beyond, g.base, g.slots)
  /\ granted' = Access'
  /\ stage' = "locate"
  /\ batch' = "accelerators"
  /\ devices' \in SUBSET Present
  /\ todo' = {}
  /\ node' = {}
  /\ infos' = {}
  /\ dev' = Empty
  /\ mounted' = {}
  /\ lookedUp' = {}
  /\ calm' = TRUE
  /\ UNCHANGED <<num, proc, config, rootfs>>

Fails ==
  /\ stage' = "failed"
  /\ node' = {}
  /\ UNCHANGED <<batch, devices, todo, infos>>

------------------------------------------------------------------------------
(* handleMounts for the next batch that the configuration wants, or the    *)
(* end of the hook and the start of the container.                         *)
StartAccelerators ==
  /\ stage' = "mount" /\ batch' = "accelerators"
  /\ todo' = devices \cap Accels

StartUverbs ==
  IF config.mountUverbs
    THEN stage' = "mount" /\ batch' = "uverbs" /\ todo' = devices \cap Verbs
    ELSE stage' = "running" /\ UNCHANGED <<batch, todo>>

Locate ==
  /\ stage = "locate"
  /\ IF ~ContainerCgroupPath(proc).ok
       THEN stage' = "failed" /\ UNCHANGED <<batch, todo>>
       ELSE IF config.mountAccelerators THEN StartAccelerators ELSE StartUverbs
  /\ UNCHANGED <<cgroupVars, num, stable, rootfs, dev, mounted, devices, node,
                 infos, past, calm>>

(* What a command in the container's namespace sees and changes.           *)
Inner == IF rootfs.devfs THEN dev ELSE rootfs.tree

InnerBecomes(tree) ==
  IF rootfs.devfs THEN dev' = tree /\ UNCHANGED rootfs
                  ELSE rootfs' = [rootfs EXCEPT !.tree = tree] /\ UNCHANGED dev

(* Mutant: that the node exists is not checked.                            *)
LookUpUnchecked(n) ==
  /\ stage = "mount" /\ node = {} /\ n \in todo
  /\ infos' = infos \cup {num[n]}
  /\ lookedUp' = lookedUp \cup {<<n, num[n]>>}

(* DeviceInfo, before anything is made for the node.                       *)
LookUp(n) ==
  /\ stage = "mount" /\ node = {} /\ n \in todo
  /\ num[n] # NoDev
  /\ infos' = infos \cup {num[n]}
  /\ lookedUp' = lookedUp \cup {<<n, num[n]>>}

(* fileExist(containerPath) looks at the root file system from the host,   *)
(* where the container's own /dev and its mounts are not seen.             *)
SkipNode(n) ==
  /\ LookUp(n)
  /\ n \in rootfs.tree.files
  /\ todo' = todo \ {n}
  /\ UNCHANGED <<cgroupVars, num, stable, rootfs, dev, mounted, stage, batch, devices,
                 node, granted, calm>>

(* mkdir -p if the host does not see the directory, then touch, which      *)
(* needs it in the container.                                              *)
TouchNode(n) ==
  LET dirs == IF DirOf(n) \in rootfs.tree.dirs THEN Inner.dirs
                                               ELSE Inner.dirs \cup {DirOf(n)}
  IN  /\ LookUp(n)
      /\ n \notin rootfs.tree.files
      /\ DirOf(n) \in dirs
      /\ InnerBecomes([dirs |-> dirs, files |-> Inner.files \cup {n}])
      /\ node' = {n}
      /\ UNCHANGED <<cgroupVars, num, stable, mounted, stage, batch, devices, todo,
                     granted, calm>>

(* mount --bind: the node the host has by now under that path.             *)
MountNode(n) ==
  /\ stage = "mount" /\ n \in node
  /\ num[n] # NoDev
  /\ mounted' = mounted \cup {<<n, num[n]>>}
  /\ todo' = todo \ {n}
  /\ node' = {}
  /\ UNCHANGED <<cgroupVars, num, stable, rootfs, dev, stage, batch, devices, infos,
                 past, calm>>

(* Mutant: the failure is logged and the next node is tried.               *)
MountFailureLogged(n) ==
  /\ stage = "mount" /\ n \in node
  /\ InnerBecomes([Inner EXCEPT !.files = @ \ {n}])
  /\ todo' = todo \ {n}
  /\ node' = {}
  /\ UNCHANGED <<cgroupVars, num, stable, mounted, stage, batch, devices, infos,
                 past, calm>>

(* It fails, and the file is removed.                                      *)
MountFails(n) ==
  /\ stage = "mount" /\ n \in node
  /\ InnerBecomes([Inner EXCEPT !.files = @ \ {n}])
  /\ Fails
  /\ UNCHANGED <<cgroupVars, num, stable, mounted, past, calm>>

PathIsRight ==
  GroupAt(proc, ContainerCgroupPath(proc).first) = Group(proc)

AddRules ==
  /\ stage = "mount" /\ todo = {}
  /\ AddDeviceRules(infos, PathIsRight)
  /\ stage' = "rules"
  /\ UNCHANGED <<num, stable, rootfs, dev, mounted, batch, devices, todo, node,
                 infos, past, calm>>

CallWorks ==
  /\ stage = "rules"
  /\ CallStep
  /\ UNCHANGED <<num, stable, rootfs, dev, mounted, hook, past, calm>>

(* Mutant: the error of AddDeviceRules is logged and the hook goes on.     *)
HandleMountsTolerates ==
  /\ stage = "rules" /\ call \in {"ok", "failed"}
  /\ infos' = {}
  /\ IF batch = "accelerators"
       THEN StartUverbs
       ELSE stage' = "running" /\ UNCHANGED <<batch, todo>>
  /\ UNCHANGED <<cgroupVars, num, stable, rootfs, dev, mounted, devices, node, past,
                 calm>>

HandleMountsReturns ==
  /\ stage = "rules" /\ call \in {"ok", "failed"}
  /\ infos' = {}
  /\ IF call = "failed"
       THEN stage' = "failed" /\ UNCHANGED <<batch, todo>>
     ELSE IF batch = "accelerators"
       THEN StartUverbs
       ELSE stage' = "running" /\ UNCHANGED <<batch, todo>>
  /\ UNCHANGED <<cgroupVars, num, stable, rootfs, dev, mounted, devices, node, past,
                 calm>>

(* A command fails or a node is missing; or the CLI is killed, which may   *)
(* leave the file of a node behind.                                        *)
CLIFails ==
  /\ stage \in {"locate", "mount"}
  /\ Fails
  /\ UNCHANGED <<cgroupVars, num, stable, rootfs, dev, mounted, past, calm>>

------------------------------------------------------------------------------
HostChange ==
  /\ num' \in Hosts \ {num}
  /\ calm' = FALSE
  /\ UNCHANGED <<cgroupVars, stable, rootfs, dev, mounted, hook, past>>

SystemdReloads ==
  /\ \E s \in Slots : Reattach(s)
  /\ UNCHANGED <<num, stable, rootfs, dev, mounted, hook, past, calm>>

PrestartNext ==
  \/ Create
  \/ Locate
  \/ \E n \in Nodes : SkipNode(n) \/ TouchNode(n) \/ MountNode(n) \/ MountFails(n)
  \/ AddRules \/ CallWorks \/ HandleMountsReturns
  \/ CLIFails
  \/ HostChange \/ SystemdReloads

PrestartSpec == PrestartInit /\ [][PrestartNext]_prestartVars

------------------------------------------------------------------------------
(***************************************************************************)
(* Properties                                                              *)
(***************************************************************************)
Wanted == (IF config.mountAccelerators THEN devices \cap Accels ELSE {})
            \cup (IF config.mountUverbs THEN devices \cap Verbs ELSE {})

(* In legacy mode a container that runs has each device its configuration  *)
(* mounts, with the number the host has for it, and may open it unless a   *)
(* group above forbids it: for both versions of cgroup, and whatever an    *)
(* earlier creation that failed or was killed has left.  Outside the       *)
(* promise are a host or a systemd that changed meanwhile; a path that is  *)
(* taken in the root file system; and a container without a /dev of its    *)
(* own, where the file a creation makes for a mount is taken for the       *)
(* device by the next one (cli main.go:256-268, 328-431).                  *)
RunningHasItsDevices ==
  stage = "running" /\ calm =>
    \A n \in Wanted :
      /\ rootfs.devfs /\ n \notin rootfs.tree.files => <<n, num[n]>> \in mounted
      /\ ~disturbed /\ num[n] \in beyond => num[n] \in Access

(* Whatever happens to host, filter and hook, a container that runs may    *)
(* open only what the engine let it and the numbers its own requested      *)
(* nodes had; in particular it never runs with the filter taken off, which *)
(* AddDeviceRules does for a while (v2.go:169-185).                        *)
RunningIsConfined ==
  stage = "running" =>
    Access \subseteq granted \cup {e[2] : e \in lookedUp}


(***************************************************************************)
(* What the comments say and the code does not do                          *)
(***************************************************************************)
(* "Return the cgroup root from the 2nd element (with the prefix possibly  *)
(* stripped off)" (v1.go:103, v2.go:101): where the hierarchy is mounted   *)
(* from a group below its root, as in a container, the path without the    *)
(* prefix is the one that exists below the mount point.                    *)
NestedGroupIsFound ==
  stage \in {"mount", "rules"} => PathIsRight
==============================================================================

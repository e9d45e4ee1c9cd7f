--------------------------- MODULE CreatePipeline ----------------------------
(***************************************************************************)
(* The creation of a container from end to end: the runtime prepares the   *)
(* bundle (ContainerRuntime), runc loads config.json and runs its hooks,   *)
(* each habana hook reads config.json again and runs habana-container-cli, *)
(* which mounts devices (prestart, the legacy mode) and moves the external *)
(* network interfaces into the container's network namespace.              *)
(*                                                                         *)
(* The programs share config.json, the host and the interfaces.  An        *)
(* interface carries one macvlan link in passthru mode at a time, so a     *)
(* container competes for it with the others on the host.                  *)
(***************************************************************************)
EXTENDS ContainerRuntime

CONSTANT
  Settings \* what the container and its host may be set up like

(* A namespace made for the container, one of a pod that outlives it, or   *)
(* the host's.                                                             *)
NetworkKinds == {"own", "pod", "host"}

(* accept-habana-visible-devices-envvar-when-unprivileged, and of the      *)
(* table [habana-container-cli] the options that reach the command line.   *)
HookConfigType ==
  [accept : BOOLEAN, root : BOOLEAN,
   mountAccelerators : BOOLEAN, mountUverbs : BOOLEAN]

(* The external interface of each accelerator: down, up without a gateway  *)
(* route, up with an address and a gateway route, or up with the route but *)
(* no address.                                                             *)
InterfaceType == [Num -> {"down", "up", "routed", "unnumbered"}]

(* devfs: the container's /dev is a file system of its own, which the host *)
(* does not see.  grouped: the path handlePrestart puts together, with the *)
(* prefix and the mount point swapped, is that of the container's cgroup.  *)
PlaceType == [devfs : BOOLEAN, grouped : BOOLEAN]

(* taken: the nodes at whose path the image has a file.                    *)
SettingType ==
  [hookCfg : HookConfigType, network : NetworkKinds, interface : InterfaceType,
   place : PlaceType, taken : SUBSET Node]

ASSUME PipelineAssumption == Settings \subseteq SettingType

VARIABLES
  hookCfg,   \* config.toml as the hook reads it
  network,   \* the container's kind of network
  interface, \* the host's interfaces
  place,     \* where the hook finds the container
  runc,      \* where runc is
  pending,   \* habana hooks runc has still to run, by lifecycle
  lifecycle, \* the hook that runs
  tool,      \* where the hook and its CLI are
  flag,      \* the value of --device
  accels,    \* devices.accelerators of the CLI
  verbs,     \* accelerators with an entry in devices.uverbs
  todo,      \* interfaces exposeInterfaces has still to handle
  current,   \* the one it is handling, as a set of at most one
  link,      \* who has the macvlan link of each interface
  made,      \* the links this CLI made
  taken,     \* nodes whose path the host sees in the root file system
  inside,    \* device nodes in the container, with or without access
  crashed    \* history: some CLI died without returning from run

hook == <<lifecycle, flag>>
cli == <<accels, verbs, todo, current, made>>
given == <<hookCfg, network, interface, place>>
container == <<taken, inside>>
pipeline == <<given, runc, pending, hook, tool, cli, link, container, crashed>>

(* A link is nobody's, another container's, in this container's namespace  *)
(* under its temporary name, or in it under the interface's name.          *)
Links == {"free", "other", "temp", "named"}

RuncStages == {"idle", "hooks", "started", "failed", "gone"}

ToolStages == {"idle", "hook", "flags", "parse", "cgroup", "accelerators",
               "uverbs", "netinfo", "list", "links", "namespace",
               "done", "failed"}

PipelineTypeOK ==
  /\ hookCfg \in HookConfigType
  /\ network \in NetworkKinds
  /\ interface \in InterfaceType
  /\ place \in PlaceType
  /\ runc \in RuncStages
  /\ pending \in [Lifecycle -> Nat]
  /\ lifecycle \in Lifecycle
  /\ tool \in ToolStages
  /\ flag \in [word : Words, nums : SUBSET Nat, junk : BOOLEAN]
  /\ accels \in SUBSET Node
  /\ verbs \in SUBSET Num
  /\ todo \in SUBSET Num
  /\ current \in SUBSET Num
  /\ link \in [Num -> Links]
  /\ made \in SUBSET Num
  /\ crashed \in BOOLEAN
  /\ taken \in SUBSET Node
  /\ inside \in [Node -> {"absent", "closed", "open"}]

PipelineInit ==
  /\ Init
  /\ \E s \in Settings :
       /\ hookCfg = s.hookCfg
       /\ network = s.network
       /\ interface = s.interface
       /\ place = s.place
       /\ taken = s.taken
  /\ runc = "idle"
  /\ pending = [l \in Lifecycle |-> 0]
  /\ lifecycle = "prestart"
  /\ tool = "idle"
  /\ flag = Word("all")
  /\ accels = {}
  /\ verbs = {}
  /\ todo = {}
  /\ current = {}
  /\ link = [i \in Num |-> "free"]
  /\ made = {}
  /\ crashed = FALSE
  /\ inside = [n \in Node |-> "absent"]

------------------------------------------------------------------------------
(***************************************************************************)
(* runc, as the code relies on it: it makes the device nodes, runs the     *)
(* prestart hooks and then the createRuntime hooks, one after the other,   *)
(* and gives the container up when one fails.                              *)
(***************************************************************************)
FreshInside(s) ==
  [n \in Node |-> IF Usable(s, n) THEN "open" ELSE IF Has(s, n) THEN "closed"
                  ELSE "absent"]

(* Files made in a /dev of the container's own are not seen by the host.   *)
TakePaths(nodes) == taken' = IF place.devfs THEN taken ELSE taken \cup nodes

RuncLoads ==
  /\ pc = "handed" /\ cmd = "create" /\ runc = "idle"
  /\ IF file.torn
       THEN runc' = "failed" /\ UNCHANGED <<pending, container>>
       ELSE /\ runc' = "hooks"
            /\ pending' = file.spec.hooks
            /\ inside' = FreshInside(file.spec)
            /\ TakePaths({n \in Node : Has(file.spec, n)})
  /\ UNCHANGED <<vars, given, hook, tool, cli, link, crashed>>

RuncRunsHook(l) ==
  /\ runc = "hooks" /\ tool = "idle" /\ pending[l] > 0
  /\ l = "createRuntime" => pending["prestart"] = 0
  /\ lifecycle' = l
  /\ tool' = "hook"
  /\ made' = {}
  /\ UNCHANGED <<vars, given, runc, pending, flag, accels, verbs, todo, current,
                 link, container, crashed>>

RuncSeesHookEnd ==
  /\ tool \in {"done", "failed"}
  /\ tool' = "idle"
  /\ IF tool = "done"
       THEN pending' = [pending EXCEPT ![lifecycle] = @ - 1] /\ UNCHANGED runc
       ELSE runc' = "failed" /\ UNCHANGED pending
  /\ UNCHANGED <<vars, given, hook, cli, link, container, crashed>>

RuncStarts ==
  /\ runc = "hooks" /\ tool = "idle" /\ \A l \in Lifecycle : pending[l] = 0
  /\ runc' = "started"
  /\ UNCHANGED <<vars, given, pending, hook, tool, cli, link, container, crashed>>

(* The container is removed, and with it a namespace of its own.           *)
Ours == {i \in Num : link[i] \in {"temp", "named"}}

RuncRemoves ==
  /\ runc \in {"started", "failed"}
  /\ runc' = "gone"
  /\ link' = [i \in Num |-> IF network = "own" /\ i \in Ours THEN "free" ELSE link[i]]
  /\ inside' = [n \in Node |-> "absent"]
  /\ UNCHANGED <<vars, given, pending, hook, tool, cli, taken, crashed>>

------------------------------------------------------------------------------
(***************************************************************************)
(* habana-container-hook                                                   *)
(***************************************************************************)
(* doHook up to the command line of the CLI: every panic exits with 1.     *)
HookReadsContainer ==
  LET env == file.spec.env
  IN  /\ tool = "hook"
      /\ IF \/ file.torn
            \/ GetEnvMapPanics(env)
            \/ GetDevicesPanics(file.spec.privileged, hookCfg.accept)
           THEN tool' = "failed" /\ UNCHANGED flag
           ELSE tool' = "flags" /\ flag' = GetDevicesFromEnvvar(env)
      /\ UNCHANGED <<vars, given, runc, pending, lifecycle, cli, link, container,
                     crashed>>

(***************************************************************************)
(* habana-container-cli                                                    *)
(***************************************************************************)
(* app.Run: --device is required and checked.  --root, which the hook      *)
(* passes for the option of config.toml, is no flag of the CLI.            *)
CLIParsesFlags ==
  /\ tool = "flags"
  /\ tool' = IF DeviceFlagSet(flag) /\ DeviceFlagValid(flag) /\ ~hookCfg.root
               THEN "parse" ELSE "failed"
  /\ UNCHANGED <<vars, given, runc, pending, hook, cli, link, container, crashed>>

(* parseDevices: no accelerator at all ends the CLI with success; an id    *)
(* without its sysfs entries is an error.                                  *)
CLIParsesDevices ==
  LET chosen == ParseDevices(flag, PresentNodes(host))
      chosenIds == DevicesIDs(chosen)
  IN  /\ tool = "parse"
      /\ IF CharDevices(PresentNodes(host)) = {}
           THEN tool' = "done" /\ UNCHANGED <<accels, verbs>>
           ELSE IF ~(chosenIds \subseteq host.sysfs)
             THEN tool' = "failed" /\ UNCHANGED <<accels, verbs>>
             ELSE /\ accels' = chosen
                  /\ verbs' = chosenIds \cap host.verbs
                  /\ tool' = IF lifecycle = "prestart" THEN "cgroup" ELSE "list"
      /\ UNCHANGED <<vars, given, runc, pending, hook, todo, current, made, link,
                     container, crashed>>

(* The cgroup version and a path are found, or not (ToolFails).  The path  *)
(* is the container's where place.grouped says so (CgroupPaths has both).  *)
CLIFindsCgroup ==
  /\ tool = "cgroup"
  /\ tool' = "accelerators"
  /\ UNCHANGED <<vars, given, runc, pending, hook, cli, link, container, crashed>>

(* Device nodes after handleMounts: a node whose path is taken is skipped, *)
(* and stays absent unless runc made it; the others are mounted.           *)
NodesBecome(files, mounted, opened) ==
  /\ TakePaths(files)
  /\ inside' = [n \in Node |->
       IF n \notin mounted \/ (n \in taken /\ inside[n] = "absent") THEN inside[n]
       ELSE IF n \in opened THEN "open"
       ELSE IF inside[n] = "absent" THEN "closed" ELSE inside[n]]

(* The nodes the rules open: none when they go to another group.           *)
Openable(nodes) == IF place.grouped THEN nodes ELSE {}

(* Mutant: the nodes are mounted and the cgroup is left alone.             *)
MountsWithoutRules(enabled, nodes, next) ==
  /\ \/ ~enabled /\ UNCHANGED container
     \/ /\ enabled /\ nodes \subseteq PresentNodes(host)
        /\ NodesBecome(nodes, nodes, {})
  /\ tool' = next
  /\ UNCHANGED <<vars, given, runc, pending, hook, cli, link, crashed>>

(***************************************************************************)
(* handleMounts: the nodes are mounted one by one, then their rules are    *)
(* added in one call.  A failure undoes nothing: some nodes are mounted,   *)
(* of one more only the file may be there, or all are and some have rules. *)
(***************************************************************************)
HandleMounts(enabled, nodes, next) ==
  LET present == nodes \cap PresentNodes(host)
  IN  /\ \/ ~enabled /\ tool' = next /\ UNCHANGED container
         \/ /\ enabled /\ present = nodes
            /\ tool' = next
            /\ NodesBecome(nodes, nodes, Openable(nodes))
         \/ /\ enabled /\ present = nodes
            /\ tool' = "failed"
            /\ \E opened \in SUBSET Openable(nodes) : NodesBecome(nodes, nodes, opened)
         \/ /\ enabled
            /\ tool' = "failed"
            /\ \E files \in SUBSET present :
                 \E mounted \in {files} \cup {files \ {n} : n \in files} :
                   NodesBecome(files, mounted, {})
      /\ UNCHANGED <<vars, given, runc, pending, hook, cli, link, crashed>>

CLIMountsAccelerators ==
  tool = "accelerators" /\ HandleMounts(hookCfg.mountAccelerators, accels, "uverbs")

CLIMountsUverbs ==
  tool = "uverbs" /\ HandleMounts(hookCfg.mountUverbs, {"uverb"} \X verbs, "netinfo")

(* Generate, whose error is only logged. No gaudinet file: the hook never  *)
(* passes --routes-files.                                                  *)
CLIGeneratesNetinfo ==
  /\ tool = "netinfo"
  /\ tool' = "list"
  /\ NetinfoWritten(DevicesIDs(accels)) \/ NetinfoFails(DevicesIDs(accels))
  /\ UNCHANGED <<cfg, host, file, process, runs, history, given, runc, pending, hook,
                 cli, link, container, crashed>>

------------------------------------------------------------------------------
(***************************************************************************)
(* exposeInterfaces                                                        *)
(***************************************************************************)
(* Mutant: the links are deleted at the end of a successful run only.      *)
ReturnKeepingLinks(outcome) ==
  /\ tool' = outcome
  /\ link' = [i \in Num |-> IF network = "host" /\ i \in made /\ outcome = "done"
                            THEN "free" ELSE link[i]]

(* The deferred deletions look the temporary names up on the host, where   *)
(* they are only when the container has the host's network.                *)
Return(outcome) ==
  /\ tool' = outcome
  /\ link' = [i \in Num |-> IF network = "host" /\ i \in made THEN "free"
                            ELSE link[i]]

CLIListsInterfaces ==
  /\ tool = "list"
  /\ todo' = ExposedHlibs(DevicesIDs(accels), host.verbs)
  /\ tool' = "links"
  /\ UNCHANGED <<vars, given, runc, pending, hook, accels, verbs, current, made,
                 link, container, crashed>>

(* Mutants: a busy interface is skipped; it is waited for.                 *)
CLISkipsBusyLink(i) ==
  /\ tool = "links" /\ i \in todo
  /\ \/ /\ interface[i] = "down" \/ link[i] # "free"
        /\ todo' = todo \ {i}
        /\ UNCHANGED <<tool, current, made, link>>
     \/ /\ interface[i] # "down" /\ link[i] = "free"
        /\ link' = [link EXCEPT ![i] = "temp"]
        /\ made' = made \cup {i}
        /\ current' = {i}
        /\ tool' = "namespace"
        /\ UNCHANGED todo
  /\ UNCHANGED <<vars, given, runc, pending, hook, accels, verbs, container, crashed>>

CLIWaitsForLink(i) ==
  /\ CLISkipsBusyLink(i)
  /\ interface[i] = "down" \/ link[i] = "free"

(* One turn of the loop, up to the link's creation, which the kernel       *)
(* refuses on an interface that carries a passthru link already.           *)
CLICreatesLink(i) ==
  /\ tool = "links" /\ i \in todo
  /\ \/ /\ interface[i] = "down"
        /\ todo' = todo \ {i}
        /\ UNCHANGED <<tool, current, made, link>>
     \/ /\ interface[i] # "down" /\ link[i] = "free"
        /\ link' = [link EXCEPT ![i] = "temp"]
        /\ made' = made \cup {i}
        /\ current' = {i}
        /\ tool' = "namespace"
        /\ UNCHANGED todo
     \/ /\ interface[i] # "down" /\ link[i] # "free"
        /\ Return("failed")
        /\ UNCHANGED <<todo, current, made>>
  /\ UNCHANGED <<vars, given, runc, pending, hook, accels, verbs, container, crashed>>

(***************************************************************************)
(* The rest of the turn, in the container's namespace.  In the host's the  *)
(* name exists and nothing is done.  devAddrs[0] of an interface without   *)
(* an address panics in the goroutine of netns.Do: the process dies, with  *)
(* neither the recover of run nor the deferred deletions.                  *)
(***************************************************************************)
CLIConfiguresLink(i) ==
  /\ tool = "namespace" /\ i \in current
  /\ IF network = "host"
       THEN UNCHANGED link
       ELSE link' = [link EXCEPT ![i] = "named"]
  /\ IF network # "host" /\ interface[i] = "unnumbered"
       THEN tool' = "failed" /\ crashed' = TRUE /\ UNCHANGED todo
       ELSE tool' = "links" /\ todo' = todo \ {i} /\ UNCHANGED crashed
  /\ current' = {}
  /\ UNCHANGED <<vars, given, runc, pending, hook, accels, verbs, made, container>>

(* Mutant: an error in the namespace is logged and the loop goes on.       *)
CLIGoesOnInNamespace(i) ==
  /\ tool = "namespace" /\ i \in current
  /\ tool' = "links"
  /\ todo' = todo \ {i}
  /\ link' \in {link, [link EXCEPT ![i] = "named"]}
  /\ current' = {}
  /\ UNCHANGED <<vars, given, runc, pending, hook, accels, verbs, made, container,
                 crashed>>

(* A netlink call or the route command fails, before or after the rename.  *)
CLIFailsInNamespace(i) ==
  /\ tool = "namespace" /\ i \in current
  /\ tool' = "failed"
  /\ IF network = "host"
       THEN link' = [j \in Num |-> IF j \in made THEN "free" ELSE link[j]]
       ELSE link' \in {link, [link EXCEPT ![i] = "named"]}
  /\ current' = {}
  /\ UNCHANGED <<vars, given, runc, pending, hook, accels, verbs, todo, made,
                 container, crashed>>

CLIReturns ==
  /\ tool = "links" /\ todo = {}
  /\ Return("done")
  /\ UNCHANGED <<vars, given, runc, pending, hook, cli, container, crashed>>

(* Any other call that can fail: a file, a directory or a binary that is   *)
(* not there, a link that cannot be listed.                                *)
ToolFails ==
  /\ tool \in {"hook", "parse", "cgroup", "accelerators", "uverbs", "list", "links"}
  /\ Return("failed")
  /\ UNCHANGED <<vars, given, runc, pending, hook, cli, container, crashed>>

(* The CLI is killed.                                                      *)
ToolKilled ==
  /\ tool \in ToolStages \ {"idle", "done", "failed"}
  /\ tool' = "failed"
  /\ crashed' = TRUE
  /\ current' = {}
  /\ UNCHANGED <<vars, given, runc, pending, hook, accels, verbs, todo, made, link,
                 container>>

------------------------------------------------------------------------------
(* Other containers take free interfaces and give them back.               *)
OtherContainer(i) ==
  /\ link[i] \in {"free", "other"}
  /\ link' = [link EXCEPT ![i] = IF @ = "free" THEN "other" ELSE "free"]
  /\ UNCHANGED <<vars, given, runc, pending, hook, tool, cli, container, crashed>>

(* The runtime's steps; the engine creates again when runc is done.        *)
RuntimeInvoked ==
  /\ runc = "gone" \/ (runc = "idle" /\ pc # "handed")
  /\ Invoke("create")
  /\ runc' = "idle"
  /\ UNCHANGED <<given, pending, hook, tool, cli, link, container, crashed>>

RuntimeStep == Step /\ UNCHANGED pipeline

EnvironmentStep == (Kill \/ HostChange) /\ UNCHANGED pipeline

RuncStep ==
  \/ RuncLoads
  \/ \E l \in Lifecycle : RuncRunsHook(l)
  \/ RuncSeesHookEnd
  \/ RuncStarts

ToolWorks ==
  \/ HookReadsContainer \/ CLIParsesFlags \/ CLIParsesDevices
  \/ CLIFindsCgroup \/ CLIMountsAccelerators \/ CLIMountsUverbs
  \/ CLIGeneratesNetinfo \/ CLIListsInterfaces
  \/ \E i \in Num : CLICreatesLink(i) \/ CLIConfiguresLink(i)
  \/ CLIReturns

ToolBreaks == ToolFails \/ ToolKilled \/ \E i \in Num : CLIFailsInNamespace(i)

PipelineNext ==
  \/ RuntimeInvoked \/ RuntimeStep \/ EnvironmentStep
  \/ RuncStep \/ RuncRemoves
  \/ ToolWorks \/ ToolBreaks
  \/ \E i \in Num : OtherContainer(i)

pipelineVars == <<vars, pipeline>>

PipelineSpec == PipelineInit /\ [][PipelineNext]_pipelineVars

(* The runtime, runc and the tools are processes the kernel schedules.  No *)
(* engine, host or neighbour has to do anything, and nothing has to fail.  *)
Fairness ==
  /\ WF_pipelineVars(RuntimeStep)
  /\ WF_pipelineVars(RuncStep)
  /\ WF_pipelineVars(ToolWorks)

FairPipelineSpec == PipelineSpec /\ Fairness

------------------------------------------------------------------------------
(***************************************************************************)
(* Properties                                                              *)
(***************************************************************************)
(* The requests all programs read alike: no entry with the variable's      *)
(* prefix, or one, HABANA_VISIBLE_DEVICES itself, with "all" or a list.    *)
PlainRequest(env) ==
  \/ EntriesOf(env, VisiblePrefixed) = {}
  \/ \E i \in DOMAIN env :
       /\ EntriesOf(env, VisiblePrefixed) = {i}
       /\ env[i].name = VisibleDevices /\ env[i].eq
       /\ env[i].val.word \in {"all", "list"}

(* A creation that sees a steady host, all of whose accelerators have one  *)
(* digit, a save that worked and a request of the documented form.         *)
Steadily ==
  /\ calm /\ saved = "ok"
  /\ Gated(original) /\ PlainRequest(original.env)
  /\ \A n \in PresentNodes(host) : n[2] < 10
  /\ \A i \in host.verbs : i < 10

StartedSteadily == runc = "started" /\ Steadily

Named == {i \in Num : link[i] = "named"}

Requested == RequestedDevices(original.env, PresentNodes(host))

(* Runtime, hook and CLI together: the interfaces in a running container   *)
(* are exactly those of the accelerators the runtime takes it to request,  *)
(* except for interfaces that are down.  Three programs compute the set    *)
(* from the environment and the host at different times, while other       *)
(* containers compete for the interfaces and any step may fail.            *)
InterfacesMatchDevices ==
  StartedSteadily /\ Requested # {} /\ network = "own" =>
    Named = {i \in Requested \cap host.verbs : interface[i] # "down"}

(* In legacy mode the runtime adds a hook and nothing else: a running      *)
(* container has, usable, the nodes of the accelerators it requested and   *)
(* the infiniband nodes attached to them, because the prestart hook        *)
(* mounted them and opened them in the container's cgroup                  *)
(* (habana-container-cli main.go:223-386).  The promise is for a container *)
(* with a /dev of its own, in the cgroup the CLI finds, and for a node at  *)
(* whose path the root file system has nothing: otherwise the CLI returns  *)
(* success as well, but skips the node or opens it for another group.      *)
Mountable(n) ==
  IF n[1] = "uverb" THEN hookCfg.mountUverbs /\ n[2] \in host.verbs
                    ELSE hookCfg.mountAccelerators

LegacyHookMountsDevices ==
  StartedSteadily /\ cfg.mode = "legacy" /\ place.devfs /\ place.grouped =>
    \A n \in PresentNodes(host) \ taken :
      n[2] \in Requested /\ Mountable(n) => inside[n] = "open"

(* On the host's network nothing is added: whichever way the CLI returns,  *)
(* at whichever interface, no temporary link of it stays on the host to    *)
(* block the other containers (the deferred deletions of                   *)
(* netdevices.go:106-109). A CLI that was killed may leave one.            *)
HostNetworkKeepsNoLink ==
  network = "host" /\ tool \in {"idle", "done", "failed"} /\ ~crashed => Ours = {}

(* A container in a namespace of its own never runs with a link that still *)
(* has its temporary name, also when the CLI panicked or was killed.       *)
NoTemporaryLinkInside ==
  runc = "started" /\ network = "own" => \A i \in Num : link[i] # "temp"

(* Every creation comes to an end, a container that runs or an error,      *)
(* whatever fails, panics or is killed and however the other containers    *)
(* behave.                                                                 *)
CreateSettles ==
  pc = "start" ~> pc \in {"exited", "killed"} \/ runc \in {"started", "failed"}
==============================================================================

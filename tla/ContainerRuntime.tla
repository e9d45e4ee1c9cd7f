-------------------------- MODULE ContainerRuntime ---------------------------
(***************************************************************************)
(* habana-container-runtime: the program a container engine runs in place  *)
(* of runc.  On a create command it loads the bundle's config.json, adds   *)
(* the hook, the device nodes, the cgroup rules and an error variable to   *)
(* it, writes network files into the root file system, saves config.json   *)
(* in place and becomes runc.  Any other command goes straight to runc.    *)
(*                                                                         *)
(* The module models one bundle over a sequence of invocations.  Between   *)
(* any two steps the host may change (the driver is loaded or removed, a   *)
(* binary is installed) and the process may be killed.                     *)
(***************************************************************************)
EXTENDS BundleSpec

CONSTANTS
  Specs,    \* the OCI specifications an engine may write in config.json
  Rootfses, \* the root file systems an engine may prepare
  Hosts,    \* the states of the host
  Configs,  \* the configurations of the runtime
  MaxRuns   \* bound on the invocations for the bundle

Commands  == {"create", "other"}

Errors    == EnvErrors \cup {"start", "load", "hook", "panic", "runc"}

(***************************************************************************)
(* What the runtime sees of the host: the number of each device node, the  *)
(* accelerators whose infiniband_verbs directory has an entry, those whose *)
(* network information is readable in sysfs, whether the hook's binary and *)
(* runc are found, and the gaudinet.json of the host.                      *)
(***************************************************************************)
HostType ==
  [num      : [Node -> Dev \cup {NoDev}],
   verbs    : SUBSET Num,
   sysfs    : SUBSET Num,
   hook     : BOOLEAN,
   runc     : BOOLEAN,
   gaudinet : {"absent", "empty", "file", "unreadable"}]

(* The container's root file system: /etc, /etc/habanalabs, the devices    *)
(* listed in macAddrInfo.json and the copy of gaudinet.json.               *)
RootfsType ==
  [etc : BOOLEAN, dir : BOOLEAN, mac : SUBSET Num,
   gaudinet : {"absent", "empty", "copied"}]

ConfigType ==
  [alwaysMount : BOOLEAN, mode : {"oci", "legacy"},
   mountAccelerators : BOOLEAN, mountUverbs : BOOLEAN]

ASSUME DomainAssumption ==
  /\ Specs \subseteq SpecType
  /\ Rootfses \subseteq RootfsType
  /\ Hosts \subseteq HostType
  /\ Configs \subseteq ConfigType

(* The kernel gives every node of a host a number of its own.              *)
ASSUME NumbersAssumption ==
  \A h \in Hosts, n1, n2 \in Node :
    h.num[n1] = h.num[n2] /\ h.num[n1] # NoDev => n1 = n2

VARIABLES
  cfg,       \* config.toml
  host,      \* the host
  rootfs,    \* the container's root file system
  file,      \* config.json: its specification, and whether a write tore it
  pc,        \* where the invocation is
  cmd,       \* its command
  spec,      \* the specification it has in memory
  ids,       \* requestedDevices
  err,       \* the error handleRequest or execRunc returns
  runs,      \* invocations so far
  \* History, read by no action:
  original,  \* the specification the engine wrote
  saved,     \* what became of this invocation's save
  lastError, \* the last error this invocation passed to addErrorEnvVar
  calm,      \* the host has not changed since the invocation began
  settled    \* a calm invocation saved, and the host has not changed since

process == <<pc, cmd, spec, ids, err>>
history == <<original, saved, lastError, calm, settled>>
vars == <<cfg, host, rootfs, file, process, runs, history>>

(* Where no invocation runs: before the first one, when runc has replaced  *)
(* the process, when the process exited, and when it was killed.           *)
Resting == {"idle", "handed", "exited", "killed"}

Stages == {"start", "load", "route", "prestart", "createRuntime", "discover",
           "accelerators", "uverbs", "netinfo", "gaudinet", "save", "exec"}

TypeOK ==
  /\ cfg \in ConfigType
  /\ host \in HostType
  /\ rootfs \in RootfsType
  /\ file \in [spec : SpecType, torn : BOOLEAN]
  /\ pc \in Stages \cup Resting
  /\ cmd \in Commands
  /\ spec \in SpecType
  /\ ids \in SUBSET Num
  /\ err \in Errors \cup {NoError}
  /\ runs \in Nat
  /\ original \in SpecType
  /\ saved \in {"no", "ok", "unchanged", "torn"}
  /\ lastError \in EnvErrors \cup {NoError}
  /\ calm \in BOOLEAN
  /\ settled \in BOOLEAN

------------------------------------------------------------------------------
PresentNodes(h) == {n \in Node : h.num[n] # NoDev}

(***************************************************************************)
(* The invocation                                                          *)
(***************************************************************************)
Init ==
  /\ cfg \in Configs
  /\ host \in Hosts
  /\ rootfs \in Rootfses
  /\ original \in Specs
  /\ file = [spec |-> original, torn |-> FALSE]
  /\ pc = "idle"
  /\ cmd = "other"
  /\ spec = original
  /\ ids = {}
  /\ err = NoError
  /\ runs = 0
  /\ saved = "no"
  /\ lastError = NoError
  /\ calm = FALSE
  /\ settled = FALSE

(* The engine runs the runtime for the bundle, for the first time or       *)
(* again after an earlier invocation ended in any way.                     *)
Invoke(c) ==
  /\ pc \in Resting
  /\ runs < MaxRuns
  /\ runs' = runs + 1
  /\ pc' = "start"
  /\ cmd' = c
  /\ spec' = file.spec
  /\ ids' = {}
  /\ err' = NoError
  /\ saved' = "no"
  /\ lastError' = NoError
  /\ calm' = TRUE
  /\ UNCHANGED <<cfg, host, rootfs, file, original, settled>>

(* Steps of the process that only move on, and the end of a failed one.    *)
Goto(stage) == pc' = stage /\ UNCHANGED <<cfg, host, cmd, runs, original, calm>>

Fail(e) == err' = e

(* The configuration, the log file or the bundle's path is not found.      *)
StartFails ==
  /\ pc = "start"
  /\ Fail("start")
  /\ Goto("exited")
  /\ UNCHANGED <<rootfs, file, spec, ids, saved, lastError, settled>>

Start ==
  /\ pc = "start"
  /\ Goto(IF cmd = "create" THEN "load" ELSE "exec")
  /\ UNCHANGED <<rootfs, file, spec, ids, err, saved, lastError, settled>>

(* Mutant: what can be decoded of a torn file is used.                     *)
LoadTornSpecs ==
  /\ pc = "load"
  /\ spec' = file.spec
  /\ Goto("route")
  /\ UNCHANGED <<rootfs, file, ids, err, saved, lastError, settled>>

(* A torn config.json does not decode; the deferred save is not yet set.   *)
LoadSpecs ==
  /\ pc = "load"
  /\ IF file.torn
       THEN Fail("load") /\ Goto("exited") /\ UNCHANGED spec
       ELSE spec' = file.spec /\ Goto("route") /\ UNCHANGED err
  /\ UNCHANGED <<rootfs, file, ids, saved, lastError, settled>>

(* The specification cannot be opened although it is there.                *)
LoadFails ==
  /\ pc = "load"
  /\ Fail("load")
  /\ Goto("exited")
  /\ UNCHANGED <<rootfs, file, spec, ids, saved, lastError, settled>>

(* Mutant: the option is not looked at.                                    *)
GatedAlways(s) == s = s

Gated(s) == cfg.alwaysMount \/ IsHabanaContainer(s.env)

Route ==
  /\ pc = "route"
  /\ Goto(CASE ~Gated(spec)                           -> "save"
            [] Gated(spec) /\ cfg.mode = "legacy" -> "prestart"
            [] Gated(spec) /\ cfg.mode = "oci"    -> "createRuntime")
  /\ UNCHANGED <<rootfs, file, spec, ids, err, saved, lastError, settled>>

(* Mutant: the missing hook is reported in the environment, too.           *)
AddHookOrReport(lifecycle, next) ==
  /\ pc = lifecycle
  /\ IF host.hook
       THEN spec' = AddHook(spec, lifecycle) /\ Goto(next) /\ UNCHANGED err
       ELSE Fail("hook") /\ Goto("save") /\ spec' = AddErrorEnvVar(spec, "hook")
  /\ UNCHANGED <<rootfs, file, ids, saved, lastError, settled>>

(* addPrestartHook, the whole of legacy mode, and addCreateRuntimeHook.    *)
AddLifecycleHook(lifecycle, next) ==
  /\ pc = lifecycle
  /\ IF host.hook
       THEN spec' = AddHook(spec, lifecycle) /\ Goto(next) /\ UNCHANGED err
       ELSE Fail("hook") /\ Goto("save") /\ UNCHANGED spec
  /\ UNCHANGED <<rootfs, file, ids, saved, lastError, settled>>

AddPrestartHook == AddLifecycleHook("prestart", "save")

AddCreateRuntimeHook == AddLifecycleHook("createRuntime", "discover")

Discover ==
  /\ pc = "discover"
  /\ ids' = RequestedDevices(spec.env, PresentNodes(host))
  /\ Goto(IF ids' = {} THEN "save" ELSE "accelerators")
  /\ UNCHANGED <<rootfs, file, spec, err, saved, lastError, settled>>

(* Mutants: a specification without resources is passed over; a missing    *)
(* node is reported and the request goes on.                               *)
AddDevicesTolerantly(nodes, e, next) ==
  IF nodes \subseteq PresentNodes(host)
    THEN /\ spec' = AddNodes(spec, nodes, host.num)
         /\ Goto(next)
         /\ UNCHANGED <<err, lastError>>
    ELSE /\ spec' = AddErrorEnvVar(spec, e)
         /\ lastError' = e
         /\ Fail(e)
         /\ Goto("save")

AddDevicesThatExist(nodes, e, next) ==
  /\ spec' = IF nodes \subseteq PresentNodes(host)
               THEN AddNodes(spec, nodes, host.num)
               ELSE AddErrorEnvVar(spec, e)
  /\ Goto(next)
  /\ UNCHANGED <<err, lastError>>

(***************************************************************************)
(* addAcceleratorDevices and addUverbsDevices: every node is looked up     *)
(* before the specification is touched; one that is missing is an error    *)
(* that goes into the environment and ends the request.                    *)
(***************************************************************************)
AddDevices(nodes, e, next) ==
  IF nodes \subseteq PresentNodes(host)
    THEN /\ spec' = AddNodes(spec, nodes, host.num)
         /\ IF Panics(spec)
              THEN Fail("panic") /\ Goto("save")
              ELSE Goto(next) /\ UNCHANGED err
         /\ UNCHANGED lastError
    ELSE /\ spec' = AddErrorEnvVar(spec, e)
         /\ lastError' = e
         /\ Fail(e)
         /\ Goto("save")

AcceleratorNodes == {"accel", "ctl"} \X ids

(* Accelerators without an infiniband_verbs entry are passed over.         *)
UverbNodes == {"uverb"} \X (ids \cap host.verbs)

AddAcceleratorDevices ==
  /\ pc = "accelerators"
  /\ IF cfg.mountAccelerators
       THEN AddDevices(AcceleratorNodes, "accelerator", "uverbs")
       ELSE Goto("uverbs") /\ UNCHANGED <<spec, err, lastError>>
  /\ UNCHANGED <<rootfs, file, ids, saved, settled>>

AddUverbsDevices ==
  /\ pc = "uverbs"
  /\ IF cfg.mountUverbs
       THEN AddDevices(UverbNodes, "uverb", "netinfo")
       ELSE Goto("netinfo") /\ UNCHANGED <<spec, err, lastError>>
  /\ UNCHANGED <<rootfs, file, ids, saved, settled>>

(* Mutant: the error is only logged.                                       *)
LogOnly(e) == UNCHANGED spec /\ lastError' = e

(* An error that does not end the request.                                 *)
Report(e) == spec' = AddErrorEnvVar(spec, e) /\ lastError' = e

(***************************************************************************)
(* netinfo.Generate.  os.Mkdir makes one level only.  To make, open or     *)
(* write anything below the root file system may fail at any time: the     *)
(* directory then stays, and a file that was opened is truncated (mac is   *)
(* empty also for a file that was written in part).                        *)
(***************************************************************************)
NetinfoDir == rootfs.dir \/ rootfs.etc

NetinfoWritten(nums) ==
  /\ NetinfoDir /\ nums \subseteq host.sysfs
  /\ rootfs' = [rootfs EXCEPT !.dir = TRUE, !.mac = IF nums = {} THEN @ ELSE nums]

NetinfoFails(nums) ==
  \/ UNCHANGED rootfs
  \/ NetinfoDir /\ rootfs' = [rootfs EXCEPT !.dir = TRUE]
  \/ /\ NetinfoDir /\ nums # {} /\ nums \subseteq host.sysfs
     /\ rootfs' = [rootfs EXCEPT !.dir = TRUE, !.mac = {}]

GenerateNetinfo ==
  /\ pc = "netinfo"
  /\ \/ NetinfoWritten(ids) /\ UNCHANGED <<spec, lastError>>
     \/ NetinfoFails(ids) /\ Report("netinfo")
  /\ Goto("gaudinet")
  /\ UNCHANGED <<file, ids, err, saved, settled>>

(* netinfo.GaudinetFile: nothing is copied when the host has no file or an *)
(* empty one.  Else it fails where a source or destination cannot be       *)
(* opened, and where the copy stops after the destination was truncated    *)
(* ("empty" also when a part of it was written).                           *)
CopyGaudinet ==
  /\ pc = "gaudinet"
  /\ \/ /\ host.gaudinet \in {"absent", "empty"}
        /\ UNCHANGED <<rootfs, spec, lastError>>
     \/ /\ host.gaudinet = "file" /\ rootfs.dir
        /\ rootfs' = [rootfs EXCEPT !.gaudinet = "copied"]
        /\ UNCHANGED <<spec, lastError>>
     \/ /\ host.gaudinet \in {"file", "unreadable"}
        /\ \/ UNCHANGED rootfs
           \/ rootfs.dir /\ rootfs' = [rootfs EXCEPT !.gaudinet = "empty"]
        /\ Report("gaudinet")
  /\ Goto("save")
  /\ UNCHANGED <<file, ids, err, saved, settled>>

(***************************************************************************)
(* The deferred saveSpecs, which runs on every way out after loadSpecs and *)
(* whose own error is only logged: the file cannot be opened, or is        *)
(* written over in part, or in whole.                                      *)
(***************************************************************************)
SaveSpecs ==
  /\ pc = "save"
  /\ \/ /\ file' = [spec |-> spec, torn |-> FALSE]
        /\ saved' = "ok"
        /\ settled' = calm
     \/ /\ saved' = "unchanged"
        /\ UNCHANGED <<file, settled>>
     \/ /\ file' = [file EXCEPT !.torn = TRUE]
        /\ saved' = "torn"
        /\ UNCHANGED settled
  /\ Goto(IF err = NoError THEN "exec" ELSE "exited")
  /\ UNCHANGED <<rootfs, spec, ids, err, lastError>>

(* execRunc: the process becomes runc, or exits when there is no runc.     *)
ExecRunc ==
  /\ pc = "exec"
  /\ IF host.runc
       THEN Goto("handed") /\ UNCHANGED err
       ELSE Goto("exited") /\ Fail("runc")
  /\ UNCHANGED <<rootfs, file, spec, ids, saved, lastError, settled>>

------------------------------------------------------------------------------
(***************************************************************************)
(* The environment                                                         *)
(***************************************************************************)
(* The engine gives up on the process; a save in progress may be torn.     *)
Kill ==
  /\ pc \notin Resting
  /\ file' \in {file} \cup
               (IF pc = "save" THEN {[file EXCEPT !.torn = TRUE]} ELSE {})
  /\ Goto("killed")
  /\ UNCHANGED <<rootfs, spec, ids, err, saved, lastError, settled>>

HostChange ==
  /\ host' \in Hosts \ {host}
  /\ calm' = FALSE
  /\ settled' = FALSE
  /\ UNCHANGED <<cfg, rootfs, file, process, runs, original, saved, lastError>>

Step ==
  \/ StartFails \/ Start \/ LoadSpecs \/ LoadFails \/ Route
  \/ AddPrestartHook \/ AddCreateRuntimeHook
  \/ Discover \/ AddAcceleratorDevices \/ AddUverbsDevices
  \/ GenerateNetinfo \/ CopyGaudinet \/ SaveSpecs \/ ExecRunc

Next ==
  \/ \E c \in Commands : Invoke(c)
  \/ Step
  \/ Kill
  \/ HostChange

Spec == Init /\ [][Next]_vars

------------------------------------------------------------------------------
(***************************************************************************)
(* Properties                                                              *)
(***************************************************************************)
(* runc now runs, with the specification of the invocation that became it. *)
HandedOver == pc = "handed" /\ cmd = "create" /\ saved = "ok"

(* A container that asked for accelerators and is handed to runc without   *)
(* HABANA_RUNTIME_ERROR has everything: the hook that exposes the network, *)
(* the two nodes of every requested accelerator with a rule each, the MAC  *)
(* file for exactly these accelerators and, if the host stayed as it was,  *)
(* the copy of its gaudinet.json.  This holds whatever failed, panicked or *)
(* was killed on the way, and over the retries that found a half-prepared  *)
(* bundle (main.go:94-194).                                                *)
NoErrorMeansComplete ==
  HandedOver /\ cfg.mode = "oci" /\ ids # {} /\ file.spec.error = NoError =>
    /\ file.spec.hooks["createRuntime"] > 0
    /\ cfg.mountAccelerators => \A n \in AcceleratorNodes : Usable(file.spec, n)
    /\ rootfs.mac = ids
    /\ calm /\ host.gaudinet = "file" => rootfs.gaudinet = "copied"

(* Running the runtime again on a bundle it already prepared adds no       *)
(* second hook, no second node for a path and no second rule for a number, *)
(* also when the device numbers changed in between (the "current" maps of  *)
(* specs.go:241-302 and the loops over the existing hooks).                *)
NoDuplicates == NoDuplicatesIn(file.spec) /\ NoDuplicatesIn(spec)

(* A saved device node can be opened: its number has an allow rule, with   *)
(* the number the node was saved with, although nodes are deduplicated by  *)
(* path and rules by number, and even if uverbs or a later retry failed.   *)
(* Without linux.resources there is no list to add to (specs.go:272-302).  *)
RulesFollowNodes == RulesFollowNodesIn(file.spec)

(* What an engine writes has no duplicates, a rule for each habana node    *)
(* (docker's --device writes both) and no HABANA_RUNTIME_ERROR.            *)
ASSUME SpecsAssumption ==
  \A s \in Specs :
    NoDuplicatesIn(s) /\ RulesFollowNodesIn(s) /\ s.error = NoError

(* Isolation: a node the engine did not write is in config.json only if    *)
(* the container passed the gate of main.go:126 and its environment        *)
(* selects that accelerator, and then only together with the hook, over    *)
(* every history of hot-plug, failure and retry.                           *)
OnlyRequestedDevices ==
  \A n \in Node : AddedTo(original, file.spec, n) =>
    /\ Gated(original)
    /\ n[2] \in MayRequest(original.env)
    /\ cfg.mode = "oci"
    /\ file.spec.hooks["createRuntime"] > 0

(* A config.json torn by a failed or killed save never becomes a container *)
(* in a later invocation: that one stops when it loads the file.           *)
TornSpecNeverRuns ==
  pc = "handed" /\ cmd = "create" /\ file.torn => saved = "torn"

(* What the engine or an earlier invocation wrote stays: no save removes a *)
(* hook, a node or a rule, gives a node its new number when the driver     *)
(* comes back with another, changes the environment or the linux section,  *)
(* or clears an error that an earlier invocation recorded.                 *)
SpecOnlyGrows == [][Extends(file'.spec, file.spec)]_file

(* A retry is idempotent: once an invocation that saw a steady host has    *)
(* saved, a later one on the unchanged host saves the same specification,  *)
(* whether the first succeeded or failed.  What may be added is the error  *)
(* variable, when this invocation could not write one of the two network   *)
(* files into the root file system, and none was recorded before.          *)
FileErrors == {"netinfo", "gaudinet"}

RetryIsIdempotent ==
  [][pc = "save" /\ settled =>
       \/ file'.spec = file.spec
       \/ /\ lastError \in FileErrors
          /\ \E e \in FileErrors : file'.spec = AddErrorEnvVar(file.spec, e)]_file

------------------------------------------------------------------------------
Phase ==
  CASE pc \in {"idle", "killed"} -> pc
    [] pc = "handed"             -> "running"
    [] pc = "exited"             -> "failed"
    [] pc = "exec"               -> "saved"
    [] OTHER                     -> "working"

Command == INSTANCE CreateCommand WITH bundle <- file, phase <- Phase

(* The runtime keeps the contract of the create command.  Whatever fails   *)
(* or panics on the way, and on a bundle that an earlier invocation left   *)
(* half prepared, an invocation leaves config.json as it was, torn, or     *)
(* extended by what one mode adds for one request; and runc only runs on   *)
(* one with usable nodes, whose error is one that may be passed over       *)
(* (main.go:75-214).                                                       *)
ImplementsCreateCommand == Command!Spec

(***************************************************************************)
(* What the documentation says and the code does not do                    *)
(***************************************************************************)
(* "Variable hold the last error from the runtime flow." (README.md:178):  *)
(* HABANA_RUNTIME_ERROR in the container that runc is handed is the last   *)
(* error this invocation had for it, not an earlier one.                   *)
LastErrorReported ==
  HandedOver /\ lastError # NoError => file.spec.error = lastError
==============================================================================

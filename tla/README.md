# Habana container runtime: TLA+ models and proofs

Three programs prepare a container that uses Habana accelerators.

* **habana-container-runtime** is run by a container engine in place of runc. On
  a `create` it edits the bundle's `config.json` (hook, device nodes, cgroup
  rules, error variable), writes files into the root file system and becomes runc.
* **habana-container-hook** is run by runc, reads `config.json` again and runs
* **habana-container-cli**, which mounts the devices and opens them in the cgroup
  (legacy mode) and puts the external network interfaces into the container's
  network namespace.

Each decides from `HABANA_VISIBLE_DEVICES`, with code of its own, at a time of
its own. None holds a lock, none undoes what it did, and any of them may fail or
be killed at any step.

## Inventory

| Component | State it keeps | Operations | What makes it correct |
|---|---|---|---|
| runtime (`cmd/habana-container-runtime/main.go`, `specs.go`) | the specification in memory, `config.json`, files under `/etc/habanalabs` of the container | load, gate, add hook, discover, add nodes and rules, report an error, save, exec runc | a container that runs without `HABANA_RUNTIME_ERROR` is complete; only requested devices; retries add nothing twice; a torn file never runs |
| device selection (`discover`, and a filter in each program) | none | glob, filter by the environment, identify by the last character | the programs select the same devices |
| command line (`main.go`, `flags.go`) | none | recognise `create`, find the bundle | the directory runc uses |
| network files (`netinfo`) | `macAddrInfo.json`, `gaudinet.json` | read sysfs, generate, copy | each address below its own device; `nil` means written; a failed copy is reported |
| hook (`cmd/habana-container-runtime-hook`) | none | read configuration, state and bundle; run the CLI | a failure fails the creation |
| CLI, mounts (`cmd/habana-container-cli/main.go`) | mounts in the container | parse devices, touch, mount, remove, add rules | a running container has its devices, may open them, and no others |
| CLI, network (`netdevices.go`) | macvlan links, by interface | create, move, rename, address, route | interfaces match devices; no temporary link stays |
| cgroup: the group (`v1.go`, `v2.go`) | none | version, mount point and path from `/proc` | the path is the container's own group |
| cgroup: rules (`v1.go`, `v2.go`, `ebpf.go`) | `devices.allow`; the attached programs | write; query, generate, detach, attach | `nil` means opened as asked, and nothing else |
| cgroup: the filter (`ebpf.go`) | the generated program | prepend, verify, run | an access is decided as the last matching rule says |
| configuration (`config`, `hook_config.go`) | none | decode | the documented options take effect |

They interact through `config.json` (runtime to runc and hook), the command line
of the CLI, the exit statuses of hook and CLI, the host's devices and the
interfaces, which all containers of the host share. The behaviours that are hard to
test are listed with their lines under "hazards" in `PROJECT.json`. In short: a
host that changes between two steps; a kill or a failed write during the save, which
is made in place; the second `create` on a bundle half prepared by the first;
failures that are only recorded; panics that are recovered; a filter that is off
while it is replaced; and the competition for the passthru link of an interface.

## Modules

| Module | What it is |
|---|---|
| `DeviceSelection` | the selection code of the three programs, as operators |
| `CommandLine` | `hasCreateCommand` and `parseBundle`, beside runc's reading of the same line |
| `Request` | a container's environment, the host's devices and a command line, and what the programs make of them |
| `BundleSpec` | `config.json` and what the runtime's helpers do to it |
| `ContainerRuntime` | the runtime over a sequence of invocations for one bundle |
| `CreateCommand` | the contract of the create command, which `ContainerRuntime` implements |
| `CreatePipeline` | runtime, runc, hook and CLI together (extends `ContainerRuntime`) |
| `NetInfo` | the two network files, read by read and write by write |
| `CgroupPaths` | how the prestart hook finds the container's group |
| `CgroupDevices` | `AddDeviceRules` of both versions of cgroup |
| `DeviceRules` | what a caller of `AddDeviceRules` relies on; `CgroupDevices` and `PrestartDevices` implement it |
| `PrestartDevices` | `handlePrestart`, command by command, over `CgroupPaths` and `CgroupDevices` |
| `DeviceFilter` | the generated eBPF program, its verification and its execution |
| `...Proofs` | the theorems, one module for each argument |
| `MC...` | the small instances that TLC checks |

### The runtime

A node is `<<kind, number>>`; an environment entry is a name, whether it has an
`=`, and a value that is a word the code compares with or a list of which only
the numeric tokens matter. `LastDigit` is the code's way to identify a device.

In `ContainerRuntime` the process is `pc` (the stages of `handleRequest` and
`execRunc`), `spec` (the specification in memory), `ids` (`requestedDevices`) and
`err`; shared state is `file` (`config.json` and whether a write tore it), `rootfs`
and `host`. There is one action for each stage, with its early returns and panics:

| Action | Code |
|---|---|
| `StartFails`, `Start` | `main`, `hasCreateCommand`, `parseBundle` |
| `LoadSpecs`, `LoadFails` | `loadSpecs` |
| `Route` | the gate and the mode, `main.go:123-132` |
| `AddPrestartHook`, `AddCreateRuntimeHook` | `specs.go:69-134` |
| `Discover` | `main.go:148-156` |
| `AddAcceleratorDevices`, `AddUverbsDevices` | `specs.go:136-207`, with `addDevicesToSpec` and `addAllowList` |
| `GenerateNetinfo`, `CopyGaudinet` | `netinfo.go:55-127`, one step each, which may fail at each open or write below the root file system and leave a directory or a truncated file (`NetinfoWritten`, `NetinfoFails`) |
| `SaveSpecs` | the deferred `saveSpecs`: it works, it does not open the file, or it tears it |
| `ExecRunc` | `execRuncFunc` |
| `Invoke`, `Kill`, `HostChange` | the engine and the host |

A glob and the later look-up of each node are different steps, since the host can
change between them. Two look-ups within one action are not separated. `linux`
is `"full"`, `"bare"` (no resources) or `"absent"`: without them the pointers the
code follows are nil and `run` recovers the panic after the save has run. The
variables `original`, `saved`, `lastError`, `calm` and `settled` are history: no
action reads them.

`CreateCommand` says what an engine sees of one invocation: `config.json` before
and after, and whether runc runs. The refinement maps the stages of the code to
"working" and "saved", so that only the save and the end of an invocation are
visible. The contract ties the two files together (`Prepared`): what may be
added, for whom, what an error that is reported means, and what is left when the
invocation fails. A recorded error is never cleared; which of several it is, the
contract leaves open.

### Command lines

An argument has leading dashes, a name and perhaps an `=` with what follows it.
Its field `part` says what it is to runc: an option, the value of one, the
command or the id. `hasCreateCommand` and `parseBundle` do not look at that field,
as the code cannot; `Command` and `Bundle`, which say what runc does, do. `RuncLine`
is a line that runc accepts.

### The creation

In `CreatePipeline` runc loads `config.json`, makes the nodes and runs the
prestart hooks and then the createRuntime hooks; the hook reads the bundle; the
CLI parses its flags and the devices, mounts them in legacy mode and exposes the
interfaces. `link` says who holds the macvlan link of each interface (nobody,
another container, this one under the temporary name or under the interface's),
`inside` which nodes the container has and whether the cgroup opens them.
`HandleMounts` takes the mounts of a batch as one step that may end after any of
them. It knows of the two circumstances in which a success is none: a file of the
node's name that the host sees in the root file system (`taken`; a container with a
`/dev` of its own, `place.devfs`, leaves none there) makes the code skip the mount,
and where the path of the group is not the container's (`place.grouped`) the rules
go elsewhere. `PrestartDevices` and `CgroupPaths` have both in detail. The
deferred deletions of `exposeInterfaces` are in `Return`. They look the links up
on the host, where they are only if the container has the host's network. The
panic of `devAddrs[0]` happens in the goroutine of `netns.Do` and kills the
process, so that it skips `Return` (`crashed`). runc, the kernel's refusal of a
second passthru link and the end of a namespace are modelled from how the code
relies on them, and marked external in the map.

### The network files

`NetInfo` has a host whose PCI devices keep type and interfaces, while the driver
may give their accelerator numbers to others (`Renumber`). `Generate` reads the
type of the first device (`DeviceType`), the PCI address of each
(`DevicesPCIAddresses`) and its interfaces, by that address (`ExtPortsMACAddress`),
then truncates (`OpenNetConfig`) and writes (`WriteNetConfig`); `GaudinetFile`
stats, truncates and copies (`StatSource`, `OpenCopy`, `Copy`). Each may fail or be
killed, and `gaudinet.json` may change on the host meanwhile.

### The devices of the legacy mode

In `PrestartDevices` the hook finds the group (`Locate`), and for each node of a
batch looks its number up (`LookUp`), skips it (`SkipNode`) or makes its file
(`TouchNode`), and mounts it (`MountNode`, `MountFails`); then it calls
`AddDeviceRules` for the numbers (`AddRules`, `CallWorks`, `HandleMountsReturns`),
and does the same for the infiniband nodes. Whether the directory and the file
are there is asked on the host, where a `/dev` that is a file system of the
container's mount namespace is not seen, and `mkdir`, `touch` and `mount` run in
the namespace; hence `rootfs.tree`, as the host sees it, and `dev`.

The actions of `CgroupDevices` are the system calls: `AddDeviceRule` writes to
`devices.allow`; `FindAttachedFilters`, `GeneratePrograms`, `DetachFilter` and
`AttachFilter` are the steps of v2. `Reattach` is systemd, which puts its own
program back on a reload. A program of this module is the set of devices it
allows; that the generated code does allow what the old program and the rules
allow is the subject of `DeviceFilter`. There a program is a sequence of blocks
(the labels of the code are their order), generated by `RuleBlocks` and
`PrependDeviceFilter` and run one instruction at a time by `ExecLoad`, `ExecType`,
`ExecAccess`, `ExecNumber` and `ExecReturn` over the register R2, which holds the
device type and is a temporary too. `Verified` is the kernel's verdict: no
instruction that cannot be reached, no return of a register never set. The
verifier, runc's own filter and systemd are external.

`CgroupPaths` reads `/proc/<pid>/cgroup` and `mountinfo` line by line. A path is a
sequence of names.

### Mutants

Next to a definition, under the comment "Mutant", stands a variant of it with a
plausible bug. No action uses it. Put in the definition's place, it makes
TLC find the property it is listed with violated (`PROJECT.json`, "mutants"),
which shows that the run can see that bug.

## Runs

| Run | Configuration | What it asks |
|---|---|---|
| selection | `MCRequest` | do the programs agree on every documented request (`ProgramsAgree`); does the runtime edit the bundle that runc reads (`CommandLineAgrees`) |
| runtime | `MCContainerRuntime` | two invocations for one bundle on every host, bundle and configuration, with the driver's numbers changed between any two steps: `NoErrorMeansComplete`, `OnlyRequestedDevices`, `NoDuplicates`, `RulesFollowNodes`, `TornSpecNeverRuns`, `SpecOnlyGrows`, `RetryIsIdempotent`, `ImplementsCreateCommand` |
| pipeline | `MCPipeline` | all four programs, both modes: `InterfacesMatchDevices`, `HostNetworkKeepsNoLink`, and `LegacyHookMountsDevices` with and without a `/dev` of the container's own, its cgroup and files that are there |
| pipeline_retries | `MCPipelineRetries` | `InterfacesMatchDevices` and `NoTemporaryLinkInside` when a container is created twice, also in a pod's namespace, and `CreateSettles`: every creation ends |
| network_files | `MCNetInfo` | `AddressesBelongToTheirDevice`, `NilMeansWritten`, `EmptyOnlyWhenCutOff` over two invocations |
| filter | `MCDeviceFilter` | `FilterDecides` and `PrependedIsLoaded` for up to two calls on a filter of runc's |
| prestart_devices | `MCPrestartDevices` | `RunningHasItsDevices`, `RunningIsConfined` and `ImplementsDeviceRules` over two creations, on both versions of cgroup |

Five further runs each state what a document or a comment says and find that
the code does otherwise ("findings" in `PROJECT.json`):

| Run | Configuration | What it finds |
|---|---|---|
| requested_index | `MCRequestedIndexServed` | accelerator 11 cannot be requested |
| only_requested_interfaces | `MCOnlyRequestedInterfaces` | a request for accelerators that do not exist gets every interface |
| new_filter | `MCNewFilter` | the filter generated for a group without one is refused by the verifier |
| nested_path | `MCNestedGroup` | the path of the group is wrong where the hierarchy is mounted from below its root |
| last_error | `MCLastError` | of two errors of one invocation the container is told the first |

Seen while modelling, in the model as the code has it, and stated by no run: the option `root` of the
hook makes it pass a flag the CLI does not have; the top-level
`mount_accelerators` is not read by the hook; the error of the deferred save is
lost (`main.go:116`); "if it's not already mounted" (`main.go:376` of the CLI) takes any
file of that name, one the host sees, for the mounted device, so that a container without
a `/dev` of its own whose first creation made the file may run without the device when it is
created again; a rule for every device makes the generated filter one that
the verifier refuses (`ebpf.go:157`), and the block of a rule with a partial access
leaves the access bits where the next block expects the device type
(`ebpf.go:140`), but the CLI makes neither kind of rule.

### Bounds, and why they are enough

* `Num = {0, 1}`: two accelerators give a requested and an unrequested one, a
  failure at the second after the first, and two interfaces of which one fails. The
  selection run adds 11, the smallest number whose last digit is another's.
* `MCDev = 1..6` in the runtime: a number for each node. Two loads of the driver
  permute them, so that a number changes its node. `1..4` in `PrestartDevices`:
  three nodes, and a device the engine allows by itself.
* `MaxEnv = 2`: an entry and a second with the same name or the same prefix.
* `MaxRuns`: 2 in the runtime and the pipeline's retries, 1 in the pipeline and
  `MCLastError`. A third finds a file the first two can both have left. For the same
  reason `MaxCalls = 2` in `NetInfo` and `MaxCreations = 2` in `PrestartDevices`.
* `MaxRules = 2`, `MaxCalls = 2` in `DeviceFilter`: two rules give a newer and an
  older one and a block after a block, two calls a generated program in front of
  a generated one; runc's own filter has at most one rule below them. The rules have each
  form the generator tells apart. Where the group has no filter one call
  (`MCNewFilter`) shows it.
* Ports are 0..23, with the true table of types: the first and the last port, and
  both sides of the smaller entry.
* systemd puts a program back once in the life of a container: a guard of
  `Reattach` itself, in the proofs too. A second time finds a program of its own to
  replace.
* `Settings` in the pipeline: every configuration of the hook with every state of the
  interfaces, in the usual place (a `/dev` of the container's own, its cgroup found,
  no file of a node); and, without interfaces, each place that lacks one of the two,
  with an image that has a file of one accelerator and one that has none. Files that an
  earlier creation left are among those the image may have. The retries of the pipeline,
  whose question is about links, have the usual place only.
* Command lines: none or two options before the command; after it a pid-file and a
  bundle option, one, both in either order or none, the latter with one dash or two,
  with the value in the same word or the next. Ids and values may read like the
  command or the flag, which is what the two programs could take differently.
* Hosts of the runtime: healthy, reloaded (other numbers, no infiniband), one that has
  one accelerator left, without its uverb node and its sysfs entries, and one without
  driver and binaries. It may change from any to any other between two steps, so
  that each node can be found and be gone when it is looked up. Those of the
  pipeline are whole, or have lost an accelerator or the driver.
* Interfaces: up without and with a gateway route, down, and up with a route
  and no address.
* `/proc`: a unified host, a hybrid one, a group below the root of the mount, a
  mount from outside, a malformed line.

Every run checks for deadlock except pipeline_retries and the two of
`DeviceFilter`. In the first, when the invocations are used up and links that
nobody will remove hold every interface, nothing is left to happen; in the
others, nothing is when the calls are used up and the access is decided, or when
a program was refused.

### Fairness

`CreateSettles` assumes weak fairness of `RuntimeStep`, `RuncStep` and
`ToolWorks`: a process that can go on is scheduled. Nothing is assumed of the engine,
the host or the other containers. No failure is forced either: `ToolFails`,
`ToolKilled` and `CLIFailsInNamespace` are left out, so that a program which waits for
something does not count as ending because it might fail. `CLIWaitsForLink`, the
mutant that waits for a busy interface, violates the property for that reason.

## Proofs

The theorems hold for all values of the constants: any number of accelerators,
devices, hosts, bundles, configurations, rules, invocations and creations. What
they assume of the constants is in the named `ASSUME` of each module (domains
have their types; `Num` is closed under `LastDigit`; no number is also
"none"; what an engine writes has no duplicates and a rule for each habana node), and TLC
evaluates it in every run of the module.

**`ContainerRuntimeProofs`.** `TypeCorrect`; `NoDuplicatesInvariant`;
`RulesFollowNodesInvariant`; `SpecGrows` (of an error, that it is not cleared);
`TornNeverRuns`. The second to the fourth rest
on `SpecChanges`: every step leaves `spec` alone, takes it from `file`, or changes it
by one of `AddHook`, `AddErrorEnvVar` and `AddNodes`. The invariants must speak of
both `file.spec` and `spec`, since the save copies one and the load the other:
`RulesFollowNodes` alone, of the file, is not inductive (`RulesInv`). That nodes
are looked up by path and rules by number is why the third theorem is not evident:
`AddNodesRulesFollow` shows that a path that is skipped keeps a rule it already
had. `TornInv` adds that the file is whole from the load to the save.

**`CreateCommandProofs`.** `RuntimeImplements`: `Spec => ImplementsCreateCommand`.
`StageInv` says for each stage how `spec` stands to `file.spec`, up to the save,
where the stage must have established what the contract demands: `Saves` if there
was no error and `Fails` if there was. `OnlyRequestedInvariant` then follows from the
contract alone, by induction over the saves (`OnlySaveWrites`).

**`CompletenessProofs`.** `CompleteWhenHandedOver`: `NoErrorMeansComplete`. The
property speaks of the end of an invocation, so that `CompleteInv` has to say what
each stage has done: nodes from `GenerateNetinfo` on, `macAddrInfo.json` from
`CopyGaudinet` on, everything at the save. `UsableStays` shows that no later stage
takes it away. `RetriesAddNothing`: `RetryIsIdempotent`. `NothingToDo` says that a
request would add no hook, node or rule to a specification on the present host: each
node it would add is included, and where a request would stop, the error it would
report is recorded. `CalmStages` states how much of that the stages of an invocation
on a steady host have established, with all of it at the save, and `SettledBundle`
that a bundle such an invocation saved keeps it until the host changes, so that each
stage of a later one leaves `spec` equal to `file.spec` up to the network files.
Their writes may fail in any invocation; then `Retried` says what the save may hold
besides: the error variable, if the file had none, of one of the two
files, in an invocation that met such an error.

**`NetInfoProofs`.** `NetTypeCorrect`, `AddressesBelong`, `NilIsWritten`, `EmptyWhenCutOff`. `NetInv`
adds to the properties what was read before what (`ReadInOrder`), that the ports
belong to the address they were read by (`PortsOfTheirAddress`) and that on a
steady host they are those of the devices (`FreshWhileSteady`). `PortListOf`
computes the list of a device for any entry of the table.

**`PipelineProofs`.** Six theorems about the whole creation. `PipelineTypes`
(`PipelineTypeOK`) comes first; that the number of hooks still to run never falls
below zero needs `Counted`.
`NoTemporaryLink` (`NoTemporaryLinkInside`) and
`HostLinksAreDeleted` (`HostNetworkKeepsNoLink`). `LinkInv` says whose a temporary
link is while the CLI works: in a namespace of its own it is that of the interface at
hand, or of a creation that failed; on the host's network it is one the CLI made and
has yet to delete, unless it was killed.

`PipelineImplements` (`ImplementsCreateCommand`): the steps of runc, hook and CLI
leave what the contract speaks of alone, and the steps of the runtime are those of
`ContainerRuntime`, so that its invariants `RulesInv` and `StageInv` carry over
(`HandOverInv`). The same invariant says how the bundle reaches the hook: what was
saved without an error has the habana hook (`HookInv`), and its environment is still
that of the engine's bundle (`EnvInv`; the variable for errors is a field of its own).

`LegacyDevicesMounted` (`LegacyHookMountsDevices`) and `InterfacesOfDevices`
(`InterfacesMatchDevices`) tie the ends of the chain together: what the container
has at the end against what the engine's environment asked for at the start. Both
are about a creation on a host that stays as it is, with a request as documented
and single-digit devices (`Steadily`). `SteadyLife` shows that a steady end had a
steady life, so that the invariants only have to hold under that condition, and
`SelectionInv` that the CLI works on the nodes of `Chosen`, which
`SameNodesChosen` proves to be those the runtime selects, although they search
the environment from different ends. `MountInv` says which nodes are open once the
mounts are behind the hook; for a node that was skipped it is open because runc made
it, or the property does not speak of it. `LegacyDevicesMounted` is about a container
with a `/dev` of its own, whose group was found and whose node's path was free, since
without any of the three the hook may succeed and the device be missing (see
"Seen while modelling" and the run nested_path). `InterfaceInv` says which interfaces are named at each point
of the CLI's loop; between the CLI's start and its return a part of them may be,
at a hook's end all or none are (`ServedAt`), since a CLI that fails ends the
creation; and a creation begins with no link of the container (`NoneLeft`).

**`RequestProofs`.** `DocumentedRequestsAgree` (`ProgramsAgree`) and `LinesAgree`
(`CommandLineAgrees`). The state machine only picks the inputs (`Given`); the substance
is in `Agreement`, where the filter of the runtime and the parsers of hook and CLI
are computed on a documented environment, and in `PartsOfLine`, by which an argument of a
line runc accepts has dashes, or is the command, or is another word. From that a
"create" that is no other word is the command, and a flag that is no other word an
option, of which there is one.

**`PrestartDevicesProofs`.** `AddDeviceRulesRefines`: `CgroupSpec =>
ImplementsDeviceRules`. The difficulty is v2, where the filter is off for a while
and systemd interferes: `ReplaceInv` says that for each new program that was
attached something still stands that allows no more than it, and `QueryInv` and
`FoundInv` that what was found is what the call began with, or narrower. `BaseInside`
is what makes systemd's interference narrow the group.

`PrestartRefines`: the prestart hook uses
`AddDeviceRules` as `DeviceRules` lets it (each step is a step of `CgroupNext` or
leaves the group alone), so that the promise holds through the creation.
`ConfinedWhenRunning`: `RunningIsConfined`, since a call that failed is never
followed by a start (`GroupIsConfined`, which excludes the failed stages, where
anything may be open). `EquippedWhenRunning`: `RunningHasItsDevices`. `EquipInv`
says, for a hook on a steady host, what is done for the batch at hand (`BatchDone`:
what is not to do is mounted and among the numbers for the rules), for the batch
before it (`EarlierDone`, which has to outlive a second call that replaces the
filter), and what a call that returned nil opened (`CallOpened`). The type of the
model (`PrestartTypeCorrect`) is proved with it.

**`DeviceFilterProofs`.** `FilterDecidesAsRules` and `OnlyWildcardRefused`. A
program *represents* the rules of all calls if `k[b]`, the number of oldest rules
that the code from block `b` on stands for, goes down by one at each block of a
rule and is zero at the final denial (`Represents`). `Prepended` shows that what
`PrependDeviceFilter` makes of a program that represents some rules represents
those and the new ones. During a run (`SoFar`) no rule passed by matches the
access, the tests so far hold, and R2 holds the device type unless the block at hand has
tested the access. That the next block finds R2 as it should is `RegisterReloaded`:
after a block with a partial access comes a load or the denial, which is true as
long as such a rule is the oldest of its call (`partial`); the CLI's rules all
have the full access. The type of the model (`FilterTypeCorrect`) is proved
with it.

### What is only model-checked

Every invariant, action property and refinement that a passing run checks is
stated by a theorem, except `CreateSettles`: it is a liveness property, and fairness
and ENABLED are beyond the prover. So is what a recursive definition computes for
every input, since the induction theorems of the library take an operator. The
modules have no recursive operator; where a proof needs a least or greatest
number, it takes it from a singleton or from the well-foundedness of the naturals (`MinOf`, `MaxOf`).
What the runs that expect a violation find is a counterexample, and needs no proof.

## Not modelled

* Logging and the wording of errors; the fields of the specification that no
  program reads; decoding of JSON and TOML; the search for the binaries, which is
  a failure that may happen.
* The exit status of the runtime, which is 0 after an error (`main.go:70`): no
  document says what it is.
* `isPrivileged`'s comparison of OCI versions: its result is an input.
* Characters of a path: `strings.TrimPrefix` may cut a name in two, here it takes
  whole names.
* Trailing bytes left when a shorter `config.json` is written over a longer
  one are not a tear: the decoders stop after the first value.
* The retries of the query of attached programs when their number grows
  meanwhile: the query is one step that works or fails.
* `AcceleratorModuleID`, which no code calls, and `SetLogger`, which sets a field.
* An entry of the engine's list that has the number of a device and is not an
  allow rule with full access: `addAllowList` counts any entry with a major and a minor
  as the device's (`specs.go:277-281`), here only allow rules are.
* The conversion of device numbers to `int32` (`ebpf.go:148,154`), which the kernel's
  numbers fit, and the errors of `appendDevice` for a device type or an access that is
  none (`ebpf.go:83-109`, `120-122`), which no caller passes.
* Build files, packages and vendored code.

## Left to do

1. Several containers of the model in place of the neighbour that holds links,
   with pods that outlive them.
2. `PrestartDevices` in place of the step `HandleMounts` of `CreatePipeline`, by a
   refinement of the one by the other.
3. The order in which runc reads repeated bundle options: here a line has one at
   most, as the engines write it.

-------------------------------- MODULE Request --------------------------------
(***************************************************************************)
(* What the programs make of their input: a container's environment, the   *)
(* devices of the host and the command line of runtime and runc.  The      *)
(* machine's only steps are the host's: a device appears or goes away      *)
(* while the environment stays.                                            *)
(***************************************************************************)
EXTENDS DeviceSelection, CommandLine

CONSTANTS Num,      \* accelerator numbers a host may have
          Envs,     \* environments of containers
          Lines     \* command lines that runc accepts

EntryType ==
  [name : STRING, eq : BOOLEAN, val : [word : Words, nums : SUBSET Nat, junk : BOOLEAN]]

ASSUME RequestAssumption ==
  /\ Num \subseteq Nat
  /\ \A e \in Envs : e \in Seq(EntryType)
  /\ Lines # {} /\ \A l \in Lines : l \in Seq(Arguments) /\ RuncLine(l)

VARIABLES env,      \* the container's environment
          present,  \* the accelerators the host has now
          line      \* the command line of runtime and runc

vars == <<env, present, line>>

Nodes(nums) == {"accel", "ctl"} \X nums

OneLine == CHOOSE l \in Lines : TRUE

(* No program reads the command line for devices or the environment for    *)
(* the command: the lines come beside the environments, not with each.     *)
Init ==
  \/ env \in Envs /\ present \in SUBSET Num /\ line = OneLine
  \/ env = <<>> /\ present = {} /\ line \in Lines

Appear(n) ==
  n \notin present /\ present' = present \cup {n} /\ UNCHANGED <<env, line>>

Disappear(n) ==
  n \in present /\ present' = present \ {n} /\ UNCHANGED <<env, line>>

Next == \E n \in Num : Appear(n) \/ Disappear(n)

Spec == Init /\ [][Next]_vars

------------------------------------------------------------------------------
(* The environments the README describes: exactly one entry for the        *)
(* variable, whose value is "all" or a list of indices, in any position.   *)
Only(i) == EntriesOf(env, VisiblePrefixed) = {i} /\ env[i].name = VisibleDevices

Documented ==
  \E i \in DOMAIN env : Only(i) /\ env[i].eq /\ DeviceFlagValid(env[i].val)

Wanted ==
  LET val == env[Min(EntriesOf(env, VisiblePrefixed))].val
  IN  IF val.word = "all" THEN Num ELSE val.nums

CLIAccelerators == ParseDevices(GetDevicesFromEnvvar(env), Nodes(present))

(* On a host whose devices all have one digit, a documented request means  *)
(* the same accelerators to every program, although each parses it with    *)
(* code of its own: the runtime writes the nodes (specs.go:209-239), the   *)
(* CLI mounts in legacy mode (cli main.go:290-326) and moves the network   *)
(* interfaces (netdevices.go:201-216) of exactly the requested ones that   *)
(* the host has.                                                           *)
ProgramsAgree ==
  Documented /\ (\A n \in present : n < 10) =>
    LET served == Wanted \cap present
    IN  /\ RequestedDevices(env, Nodes(present)) = served
        /\ DevicesIDs(CLIAccelerators) = served
        /\ served # {} =>
             ExposedHlibs(DevicesIDs(CLIAccelerators), present) = served

(* The runtime edits the config.json that runc will read (flags.go), and   *)
(* takes for a create what runc takes for one (main.go:216-226), however   *)
(* the options are written, as long as no id and no value of an option     *)
(* that stands alone is spelled like the command or like the flag.         *)
CommandLineAgrees ==
  /\ "create" \notin OtherWords(line) =>
       (hasCreateCommand(line) <=> Command(line) = "create")
  /\ Command(line) = "create" /\ OtherWords(line) \cap {"b", "bundle"} = {} =>
       parseBundle(line) = Bundle(line)

------------------------------------------------------------------------------
(* What the README says of HABANA_VISIBLE_DEVICES: "a comma-separated list *)
(* of index(es)".  A requested accelerator that exists is served by the    *)
(* runtime, which compares each token with the last character of a path.   *)
RequestedIndexServed ==
  Documented => \A n \in Wanted \cap present :
             <<"accel", n>> \in FilterDevicesByENV(env, Nodes(present))

(* What the comment in exposeInterfaces says: "Filter network devices      *)
(* based on requested accelerators."  A container that requests only       *)
(* accelerators the host does not have is given no interface.              *)
OnlyRequestedInterfaces ==
  Documented /\ Wanted \cap present = {} =>
    ExposedHlibs(DevicesIDs(CLIAccelerators), present) = {}
==============================================================================

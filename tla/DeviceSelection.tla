--------------------------- MODULE DeviceSelection ---------------------------
(***************************************************************************)
(* How a container's environment selects accelerators.  Three programs     *)
(* read the same variable, HABANA_VISIBLE_DEVICES, each in its own way:    *)
(* the runtime (filterDevicesByENV and discover.DevicesIDs), the hook      *)
(* (getEnvMap, getDevicesFromEnvvar, getDevices) and the CLI (the --device *)
(* flag, parseDevices and the filter of the network interfaces).           *)
(*                                                                         *)
(* A device node is a pair <<kind, number>>: <<"accel", 3>> stands for     *)
(* /dev/accel/accel3, <<"ctl", 3>> for /dev/accel/accel_controlD3 and      *)
(* <<"uverb", 3>> for the infiniband node attached to accelerator 3.  The  *)
(* order of a glob's result is left out: no selection depends on it.       *)
(***************************************************************************)
EXTENDS Naturals, Sequences, FiniteSetsExt

(***************************************************************************)
(* The environment is a sequence of entries.  An entry has a name, tells   *)
(* whether it contains "=", and has a value: one of the words the code     *)
(* compares with, or a comma-separated list of which only the decimal      *)
(* tokens matter (nums) and whether some token is not a number (junk).     *)
(***************************************************************************)
VisibleDevices == "HABANA_VISIBLE_DEVICES"

(* The names strings.HasPrefix(entry, "HABANA_VISIBLE_DEVICES") accepts.   *)
VisiblePrefixed == {VisibleDevices, "HABANA_VISIBLE_DEVICES_OTHER"}

Words == {"all", "none", "void", "empty", "list"}

Word(w) == [word |-> w, nums |-> {}, junk |-> FALSE]
List(nums, junk) == [word |-> "list", nums |-> nums, junk |-> junk]

Entry(name, value) == [name |-> name, eq |-> TRUE, val |-> value]
Malformed(name) == [name |-> name, eq |-> FALSE, val |-> Word("empty")]

(* Where an environment has entries of these names.                        *)
EntriesOf(env, names) == {i \in DOMAIN env : env[i].name \in names}

(***************************************************************************)
(* discover                                                                *)
(***************************************************************************)
(* The code identifies a device by the last character of its path.         *)
LastDigit(n) == n % 10

DevicesIDs(devs) == {LastDigit(d[2]) : d \in devs}

(* The glob /dev/accel/accel* matches both kinds of accelerator nodes.     *)
AcceleratorDevices(devs) == {d \in devs : d[1] \in {"accel", "ctl"}}

(* The glob of the CLI ends in [0-9]: one digit, right after the prefix.   *)
CharDevices(devs) == {d \in AcceleratorDevices(devs) : d[2] < 10}

(***************************************************************************)
(* The runtime                                                             *)
(***************************************************************************)
IsHabanaContainer(env) == \E i \in DOMAIN env : env[i].name \in VisiblePrefixed

(* The tokens of a value that can equal a last digit.                      *)
Tokens(val) == IF val.word = "list" THEN val.nums ELSE {}

(* Mutants: "all" is taken for a list; every device when none matches.     *)
FilterByListOnly(env, devs) ==
  LET visible == EntriesOf(env, VisiblePrefixed)
  IN  IF visible = {} THEN devs
        ELSE {d \in devs : LastDigit(d[2]) \in Tokens(env[Min(visible)].val)}

FilterOrAll(env, devs) ==
  LET visible == EntriesOf(env, VisiblePrefixed)
      first   == env[Min(visible)]
      chosen  == {d \in devs : LastDigit(d[2]) \in Tokens(first.val)}
  IN  IF visible = {} \/ ~first.eq \/ chosen = {} THEN devs ELSE chosen

(* Only the first entry with the prefix counts; without "=", and without   *)
(* any such entry, every device is selected.                               *)
FilterDevicesByENV(env, devs) ==
  LET visible == EntriesOf(env, VisiblePrefixed)
      first   == env[Min(visible)]
  IN  IF visible = {} \/ ~first.eq \/ first.val.word = "all"
        THEN devs
        ELSE {d \in devs : LastDigit(d[2]) \in Tokens(first.val)}

(* The devices handleRequest asks for.                                     *)
RequestedDevices(env, devs) ==
  DevicesIDs(FilterDevicesByENV(env, AcceleratorDevices(devs)))

(***************************************************************************)
(* The hook                                                                *)
(***************************************************************************)
(* getEnvMap splits every entry and panics on one without "=".             *)
GetEnvMapPanics(env) == \E i \in DOMAIN env : ~env[i].eq

(* Mutant: the nil that the comments in the code speak of.                 *)
GetDevicesOrNil(env) ==
  LET exact == EntriesOf(env, {VisibleDevices})
  IN  IF exact = {} THEN [word |-> "nil", nums |-> {}, junk |-> FALSE]
      ELSE env[Max(exact)].val

(* The map keeps the last entry of a name; "none" becomes the empty string *)
(* and unset, empty and "void" all become "all".                           *)
GetDevicesFromEnvvar(env) ==
  LET exact == EntriesOf(env, {VisibleDevices})
      last  == env[Max(exact)].val
  IN  IF exact = {} \/ last.word \in {"empty", "void"}
        THEN Word("all")
        ELSE IF last.word = "none" THEN Word("empty") ELSE last

(* getDevices panics when the environment of an unprivileged container is  *)
(* not accepted; it cannot return nil, so neither can getHabanaConfig.     *)
GetDevicesPanics(privileged, acceptUnprivileged) ==
  ~privileged /\ ~acceptUnprivileged

(* doHook passes --device only for a value that is not empty.              *)
DeviceFlagSet(val) == val.word # "empty"

(***************************************************************************)
(* The CLI                                                                 *)
(***************************************************************************)
(* The flag's Action: "all", or tokens that are all numbers.               *)
DeviceFlagValid(val) == val.word = "all" \/ (val.word = "list" /\ ~val.junk)

ParseDevices(val, devs) ==
  IF val.word = "all"
    THEN CharDevices(devs)
    ELSE {d \in CharDevices(devs) : d[2] \in Tokens(val)}

(* exposeInterfaces keeps the hlib devices of the requested ids, and keeps *)
(* them all when no id is requested.                                       *)
ExposedHlibs(ids, hlibs) ==
  IF ids = {} THEN hlibs ELSE {h \in hlibs : LastDigit(h) \in ids}
==============================================================================

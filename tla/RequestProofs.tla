----------------------------- MODULE RequestProofs -----------------------------
(***************************************************************************)
(* The programs agree on every documented request, and the runtime reads   *)
(* the command and the bundle as runc does, for every environment, host    *)
(* and command line.                                                       *)
(***************************************************************************)
EXTENDS Request, TLAPS

LEMMA Extremes == ASSUME NEW i \in Nat PROVE Min({i}) = i /\ Max({i}) = i
BY DEF Min, Max

(* What the host and the caller give: the state never leaves it.           *)
Given ==
  /\ env = <<>> \/ env \in Envs
  /\ present \subseteq Num
  /\ line \in Lines

LEMMA AlwaysGiven == Spec => []Given
<1>1. Init => Given
  BY RequestAssumption DEF Init, Given, OneLine
<1>2. Given /\ [Next]_vars => Given'
  BY DEF Given, Next, Appear, Disappear, vars
<1>. QED BY <1>1, <1>2, PTL DEF Spec

------------------------------------------------------------------------------
(***************************************************************************)
(* Devices                                                                 *)
(***************************************************************************)
LEMMA SmallNumbers ==
  ASSUME NEW nums \in SUBSET Nat, \A n \in nums : n < 10
  PROVE  /\ \A n \in nums : LastDigit(n) = n
         /\ CharDevices(Nodes(nums)) = Nodes(nums)
         /\ AcceleratorDevices(Nodes(nums)) = Nodes(nums)
<1>1. \A n \in Nat : n < 10 => n % 10 = n
  OBVIOUS
<1>. QED BY <1>1 DEF LastDigit, CharDevices, AcceleratorDevices, Nodes

LEMMA NumbersOf ==
  ASSUME NEW nums \in SUBSET Nat, \A n \in nums : LastDigit(n) = n, NEW P,
         NEW devs, devs = {d \in Nodes(nums) : d[2] \in P}
  PROVE  DevicesIDs(devs) = P \cap nums
<1>1. ASSUME NEW n \in P \cap nums PROVE n \in DevicesIDs(devs)
  <2>1. <<"accel", n>> \in devs
    BY <1>1 DEF Nodes
  <2>2. LastDigit(<<"accel", n>>[2]) = n
    BY <1>1
  <2>. QED BY <2>1, <2>2 DEF DevicesIDs
<1>2. ASSUME NEW n \in DevicesIDs(devs) PROVE n \in P \cap nums
  BY <1>2 DEF DevicesIDs, Nodes
<1>. QED BY <1>1, <1>2

LEMMA Agreement ==
  ASSUME Given, Documented, \A n \in present : n < 10
  PROVE  /\ RequestedDevices(env, Nodes(present)) = Wanted \cap present
         /\ DevicesIDs(CLIAccelerators) = Wanted \cap present
<1>1. PICK i \in DOMAIN env : /\ Only(i) /\ env[i].eq
                              /\ DeviceFlagValid(env[i].val)
  BY DEF Documented
<1>2. i \in Nat
  BY RequestAssumption DEF Given
<1>3. /\ EntriesOf(env, VisiblePrefixed) = {i}
      /\ EntriesOf(env, {VisibleDevices}) = {i}
  BY <1>1 DEF Only, EntriesOf, VisiblePrefixed
<1>4. Min({i}) = i /\ Max({i}) = i
  BY <1>2, Extremes
<1> DEFINE val == env[i].val
           chosen == {d \in Nodes(present) : d[2] \in Wanted}
<1>5. val.word = "all" \/ val.word = "list"
  BY <1>1 DEF DeviceFlagValid
<1>6. Wanted = IF val.word = "all" THEN Num ELSE val.nums
  BY <1>3, <1>4 DEF Wanted
<1>7. present \in SUBSET Nat /\ present \subseteq Num
  BY RequestAssumption DEF Given
<1>8. /\ \A n \in present : LastDigit(n) = n
      /\ CharDevices(Nodes(present)) = Nodes(present)
      /\ AcceleratorDevices(Nodes(present)) = Nodes(present)
  BY <1>7, SmallNumbers
<1>9. \A d \in Nodes(present) : d[2] \in present
  BY DEF Nodes
<1>10. val.word = "all" => chosen = Nodes(present)
  BY <1>6, <1>7, <1>9
<1>11. FilterDevicesByENV(env, Nodes(present)) = chosen
  <2>1. CASE val.word = "all"
    BY <1>3, <1>4, <1>10, <2>1 DEF FilterDevicesByENV
  <2>2. CASE val.word = "list"
    <3>1. Tokens(val) = Wanted
      BY <1>6, <2>2 DEF Tokens
    <3>2. FilterDevicesByENV(env, Nodes(present))
            = {d \in Nodes(present) : LastDigit(d[2]) \in Tokens(val)}
      BY <1>1, <1>3, <1>4, <2>2 DEF FilterDevicesByENV
    <3>. QED BY <1>8, <1>9, <3>1, <3>2
  <2>. QED BY <1>5, <2>1, <2>2
<1>12. CLIAccelerators = chosen
  <2>1. GetDevicesFromEnvvar(env) = val
    BY <1>3, <1>4, <1>5 DEF GetDevicesFromEnvvar
  <2>2. CASE val.word = "all"
    BY <1>8, <1>10, <2>1, <2>2 DEF CLIAccelerators, ParseDevices
  <2>3. CASE val.word = "list"
    BY <1>6, <1>8, <2>1, <2>3 DEF CLIAccelerators, ParseDevices, Tokens
  <2>. QED BY <1>5, <2>2, <2>3
<1>13. DevicesIDs(chosen) = Wanted \cap present
  BY <1>7, <1>8, NumbersOf
<1>. QED BY <1>8, <1>11, <1>12, <1>13 DEF RequestedDevices

(* On a host with single-digit devices a documented request selects the    *)
(* same accelerators in the runtime, the CLI's mounts and the CLI's        *)
(* interfaces, for any environment and any devices.                        *)
THEOREM DocumentedRequestsAgree == Spec => []ProgramsAgree
<1>1. ASSUME Given PROVE ProgramsAgree
  <2> SUFFICES ASSUME Documented, \A n \in present : n < 10
               PROVE  LET served == Wanted \cap present
                      IN  /\ RequestedDevices(env, Nodes(present)) = served
                          /\ DevicesIDs(CLIAccelerators) = served
                          /\ served # {} =>
                               ExposedHlibs(DevicesIDs(CLIAccelerators), present)
                                 = served
    BY DEF ProgramsAgree
  <2>1. /\ RequestedDevices(env, Nodes(present)) = Wanted \cap present
        /\ DevicesIDs(CLIAccelerators) = Wanted \cap present
    BY <1>1, Agreement
  <2>2. \A n \in present : LastDigit(n) = n
    BY <1>1, RequestAssumption, SmallNumbers DEF Given
  <2>3. Wanted \cap present # {} =>
          ExposedHlibs(Wanted \cap present, present) = Wanted \cap present
    BY <2>2 DEF ExposedHlibs
  <2>. QED BY <2>1, <2>3
<1>. QED BY <1>1, AlwaysGiven, PTL

------------------------------------------------------------------------------
(***************************************************************************)
(* Command lines                                                           *)
(***************************************************************************)
(* The command, the words and the options partition the arguments.         *)
LEMMA PartsOfLine ==
  ASSUME NEW args \in Seq(Arguments), RuncLine(args)
  PROVE  /\ \E c \in Parts(args, "command") : Command(args) = args[c].name
         /\ \A i \in DOMAIN args :
              \/ args[i].dashes > 0
              \/ ~args[i].eq /\ args[i].dashes = 0 /\ args[i].name = Command(args)
              \/ args[i].dashes = 0 /\ args[i].name \in OtherWords(args)
<1>1. PICK c \in DOMAIN args : Parts(args, "command") = {c}
  BY DEF RuncLine
<1>2. (CHOOSE o \in DOMAIN args : args[o].part = "command") = c
  BY <1>1 DEF Parts
<1>3. Command(args) = args[c].name
  BY <1>2 DEF Command
<1>4. ASSUME NEW i \in DOMAIN args, ~(args[i].dashes > 0)
      PROVE  \/ ~args[i].eq /\ args[i].dashes = 0 /\ args[i].name = Command(args)
             \/ args[i].dashes = 0 /\ args[i].name \in OtherWords(args)
  <2>1. args[i] \in Arguments
    OBVIOUS
  <2>2. args[i].dashes = 0
    BY <1>4, <2>1 DEF Arguments
  <2>3. args[i].part # "option" /\ ~args[i].eq
    BY <1>4 DEF RuncLine, Parts
  <2>4. CASE args[i].part = "command"
    BY <1>1, <1>3, <2>2, <2>3, <2>4 DEF Parts
  <2>5. CASE args[i].part \in {"value", "id"}
    BY <2>2, <2>5 DEF OtherWords, Parts
  <2>. QED BY <2>1, <2>3, <2>4, <2>5 DEF Arguments
<1>. QED BY <1>1, <1>3, <1>4

LEMMA CreateAgrees ==
  ASSUME NEW args \in Seq(Arguments), RuncLine(args), "create" \notin OtherWords(args)
  PROVE  hasCreateCommand(args) <=> Command(args) = "create"
<1>1. ASSUME Command(args) = "create" PROVE hasCreateCommand(args)
  <2>1. PICK c \in Parts(args, "command") : Command(args) = args[c].name
    BY PartsOfLine
  <2>2. /\ c \in DOMAIN args /\ args[c] \in Arguments
        /\ c \notin Parts(args, "option")
    BY <2>1 DEF Parts
  <2>3. args[c].dashes = 0 /\ ~args[c].eq
    BY <2>2 DEF RuncLine, Arguments
  <2>. QED BY <1>1, <2>1, <2>2, <2>3 DEF hasCreateCommand
<1>2. ASSUME hasCreateCommand(args) PROVE Command(args) = "create"
  BY <1>2, PartsOfLine DEF hasCreateCommand
<1>. QED BY <1>1, <1>2

LEMMA BundleAgrees ==
  ASSUME NEW args \in Seq(Arguments), RuncLine(args), Command(args) = "create",
         OtherWords(args) \cap {"b", "bundle"} = {}
  PROVE  parseBundle(args) = Bundle(args)
<1> DEFINE flags == {i \in DOMAIN args : isBundleFlag(args[i])}
<1>1. flags = BundleOptions(args)
  <2>1. ASSUME NEW i \in flags PROVE args[i].dashes > 0
    BY <2>1, PartsOfLine DEF isBundleFlag
  <2>. QED BY <2>1 DEF RuncLine, BundleOptions, Parts, isBundleFlag
<1>2. CASE flags = {}
  BY <1>1, <1>2 DEF parseBundle, Bundle
<1>3. ASSUME NEW i \in flags PROVE parseBundle(args) = Bundle(args)
  <2>1. flags = {i} /\ i \in Nat
    BY <1>1, <1>3 DEF RuncLine
  <2>2. Min(flags) = i
    BY <2>1, Extremes
  <2>3. (CHOOSE o \in BundleOptions(args) : TRUE) = i
    BY <1>1, <2>1
  <2>4. ~args[i].eq => i # Len(args)
    BY <1>1, <1>3 DEF RuncLine, Parts
  <2>. QED BY <1>1, <2>1, <2>2, <2>3, <2>4 DEF parseBundle, Bundle
<1>. QED BY <1>2, <1>3

(* The runtime takes for a create what runc takes for one and edits the    *)
(* config.json in the directory runc reads, for any line that runc         *)
(* accepts, unless a value or an id is spelled like the command or the     *)
(* flag.                                                                   *)
THEOREM LinesAgree == Spec => []CommandLineAgrees
<1>1. ASSUME Given PROVE CommandLineAgrees
  <2>1. line \in Seq(Arguments) /\ RuncLine(line)
    BY <1>1, RequestAssumption DEF Given
  <2>. QED BY <2>1, CreateAgrees, BundleAgrees DEF CommandLineAgrees
<1>. QED BY <1>1, AlwaysGiven, PTL
==============================================================================

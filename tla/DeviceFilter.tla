----------------------------- MODULE DeviceFilter ------------------------------
(***************************************************************************)
(* The eBPF device filter of a cgroup (cgroup v2).  AddDeviceRules puts    *)
(* code generated from its rules (PrependDeviceFilter) in front of the     *)
(* program that is attached, and loads the result.  The module generates   *)
(* the program, lets the kernel's verifier accept or refuse it, and runs   *)
(* it one instruction at a time on one access to a device.                 *)
(*                                                                         *)
(* A program is a sequence of blocks of instructions.  Every jump of the   *)
(* generated code goes to the start of the next block, so a jump has no    *)
(* target here.  A register holds a set of bits: as in the kernel, the     *)
(* numbers of block and char are those of mknod and read.                  *)
(***************************************************************************)
EXTENDS Integers, SequencesExt

CONSTANTS
  Rules,      \* the rules a caller may pass
  Requests,   \* the accesses a container may try
  MaxRules,   \* bound on the rules of one call
  MaxCalls    \* bound on the calls of AddDeviceRules

Bits == {"bit0", "bit1", "bit2"}

BPFType(t) == IF t = "b" THEN {"bit0"} ELSE {"bit1"}

AccessBit == [m |-> "bit0", r |-> "bit1", w |-> "bit2"]
FullAccess == {"r", "w", "m"}
BPFAccess(letters) == {AccessBit[a] : a \in letters}

AnyNumber == -1    \* the major or minor of a rule that has none

(* specs.LinuxDeviceCgroup, and what the kernel tells of an access.        *)
RuleType == [allow : BOOLEAN, type : {"a", "b", "c"}, access : SUBSET FullAccess,
             major : Nat \cup {AnyNumber}, minor : Nat \cup {AnyNumber}]

RequestType == [type : {"b", "c"}, access : SUBSET FullAccess \ {{}},
                major : Nat, minor : Nat]

ASSUME FilterAssumption ==
  /\ Rules \subseteq RuleType
  /\ Requests \subseteq RequestType
  /\ MaxRules \in Nat /\ MaxCalls \in Nat

------------------------------------------------------------------------------
(***************************************************************************)
(* Generation                                                              *)
(***************************************************************************)
(* init: type, access, major and minor of the access into R2 to R5.        *)
Load == [op |-> "load"]

Type(t)        == [op |-> "type", bits |-> BPFType(t)]
Access(a)      == [op |-> "access", bits |-> BPFAccess(a)]
Number(reg, n) == [op |-> "number", reg |-> reg, value |-> n]
Return(v)      == [op |-> "return", verdict |-> v]

(* asm.Return() alone: R0 holds whatever it held.                          *)
BareReturn == [op |-> "return", verdict |-> "unset"]

Verdict(allow) == IF allow THEN "allow" ELSE "deny"

When(condition, instruction) == IF condition THEN <<instruction>> ELSE <<>>

(* appendDevice: the tests that are needed, then the verdict of the rule.  *)
Block(rule) ==
  When(rule.type # "a", Type(rule.type))
    \o When(rule.access # FullAccess, Access(rule.access))
    \o When(rule.major # AnyNumber, Number("major", rule.major))
    \o When(rule.minor # AnyNumber, Number("minor", rule.minor))
    \o <<Return(Verdict(rule.allow))>>

Wildcard(rule) == Len(Block(rule)) = 1

(* Mutant: the blocks in the order of the rules.                           *)
ForwardBlocks(rules) == [b \in DOMAIN rules |-> Block(rules[b])]

(* From the last rule to the first, and none after a wildcard.             *)
RuleBlocks(rules) ==
  LET wild == SelectLastInSeq(rules, Wildcard)
      used == IF wild = 0 THEN rules ELSE SubSeq(rules, wild, Len(rules))
  IN  [b \in DOMAIN used |-> Block(Reverse(used)[b])]

(* Mutant: a denial closes the new code, as in a filter of its own.        *)
PrependClosedFilter(rules, original) ==
  <<<<Load>>>> \o RuleBlocks(rules) \o <<<<Return("deny")>>>> \o original

PrependDeviceFilter(rules, original) == <<<<Load>>>> \o RuleBlocks(rules) \o original

(* The program runc attaches: the same kind of code, then a denial.        *)
RuncFilter(rules) ==
  <<<<Load>>>> \o RuleBlocks(rules)
    \o (IF \E i \in DOMAIN rules : Wildcard(rules[i]) THEN <<>>
        ELSE <<<<Return("deny")>>>>)

(* What AddDeviceRules prepends to when the cgroup has no program.         *)
NoFilter == <<<<BareReturn>>>>

(* Mutant: the verdict may be missing.                                     *)
Reachable(p) == \A b \in 1..(Len(p) - 1) : p[b][1].op # "return"

(***************************************************************************)
(* The kernel's verifier wants every instruction reachable and R0 set      *)
(* where the program ends.                                                 *)
(***************************************************************************)
Verified(p) ==
  /\ \A b \in 1..(Len(p) - 1) : p[b][1].op # "return"
  /\ \A b \in DOMAIN p : p[b][Len(p[b])] # BareReturn

------------------------------------------------------------------------------
VARIABLES
  prog,      \* the program that is attached, or <<>> when there is none
  request,   \* the last access to a device
  at,        \* the block and the instruction that come next
  reg,       \* R2: the type, or what a test left there
  outcome,   \* "idle", "running", "refused" by the verifier, or the verdict
  calls,     \* calls of AddDeviceRules so far
  \* History, read by no action:
  asked,     \* the rules of runc and of the calls, one after the other
  partial    \* some call had a partial access after its first rule

vars == <<prog, request, at, reg, outcome, calls, asked, partial>>

RuleLists(max) == UNION {[1..n -> Rules] : n \in 0..max}

Verdicts == {"allow", "deny"}

FilterTypeOK ==
  /\ request \in Requests
  /\ at \in Nat \X Nat
  /\ reg \in SUBSET Bits
  /\ outcome \in Verdicts \cup {"idle", "running", "refused"}
  /\ calls \in 0..MaxCalls
  /\ asked \in Seq(Rules)
  /\ partial \in BOOLEAN

(* A test of the access leaves R2 without the type, so that only the block *)
(* that is last in the generated code, of the first rule, may have one.    *)
(* The CLI's rules have the full access "rwm" (cli main.go:438-444).       *)
PartialLater(list) == \E i \in DOMAIN list : i > 1 /\ list[i].access # FullAccess

Init ==
  /\ \/ prog = <<>> /\ asked = <<>> /\ partial = FALSE
     \/ /\ asked \in RuleLists(1)
        /\ prog = RuncFilter(asked)
        /\ partial = FALSE
  /\ request \in Requests
  /\ at = <<1, 1>>
  /\ reg = {}
  /\ outcome = "idle"
  /\ calls = 0

(* generateNewProgram, before the container begins: prepend to the program *)
(* that is attached, or to a bare return, and load.                        *)
GenerateNewProgram(rules) ==
  LET new == PrependDeviceFilter(rules, IF prog = <<>> THEN NoFilter ELSE prog)
  IN  /\ outcome = "idle" /\ calls < MaxCalls
      /\ IF Verified(new) THEN prog' = new /\ UNCHANGED outcome
                          ELSE outcome' = "refused" /\ UNCHANGED prog
      /\ calls' = calls + 1
      /\ asked' = asked \o rules
      /\ partial' = (partial \/ PartialLater(rules))
      /\ UNCHANGED <<request, at, reg>>

------------------------------------------------------------------------------
(***************************************************************************)
(* Execution                                                               *)
(***************************************************************************)
Instruction == prog[at[1]][at[2]]

NextBlock == at' = <<at[1] + 1, 1>>

(* On to the next instruction, which may be the next block's first.        *)
Advance == at' = IF at[2] < Len(prog[at[1]]) THEN <<at[1], at[2] + 1>>
                                             ELSE <<at[1] + 1, 1>>

(* The container tries to open a device or make a node.                    *)
Try(access) ==
  /\ outcome = "idle" /\ prog # <<>>
  /\ request' = access
  /\ outcome' = "running"
  /\ UNCHANGED <<prog, at, reg, calls, asked, partial>>

Executing(op) ==
  /\ outcome = "running"
  /\ Instruction.op = op
  /\ UNCHANGED <<prog, request, calls, asked, partial>>

ExecLoad ==
  /\ Executing("load")
  /\ reg' = BPFType(request.type)
  /\ Advance
  /\ UNCHANGED outcome

(* JNE R2, type.                                                           *)
ExecType ==
  /\ Executing("type")
  /\ IF reg = Instruction.bits THEN Advance ELSE NextBlock
  /\ UNCHANGED <<reg, outcome>>

(* Mov R2, R3; And R2, access; JEq R2, 0.  R2 no longer holds the type.    *)
ExecAccess ==
  /\ Executing("access")
  /\ reg' = BPFAccess(request.access) \cap Instruction.bits
  /\ IF reg' # {} THEN Advance ELSE NextBlock
  /\ UNCHANGED outcome

(* JNE R4, major and JNE R5, minor.                                        *)
ExecNumber ==
  /\ Executing("number")
  /\ IF request[Instruction.reg] = Instruction.value THEN Advance ELSE NextBlock
  /\ UNCHANGED <<reg, outcome>>

ExecReturn ==
  /\ Executing("return")
  /\ outcome' = Instruction.verdict
  /\ UNCHANGED <<at, reg>>

Next ==
  \/ \E list \in RuleLists(MaxRules) : GenerateNewProgram(list)
  \/ \E access \in Requests : Try(access)
  \/ ExecLoad \/ ExecType \/ ExecAccess \/ ExecNumber \/ ExecReturn

Spec == Init /\ [][Next]_vars

------------------------------------------------------------------------------
(***************************************************************************)
(* Properties                                                              *)
(***************************************************************************)
Matches(rule) ==
  /\ rule.type \in {"a", request.type}
  /\ rule.access = FullAccess \/ rule.access \cap request.access # {}
  /\ rule.major \in {AnyNumber, request.major}
  /\ rule.minor \in {AnyNumber, request.minor}

(* What a list of rules decides: its last rule that matches.               *)
Decides(list) ==
  LET last == SelectLastInSeq(list, Matches)
  IN  IF last = 0 THEN "deny" ELSE Verdict(list[last].allow)

(* A filter decides an access as the rules of all the calls and of runc    *)
(* do, put one after the other, and the last one that matches wins,        *)
(* although every call's code runs in one program with the older code and  *)
(* shares its registers (ebpf.go:81-187, 259-270).                         *)
FilterDecides ==
  outcome \in Verdicts /\ ~partial => outcome = Decides(asked)

(* The verifier takes what is generated in front of a program that is      *)
(* attached: only a rule for every device makes the old code unreachable,  *)
(* and the old program ends with a verdict.                                *)
PrependedIsLoaded ==
  outcome = "refused" =>
    prog = <<>> \/ \E i \in DOMAIN asked : Wildcard(asked[i])

(***************************************************************************)
(* What the comments say and the code does not do                          *)
(***************************************************************************)
(* "If no existing programs found, create a new program with just our      *)
(* device filter" (v2.go:129): that program can be loaded, too.            *)
NewFilterIsLoaded ==
  outcome = "refused" /\ prog = <<>> => \E i \in DOMAIN asked : Wildcard(asked[i])
==============================================================================

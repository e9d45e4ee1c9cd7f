----------------------------- MODULE CgroupDevices -----------------------------
(***************************************************************************)
(* AddDeviceRules of cgroup v1 and of cgroup v2 on the cgroup of one       *)
(* container.  In v1 each rule is written to devices.allow.  In v2 the     *)
(* programs attached to the group are found, a new one is generated from   *)
(* each, all old ones are detached and then all new ones attached; the     *)
(* group may open what every attached program allows, and anything while   *)
(* none is attached.  The call may fail or be killed at any step, and in   *)
(* v2 systemd may put its program back at any time.                        *)
(***************************************************************************)
EXTENDS Naturals

CONSTANTS
  Dev,    \* device numbers
  Slots   \* whose program it is: runc's, systemd's, another controller's

VARIABLES
  version,   \* of the cgroup hierarchy
  beyond,    \* what the groups above and programs that cannot be opened let through
  base,      \* what the program of each slot allows by itself
  allowed,   \* v1: the list of allowed devices
  progs,     \* v2: the attached programs
  call,      \* where the call is
  found,     \* the path the call was given is the group's
  rules,     \* the devices of the call's rules
  written,   \* v1: rules written
  old,       \* v2: oldProgs
  new,       \* v2: newProgs
  detached,  \* those of old that are detached
  attached,  \* those of new that are attached
  round,     \* number of the call, to tell its programs from others
  \* History, read by no action of the call:
  before,    \* what the group might open when the call began
  disturbed  \* systemd has put a program back

group == <<version, beyond, base, allowed, progs>>
work  == <<found, rules, written, old, new, detached, attached, round>>
cgroupVars == <<group, call, work, before, disturbed>>

Program == [slot : Slots, by : {"engine", "cli", "systemd"}, round : Nat,
            allows : SUBSET Dev]

Busy == {"write", "query", "generate", "replace"}

CgroupTypeOK ==
  /\ version \in {1, 2}
  /\ beyond \in SUBSET Dev
  /\ base \in [Slots -> SUBSET Dev]
  /\ allowed \in SUBSET beyond
  /\ progs \in SUBSET Program
  /\ call \in Busy \cup {"idle", "ok", "failed"}
  /\ found \in BOOLEAN
  /\ rules \in SUBSET Dev
  /\ written \in SUBSET rules
  /\ old \in SUBSET Program
  /\ new \in SUBSET Program
  /\ detached \in SUBSET old
  /\ attached \in SUBSET new
  /\ round \in Nat
  /\ before \in SUBSET Dev
  /\ disturbed \in BOOLEAN

(* What the kernel lets the group open.                                    *)
Access ==
  IF version = 1 THEN allowed
  ELSE {d \in beyond : \A p \in progs : d \in p.allows}

EngineProgram(s, allows) ==
  [slot |-> s, by |-> "engine", round |-> 0, allows |-> allows]

(* A new group, as the engine sets it up for a container.                  *)
Fresh(v, limit, programs, slots) ==
  /\ version' = v
  /\ beyond' = limit
  /\ base' = programs
  /\ allowed' = {d \in limit : \A s \in slots : d \in programs[s]}
  /\ progs' = {EngineProgram(s, programs[s]) : s \in slots}
  /\ call' = "idle"
  /\ before' = Access'
  /\ found' = FALSE
  /\ rules' = {}
  /\ written' = {}
  /\ old' = {}
  /\ new' = {}
  /\ detached' = {}
  /\ attached' = {}
  /\ round' = 0
  /\ disturbed' = FALSE

CgroupInit ==
  /\ version \in {1, 2}
  /\ beyond \in SUBSET Dev
  /\ base \in [Slots -> SUBSET Dev]
  /\ \E slots \in SUBSET Slots :
       /\ allowed = {d \in beyond : \A s \in slots : d \in base[s]}
       /\ progs = {EngineProgram(s, base[s]) : s \in slots}
  /\ call = "idle"
  /\ before = Access
  /\ found = FALSE
  /\ rules = {}
  /\ written = {}
  /\ old = {}
  /\ new = {}
  /\ detached = {}
  /\ attached = {}
  /\ round = 0
  /\ disturbed = FALSE

NewGroup ==
  /\ call \notin Busy
  /\ \E v \in {1, 2}, limit \in SUBSET Dev, programs \in [Slots -> SUBSET Dev],
        slots \in SUBSET Slots : Fresh(v, limit, programs, slots)

------------------------------------------------------------------------------
(* AddDeviceRules is called for the rules of some devices.                 *)
AddDeviceRules(devices, pathIsRight) ==
  /\ call \in {"idle", "ok"}
  /\ call' = IF version = 1 THEN "write" ELSE "query"
  /\ found' = pathIsRight
  /\ rules' = devices
  /\ written' = {}
  /\ old' = {}
  /\ new' = {}
  /\ detached' = {}
  /\ attached' = {}
  /\ round' = round + 1
  /\ before' = Access
  /\ UNCHANGED <<group, disturbed>>

(* v1: devices.allow is opened and written for each rule; the kernel       *)
(* refuses what the group above may not open.                              *)
AddDeviceRule(d) ==
  /\ call = "write" /\ found
  /\ d \in (rules \ written) \cap beyond
  /\ allowed' = allowed \cup {d}
  /\ written' = written \cup {d}
  /\ UNCHANGED <<version, beyond, base, progs, call, found, rules, old, new,
                 detached, attached, round, before, disturbed>>

(* v2: FindAttachedCgroupDeviceFilters leaves out what it may not open.    *)
FindAttachedFilters ==
  /\ call = "query" /\ found
  /\ old' = progs
  /\ call' = "generate"
  /\ UNCHANGED <<group, found, rules, written, new, detached, attached, round,
                 before, disturbed>>

Prepended(p) ==
  [slot |-> p.slot, by |-> "cli", round |-> round, allows |-> p.allows \cup rules]

(* Mutant: only the first program is looked at.                            *)
GenerateOneProgram ==
  /\ call = "generate" /\ old # {}
  /\ new' = {Prepended(CHOOSE p \in old : TRUE)}
  /\ call' = "replace"
  /\ UNCHANGED <<group, found, rules, written, old, detached, attached, round,
                 before, disturbed>>

(* A new program for each old one.  Without an old one the program that is *)
(* generated cannot be loaded (DeviceFilter!NewFilterIsLoaded).            *)
GeneratePrograms ==
  /\ call = "generate" /\ old # {}
  /\ new' = {Prepended(p) : p \in old}
  /\ call' = "replace"
  /\ UNCHANGED <<group, found, rules, written, old, detached, attached, round,
                 before, disturbed>>

(* An old program that is no longer attached cannot be detached.           *)
DetachFilter(p) ==
  /\ call = "replace"
  /\ p \in (old \ detached) \cap progs
  /\ progs' = progs \ {p}
  /\ detached' = detached \cup {p}
  /\ UNCHANGED <<version, beyond, base, allowed, call, found, rules, written, old,
                 new, attached, round, before, disturbed>>

AttachFilter(p) ==
  /\ call = "replace" /\ detached = old
  /\ p \in new \ attached
  /\ progs' = progs \cup {p}
  /\ attached' = attached \cup {p}
  /\ UNCHANGED <<version, beyond, base, allowed, call, found, rules, written, old,
                 new, detached, round, before, disturbed>>

ReturnNil ==
  /\ \/ call = "write" /\ written = rules
     \/ call = "replace" /\ detached = old /\ attached = new
  /\ call' = "ok"
  /\ UNCHANGED <<group, work, before, disturbed>>

(* A path that does not exist, a program that cannot be loaded, detached   *)
(* or attached, a rule that is refused; or the process is killed.          *)
ReturnError ==
  /\ call \in Busy
  /\ call' = "failed"
  /\ UNCHANGED <<group, work, before, disturbed>>

(* systemd reloads its units, and replaces the program of a slot by the    *)
(* one it would attach by itself.  Bound: once for a container.            *)
Reattach(s) ==
  /\ version = 2 /\ ~disturbed
  /\ progs' = {p \in progs : p.slot # s}
                \cup {[slot |-> s, by |-> "systemd", round |-> 0, allows |-> base[s]]}
  /\ disturbed' = TRUE
  /\ UNCHANGED <<version, beyond, base, allowed, call, work, before>>

CallStep ==
  \/ \E d \in Dev : AddDeviceRule(d)
  \/ FindAttachedFilters
  \/ GeneratePrograms
  \/ \E p \in old : DetachFilter(p)
  \/ \E p \in new : AttachFilter(p)
  \/ ReturnNil
  \/ ReturnError

CgroupNext ==
  \/ NewGroup
  \/ \E devices \in SUBSET Dev, right \in BOOLEAN : AddDeviceRules(devices, right)
  \/ CallStep
  \/ \E s \in Slots : Reattach(s)

CgroupSpec == CgroupInit /\ [][CgroupNext]_cgroupVars

------------------------------------------------------------------------------
Status == IF call \in Busy THEN "busy" ELSE call

Abstract ==
  INSTANCE DeviceRules WITH
    status <- Status, access <- Access, wanted <- rules, limit <- beyond

(* AddDeviceRules keeps its promise in both versions of cgroup, although   *)
(* v2 takes the filter off before it puts the new one on and may stop in   *)
(* between (v1.go:115-157, v2.go:113-188): a call that returns nil has     *)
(* opened exactly the devices of its rules that the groups above let       *)
(* through, and has opened no other even if systemd replaced a program     *)
(* while it worked.                                                        *)
ImplementsDeviceRules == Abstract!Spec
==============================================================================

------------------------- MODULE PrestartDevicesProofs --------------------------
(***************************************************************************)
(* AddDeviceRules implements DeviceRules, for every number of devices,     *)
(* attached programs and calls.  The prestart hook uses it as described    *)
(* there, and a container that it lets run is confined and has its         *)
(* devices, for every number of devices, hosts, creations and paths.       *)
(***************************************************************************)
EXTENDS PrestartDevices, TLAPS

(***************************************************************************)
(* AddDeviceRules                                                          *)
(***************************************************************************)
(* What the programs of a set allow together.                              *)
Allowed(programs) == {d \in beyond : \A p \in programs : d \in p.allows}

(* The stages of a call belong to one version of cgroup.                   *)
StagesOfVersion ==
  /\ call = "write" => version = 1
  /\ call \in {"query", "generate", "replace"} => version = 2

(* A program allows at least what the slot's own program allows.           *)
BaseInside == \A p \in progs \cup old \cup new : base[p.slot] \subseteq p.allows

(* v1: what is written is what was added, and nothing forbidden.           *)
WriteInv ==
  call = "write" => allowed = before \cup written /\ written \subseteq beyond

NothingYet == call \in {"query", "generate"} => detached = {} /\ attached = {}

(* v2: the filter found is the filter the call began with, unless systemd  *)
(* made it narrower.                                                       *)
QueryInv ==
  call = "query" =>
    Access \subseteq before /\ (~disturbed => Access = before)

FoundInv ==
  call \in {"generate", "replace"} =>
    Allowed(old) \subseteq before /\ (~disturbed => Allowed(old) = before)

GenerateInv == call = "generate" /\ ~disturbed => progs = old

(* v2: what is attached while programs are replaced; what stands for a new *)
(* program that has been attached allows no more than it.                  *)
ReplaceInv ==
  call = "replace" =>
    /\ new = {Prepended(p) : p \in old}
    /\ attached # {} => detached = old
    /\ ~disturbed => progs = (old \ detached) \cup attached
    /\ \A p \in old : Prepended(p) \in attached =>
         \E q \in progs : q.allows \subseteq p.allows \cup rules

CgroupInv ==
  /\ CgroupTypeOK
  /\ StagesOfVersion
  /\ BaseInside
  /\ WriteInv
  /\ NothingYet
  /\ QueryInv
  /\ FoundInv
  /\ GenerateInv
  /\ ReplaceInv

LEMMA AccessBounded == ASSUME CgroupTypeOK PROVE Access \in SUBSET beyond
BY DEF CgroupTypeOK, Access

LEMMA InitInv == CgroupInit => CgroupInv
<1> SUFFICES ASSUME CgroupInit PROVE CgroupInv
  OBVIOUS
<1>1. CgroupTypeOK
  <2>1. PICK slots \in SUBSET Slots :
          /\ allowed = {d \in beyond : \A s \in slots : d \in base[s]}
          /\ progs = {EngineProgram(s, base[s]) : s \in slots}
    BY DEF CgroupInit
  <2>2. progs \in SUBSET Program
    BY <2>1 DEF CgroupInit, EngineProgram, Program
  <2>3. before \in SUBSET Dev
    BY <2>1 DEF CgroupInit, Access
  <2>. QED
    BY <2>1, <2>2, <2>3 DEF CgroupInit, CgroupTypeOK, Busy
<1>2. BaseInside
  BY DEF CgroupInit, BaseInside, EngineProgram
<1>3. call = "idle"
  BY DEF CgroupInit
<1>. QED
  BY <1>1, <1>2, <1>3 DEF CgroupInv, StagesOfVersion, WriteInv, NothingYet, QueryInv,
                         FoundInv, GenerateInv, ReplaceInv

LEMMA NewGroupInv == ASSUME NewGroup PROVE CgroupInv'
<1>1. PICK v \in {1, 2}, limit \in SUBSET Dev, programs \in [Slots -> SUBSET Dev],
        slots \in SUBSET Slots : Fresh(v, limit, programs, slots)
  BY DEF NewGroup
<1>2. CgroupTypeOK'
  <2>1. progs' \in SUBSET Program
    BY <1>1 DEF Fresh, EngineProgram, Program
  <2>2. before' \in SUBSET Dev
    BY <1>1 DEF Fresh, Access
  <2>. QED
    BY <1>1, <2>1, <2>2 DEF Fresh, CgroupTypeOK, Busy
<1>3. BaseInside'
  BY <1>1 DEF Fresh, BaseInside, EngineProgram
<1>4. call' = "idle"
  BY <1>1 DEF Fresh
<1>. QED
  BY <1>2, <1>3, <1>4 DEF CgroupInv, StagesOfVersion, WriteInv, NothingYet, QueryInv,
                         FoundInv, GenerateInv, ReplaceInv

LEMMA AddDeviceRulesInv ==
  ASSUME CgroupInv, NEW numbers \in SUBSET Dev, NEW right \in BOOLEAN,
         AddDeviceRules(numbers, right)
  PROVE  CgroupInv'
<1>1. before' = Access /\ Access' = Access
  BY DEF AddDeviceRules, Access, group
<1>2. CgroupTypeOK'
  <2>1. before' \in SUBSET Dev
    BY <1>1, AccessBounded DEF CgroupInv, CgroupTypeOK
  <2>2. round' \in Nat
    BY DEF AddDeviceRules, CgroupInv, CgroupTypeOK
  <2>. QED
    BY <2>1, <2>2 DEF AddDeviceRules, CgroupInv, CgroupTypeOK, Busy, group
<1>3. StagesOfVersion'
  BY DEF AddDeviceRules, CgroupInv, CgroupTypeOK, StagesOfVersion, group
<1>4. BaseInside'
  BY DEF AddDeviceRules, CgroupInv, BaseInside, group
<1>5. WriteInv'
  BY <1>1 DEF AddDeviceRules, WriteInv, Access, group
<1>6. QueryInv' /\ NothingYet'
  BY <1>1 DEF AddDeviceRules, QueryInv, NothingYet
<1>7. FoundInv' /\ GenerateInv' /\ ReplaceInv'
  BY DEF AddDeviceRules, FoundInv, GenerateInv, ReplaceInv
<1>. QED
  BY <1>2, <1>3, <1>4, <1>5, <1>6, <1>7 DEF CgroupInv

LEMMA AddDeviceRuleInv ==
  ASSUME CgroupInv, NEW d \in Dev, AddDeviceRule(d)
  PROVE  CgroupInv'
<1>1. CgroupTypeOK' /\ StagesOfVersion' /\ BaseInside'
  BY DEF AddDeviceRule, CgroupInv, CgroupTypeOK, StagesOfVersion, BaseInside
<1>2. WriteInv'
  BY DEF AddDeviceRule, CgroupInv, WriteInv
<1>3. NothingYet' /\ QueryInv' /\ FoundInv' /\ GenerateInv' /\ ReplaceInv'
  BY DEF AddDeviceRule, CgroupInv, NothingYet, QueryInv, FoundInv, GenerateInv, ReplaceInv
<1>. QED
  BY <1>1, <1>2, <1>3 DEF CgroupInv

LEMMA FindAttachedFiltersInv ==
  ASSUME CgroupInv, FindAttachedFilters
  PROVE  CgroupInv'
<1>1. CgroupTypeOK' /\ StagesOfVersion' /\ BaseInside'
  BY DEF FindAttachedFilters, CgroupInv, CgroupTypeOK, StagesOfVersion, BaseInside,
         NothingYet, Busy, group
<1>2. FoundInv'
  <2>1. Allowed(old)' = Access
    BY DEF FindAttachedFilters, CgroupInv, StagesOfVersion, Allowed, Access, group
  <2>. QED
    BY <2>1 DEF FindAttachedFilters, CgroupInv, QueryInv, FoundInv
<1>3. WriteInv' /\ NothingYet' /\ QueryInv' /\ GenerateInv' /\ ReplaceInv'
  BY DEF FindAttachedFilters, CgroupInv, WriteInv, NothingYet, QueryInv, GenerateInv, ReplaceInv, group
<1>. QED
  BY <1>1, <1>2, <1>3 DEF CgroupInv

LEMMA GenerateProgramsInv ==
  ASSUME CgroupInv, GeneratePrograms
  PROVE  CgroupInv'
<1>1. detached = {} /\ attached = {}
  BY DEF GeneratePrograms, CgroupInv, NothingYet
<1>2. new' = {Prepended(p) : p \in old} /\ new' \in SUBSET Program
  BY DEF GeneratePrograms, CgroupInv, CgroupTypeOK, Prepended, Program
<1>3. CgroupTypeOK'
  BY <1>1, <1>2 DEF GeneratePrograms, CgroupInv, CgroupTypeOK, Busy, group
<1>4. BaseInside'
  BY <1>2 DEF GeneratePrograms, CgroupInv, BaseInside, Prepended, group
<1>5. ReplaceInv'
  <2>1. {Prepended(p) : p \in old}' = {Prepended(p) : p \in old}
    BY DEF GeneratePrograms, Prepended
  <2>. QED
    BY <1>1, <1>2, <2>1 DEF GeneratePrograms, CgroupInv, GenerateInv, ReplaceInv, group
<1>6. FoundInv'
  <2>1. Allowed(old)' = Allowed(old)
    BY DEF GeneratePrograms, Allowed, group
  <2>. QED
    BY <2>1 DEF GeneratePrograms, CgroupInv, FoundInv
<1>7. StagesOfVersion' /\ WriteInv' /\ NothingYet' /\ QueryInv' /\ GenerateInv'
  BY DEF GeneratePrograms, CgroupInv, StagesOfVersion, WriteInv, NothingYet, QueryInv,
         GenerateInv, group
<1>. QED
  BY <1>3, <1>4, <1>5, <1>6, <1>7 DEF CgroupInv

LEMMA DetachFilterInv ==
  ASSUME CgroupInv, NEW p \in old, DetachFilter(p)
  PROVE  CgroupInv'
<1>1. attached = {}
  BY DEF DetachFilter, CgroupInv, CgroupTypeOK, ReplaceInv
<1>2. CgroupTypeOK' /\ StagesOfVersion' /\ BaseInside'
  BY DEF DetachFilter, CgroupInv, CgroupTypeOK, StagesOfVersion, BaseInside
<1>3. ReplaceInv'
  <2>1. \A q : Prepended(q)' = Prepended(q)
    BY DEF DetachFilter, Prepended
  <2>2. new' = {Prepended(q) : q \in old}'
    BY <2>1 DEF DetachFilter, CgroupInv, ReplaceInv
  <2>3. ~disturbed' => progs' = (old' \ detached') \cup attached'
    BY <1>1 DEF DetachFilter, CgroupInv, ReplaceInv
  <2>. QED
    BY <1>1, <2>2, <2>3 DEF DetachFilter, ReplaceInv
<1>4. FoundInv'
  <2>1. Allowed(old)' = Allowed(old)
    BY DEF DetachFilter, Allowed
  <2>. QED
    BY <2>1 DEF DetachFilter, CgroupInv, FoundInv
<1>5. WriteInv' /\ NothingYet' /\ QueryInv' /\ GenerateInv'
  BY DEF DetachFilter, WriteInv, NothingYet, QueryInv, GenerateInv
<1>. QED
  BY <1>2, <1>3, <1>4, <1>5 DEF CgroupInv

LEMMA AttachFilterInv ==
  ASSUME CgroupInv, NEW p \in new, AttachFilter(p)
  PROVE  CgroupInv'
<1>1. CgroupTypeOK' /\ StagesOfVersion' /\ BaseInside'
  BY DEF AttachFilter, CgroupInv, CgroupTypeOK, StagesOfVersion, BaseInside
<1>2. ReplaceInv'
  <2>1. \A q : Prepended(q)' = Prepended(q)
    BY DEF AttachFilter, Prepended
  <2>2. new' = {Prepended(q) : q \in old}'
    BY <2>1 DEF AttachFilter, CgroupInv, ReplaceInv
  <2>3. ~disturbed' => progs' = (old' \ detached') \cup attached'
    BY DEF AttachFilter, CgroupInv, ReplaceInv
  <2>4. ASSUME NEW q \in old, Prepended(q) \in attached'
        PROVE  \E r \in progs' : r.allows \subseteq q.allows \cup rules
    <3>1. CASE Prepended(q) = p
      BY <3>1 DEF AttachFilter, Prepended
    <3>2. CASE Prepended(q) \in attached
      BY <3>2 DEF AttachFilter, CgroupInv, ReplaceInv
    <3>. QED
      BY <2>4, <3>1, <3>2 DEF AttachFilter
  <2>. QED
    BY <2>1, <2>2, <2>3, <2>4 DEF AttachFilter, ReplaceInv
<1>3. FoundInv'
  <2>1. Allowed(old)' = Allowed(old)
    BY DEF AttachFilter, Allowed
  <2>. QED
    BY <2>1 DEF AttachFilter, CgroupInv, FoundInv
<1>4. WriteInv' /\ NothingYet' /\ QueryInv' /\ GenerateInv'
  BY DEF AttachFilter, WriteInv, NothingYet, QueryInv, GenerateInv
<1>. QED
  BY <1>1, <1>2, <1>3, <1>4 DEF CgroupInv

LEMMA ReturnInv ==
  ASSUME CgroupInv, ReturnNil \/ ReturnError
  PROVE  CgroupInv'
<1>1. call' \in {"ok", "failed"} /\ UNCHANGED <<group, work, before, disturbed>>
  BY DEF ReturnNil, ReturnError
<1>2. CgroupTypeOK' /\ BaseInside'
  BY <1>1 DEF CgroupInv, CgroupTypeOK, BaseInside, group, work
<1>3. /\ StagesOfVersion' /\ WriteInv' /\ NothingYet' /\ QueryInv' /\ FoundInv'
      /\ GenerateInv' /\ ReplaceInv'
  BY <1>1 DEF StagesOfVersion, WriteInv, NothingYet, QueryInv, FoundInv, GenerateInv,
              ReplaceInv
<1>. QED
  BY <1>2, <1>3 DEF CgroupInv

(* systemd's own program allows no more than the one it takes the place of. *)
LEMMA ReattachNarrows ==
  ASSUME CgroupInv, NEW s \in Slots, Reattach(s)
  PROVE  /\ Access' \subseteq Access
         /\ \A q \in progs : \E r \in progs' : r.allows \subseteq q.allows
<1>. DEFINE own == [slot |-> s, by |-> "systemd", round |-> 0, allows |-> base[s]]
<1>1. progs' = {p \in progs : p.slot # s} \cup {own} /\ own.allows = base[s]
  BY DEF Reattach
<1>2. ASSUME NEW q \in progs
      PROVE  \E r \in progs' : r.allows \subseteq q.allows
  <2>1. CASE q.slot = s
    BY <1>1, <2>1 DEF CgroupInv, BaseInside
  <2>2. CASE q.slot # s
    BY <1>1, <2>2
  <2>. QED
    BY <2>1, <2>2
<1>3. Access' \subseteq Access
  BY <1>2 DEF Reattach, Access
<1>. QED
  BY <1>2, <1>3

LEMMA ReattachInv ==
  ASSUME CgroupInv, NEW s \in Slots, Reattach(s)
  PROVE  CgroupInv'
<1>1. CgroupTypeOK'
  <2>1. progs' \in SUBSET Program
    BY DEF Reattach, CgroupInv, CgroupTypeOK, Program
  <2>. QED
    BY <2>1 DEF Reattach, CgroupInv, CgroupTypeOK, work
<1>2. BaseInside' /\ StagesOfVersion'
  BY DEF Reattach, CgroupInv, BaseInside, StagesOfVersion, work
<1>3. QueryInv'
  BY ReattachNarrows DEF Reattach, CgroupInv, QueryInv
<1>4. FoundInv'
  <2>1. Allowed(old)' = Allowed(old)
    BY DEF Reattach, Allowed, work
  <2>. QED
    BY <2>1 DEF Reattach, CgroupInv, FoundInv
<1>5. ReplaceInv'
  <2> SUFFICES ASSUME call = "replace" PROVE ReplaceInv'
    BY DEF Reattach, ReplaceInv
  <2>1. \A q : Prepended(q)' = Prepended(q)
    BY DEF Reattach, Prepended, work
  <2>2. new' = {Prepended(q) : q \in old}'
    BY <2>1 DEF Reattach, CgroupInv, ReplaceInv, work
  <2>. QED
    BY <2>1, <2>2, ReattachNarrows DEF Reattach, CgroupInv, ReplaceInv, work
<1>6. WriteInv' /\ NothingYet' /\ GenerateInv'
  BY DEF Reattach, CgroupInv, WriteInv, NothingYet, GenerateInv, work
<1>. QED
  BY <1>1, <1>2, <1>3, <1>4, <1>5, <1>6 DEF CgroupInv

LEMMA StepInv == CgroupInv /\ [CgroupNext]_cgroupVars => CgroupInv'
<1> SUFFICES ASSUME CgroupInv, [CgroupNext]_cgroupVars PROVE CgroupInv'
  OBVIOUS
<1>1. CASE CallStep
  BY <1>1, AddDeviceRuleInv, FindAttachedFiltersInv, GenerateProgramsInv,
     DetachFilterInv, AttachFilterInv, ReturnInv DEF CallStep
<1>2. CASE UNCHANGED cgroupVars
  BY <1>2 DEF cgroupVars, group, work, CgroupInv, CgroupTypeOK, StagesOfVersion,
     BaseInside, WriteInv, NothingYet, QueryInv, FoundInv, GenerateInv, ReplaceInv,
     Access, Allowed, Prepended
<1>. QED
  BY <1>1, <1>2, NewGroupInv, AddDeviceRulesInv, ReattachInv DEF CgroupNext

------------------------------------------------------------------------------
(***************************************************************************)
(* The refinement                                                          *)
(***************************************************************************)
LEMMA InitRefines == CgroupInit => Abstract!Init
<1> SUFFICES ASSUME CgroupInit PROVE Abstract!Init
  OBVIOUS
<1>1. CgroupTypeOK /\ Access \in SUBSET beyond
  BY InitInv, AccessBounded DEF CgroupInv
<1>. QED
  BY <1>1 DEF CgroupInit, Abstract!Init, Status, Busy

LEMMA NewGroupRefines ==
  ASSUME CgroupTypeOK, NewGroup
  PROVE  Abstract!Renew
<1>1. PICK v \in {1, 2}, limit \in SUBSET Dev, programs \in [Slots -> SUBSET Dev],
        slots \in SUBSET Slots : Fresh(v, limit, programs, slots)
  BY DEF NewGroup
<1>2. Access' \in SUBSET beyond'
  BY <1>1 DEF Fresh, Access
<1>3. Status # "busy" /\ Status' = "idle"
  <2>1. call \notin Busy /\ call' = "idle"
    BY <1>1 DEF NewGroup, Fresh
  <2>2. call # "busy"
    BY DEF CgroupTypeOK, Busy
  <2>. QED
    BY <2>1, <2>2 DEF Status, Busy
<1>. QED
  BY <1>1, <1>2, <1>3 DEF Fresh, Abstract!Renew

LEMMA BeginRefines ==
  ASSUME NEW numbers \in SUBSET Dev, NEW right \in BOOLEAN,
         AddDeviceRules(numbers, right)
  PROVE  Abstract!Begin
<1>1. Access' = Access
  BY DEF AddDeviceRules, Access, group
<1>. QED
  BY <1>1 DEF AddDeviceRules, Abstract!Begin, Status, Busy, group

(* A step within a call leaves the group within its limit.                 *)
LEMMA WorkRefines ==
  ASSUME CgroupInv, CgroupInv',
         call \in Busy, call' \in Busy,
         UNCHANGED <<before, rules, beyond, disturbed>>
  PROVE  Abstract!Work
<1>1. Access' \in SUBSET beyond
  BY DEF CgroupInv, CgroupTypeOK, Access
<1>. QED
  BY <1>1 DEF Abstract!Work, Status

LEMMA ReturnNilRefines ==
  ASSUME CgroupInv, ReturnNil
  PROVE  Abstract!Succeed
<1>1. Access' = Access /\ call \in Busy /\ call' = "ok"
  BY DEF ReturnNil, Access, group, Busy
<1>2. Access \subseteq before \cup rules
      /\ (~disturbed => Access = before \cup (rules \cap beyond))
  <2>1. CASE call = "write"
    BY <2>1 DEF ReturnNil, CgroupInv, CgroupTypeOK, StagesOfVersion, WriteInv, Access
  <2>2. CASE call = "replace"
    <3>1. version = 2 /\ new = attached /\ new = {Prepended(p) : p \in old}
      BY <2>2 DEF ReturnNil, CgroupInv, StagesOfVersion, ReplaceInv
    <3>2. Access \subseteq before \cup rules
      <4> SUFFICES ASSUME NEW d \in Access, d \notin rules PROVE d \in before
        OBVIOUS
      <4>1. ASSUME NEW p \in old PROVE d \in p.allows
        BY <2>2, <3>1 DEF CgroupInv, ReplaceInv, Access
      <4>2. d \in Allowed(old)
        BY <3>1, <4>1 DEF Allowed, Access
      <4>. QED
        BY <2>2, <4>2 DEF CgroupInv, FoundInv
    <3>3. ASSUME ~disturbed PROVE Access = before \cup (rules \cap beyond)
      <4>1. progs = {Prepended(p) : p \in old}
        BY <2>2, <3>1, <3>3 DEF ReturnNil, CgroupInv, ReplaceInv
      <4>2. before = Allowed(old)
        BY <2>2, <3>3 DEF CgroupInv, FoundInv
      <4>3. \A p \in old : Prepended(p).allows = p.allows \cup rules
        BY DEF Prepended
      <4>4. Access = {d \in beyond : \A p \in old : d \in Prepended(p).allows}
        BY <3>1, <4>1 DEF Access
      <4>. QED
        BY <4>2, <4>3, <4>4 DEF Allowed
    <3>. QED
      BY <3>2, <3>3
  <2>. QED
    BY <2>1, <2>2 DEF ReturnNil
<1>. QED
  BY <1>1, <1>2 DEF ReturnNil, Abstract!Succeed, Status, Busy, group, work

LEMMA ReturnErrorRefines ==
  ASSUME ReturnError
  PROVE  Abstract!GiveUp
<1>1. Access' = Access
  BY DEF ReturnError, Access, group
<1>. QED
  BY <1>1 DEF ReturnError, Abstract!GiveUp, Status, Busy, group, work

LEMMA ReattachRefines ==
  ASSUME CgroupInv, NEW s \in Slots, Reattach(s)
  PROVE  Abstract!Interfere
<1>1. Access' \in SUBSET Access
  BY ReattachNarrows
<1>. QED
  BY <1>1 DEF Reattach, Abstract!Interfere, Status, work

LEMMA CallStepRefines ==
  ASSUME CgroupInv, CgroupInv', CallStep
  PROVE  Abstract!Next
<1>1. CASE ReturnNil
  BY <1>1, ReturnNilRefines DEF Abstract!Next
<1>2. CASE ReturnError
  BY <1>2, ReturnErrorRefines DEF Abstract!Next
<1>3. CASE \E d \in Dev : AddDeviceRule(d)
  BY <1>3, WorkRefines DEF AddDeviceRule, Busy, Abstract!Next
<1>4. CASE FindAttachedFilters
  BY <1>4, WorkRefines DEF FindAttachedFilters, Busy, group, Abstract!Next
<1>5. CASE GeneratePrograms
  BY <1>5, WorkRefines DEF GeneratePrograms, Busy, group, Abstract!Next
<1>6. CASE \E p \in old : DetachFilter(p)
  BY <1>6, WorkRefines DEF DetachFilter, Busy, Abstract!Next
<1>7. CASE \E p \in new : AttachFilter(p)
  BY <1>7, WorkRefines DEF AttachFilter, Busy, Abstract!Next
<1>. QED
  BY <1>1, <1>2, <1>3, <1>4, <1>5, <1>6, <1>7 DEF CallStep

LEMMA StepRefines ==
  CgroupInv /\ CgroupInv' /\ [CgroupNext]_cgroupVars => [Abstract!Next]_Abstract!vars
<1> SUFFICES ASSUME CgroupInv, CgroupInv', [CgroupNext]_cgroupVars
             PROVE  Abstract!Next \/ UNCHANGED Abstract!vars
  OBVIOUS
<1>1. CASE NewGroup
  BY <1>1, NewGroupRefines DEF CgroupInv, Abstract!Next
<1>2. CASE \E numbers \in SUBSET Dev, right \in BOOLEAN : AddDeviceRules(numbers, right)
  BY <1>2, BeginRefines DEF Abstract!Next
<1>3. CASE CallStep
  BY <1>3, CallStepRefines
<1>4. CASE \E s \in Slots : Reattach(s)
  BY <1>4, ReattachRefines DEF Abstract!Next
<1>5. CASE UNCHANGED cgroupVars
  BY <1>5 DEF cgroupVars, group, work, Abstract!vars, Status, Access
<1>. QED
  BY <1>1, <1>2, <1>3, <1>4, <1>5 DEF CgroupNext

(* AddDeviceRules, on a cgroup of either version and however often it is   *)
(* called, keeps the promise of DeviceRules (v1.go:115-157,                *)
(* v2.go:113-188): what the prestart run checks on two programs and four   *)
(* devices holds for any number of them.                                   *)
THEOREM AddDeviceRulesRefines == CgroupSpec => ImplementsDeviceRules
<1>1. CgroupSpec => []CgroupInv
  BY InitInv, StepInv, PTL DEF CgroupSpec
<1>. QED
  BY <1>1, InitRefines, StepRefines, PTL DEF CgroupSpec, ImplementsDeviceRules,
     Abstract!Spec

------------------------------------------------------------------------------
(***************************************************************************)
(* The prestart hook                                                       *)
(***************************************************************************)
Numbers == {e[2] : e \in lookedUp}

NumbersTyped ==
  /\ num \in [Nodes -> Dev \cup {NoDev}]
  /\ lookedUp \in SUBSET (Nodes \X Dev)
  /\ infos \in SUBSET Numbers

(* A call is under way only while the hook waits for it.                   *)
CallsInRules == call \in Busy => stage = "rules"

(* The rules of a call are for numbers that were looked up, and the group  *)
(* was confined when it began.                                             *)
CallIsConfined ==
  stage = "rules" => rules \subseteq Numbers /\ before \subseteq granted \cup Numbers

(* Outside of a call, and after one that returned nil, so is the group.    *)
GroupIsConfined ==
  stage \notin {"rules", "failed"} \/ (stage = "rules" /\ call = "ok") =>
    Access \subseteq granted \cup Numbers

PrestartInv ==
  CgroupInv /\ NumbersTyped /\ CallsInRules /\ CallIsConfined /\ GroupIsConfined

------------------------------------------------------------------------------
(***************************************************************************)
(* The hook takes only steps that CgroupDevices has                        *)
(***************************************************************************)
LEMMA CreateRenews ==
  ASSUME CallsInRules, Create
  PROVE  NewGroup
<1>1. call \notin Busy
  BY DEF CallsInRules, Create
<1>2. PICK g \in Groups : Fresh(g.version, g.beyond, g.base, g.slots)
  BY DEF Create
<1>3. /\ g.version \in {1, 2} /\ g.beyond \in SUBSET Dev
      /\ g.base \in [Slots -> SUBSET Dev] /\ g.slots \in SUBSET Slots
  BY PrestartAssumption DEF GroupType
<1>. QED
  BY <1>1, <1>2, <1>3 DEF NewGroup

LEMMA AddRulesCalls ==
  ASSUME NumbersTyped, AddRules
  PROVE  \E ds \in SUBSET Dev, right \in BOOLEAN : AddDeviceRules(ds, right)
<1>1. infos \in SUBSET Dev
  BY DEF NumbersTyped, Numbers
<1>2. PathIsRight \in BOOLEAN
  BY DEF PathIsRight
<1>3. AddDeviceRules(infos, PathIsRight)
  BY DEF AddRules
<1>. QED
  BY <1>1, <1>2, <1>3

(* The steps that leave the group alone.                                   *)
NodeStep ==
  \E n \in Nodes : SkipNode(n) \/ TouchNode(n) \/ MountNode(n) \/ MountFails(n)

HookStep == Locate \/ NodeStep \/ HandleMountsReturns \/ CLIFails \/ HostChange

LEMMA HookStepsLeaveGroup == ASSUME HookStep PROVE UNCHANGED cgroupVars
BY DEF HookStep, NodeStep, Locate, SkipNode, TouchNode, MountNode, MountFails,
   HandleMountsReturns, CLIFails, HostChange

LEMMA PrestartStepCgroup ==
  PrestartInv /\ [PrestartNext]_prestartVars => [CgroupNext]_cgroupVars
<1> SUFFICES ASSUME PrestartInv, [PrestartNext]_prestartVars
             PROVE  CgroupNext \/ UNCHANGED cgroupVars
  OBVIOUS
<1>1. CASE Create
  BY <1>1, CreateRenews DEF PrestartInv, CgroupNext
<1>2. CASE AddRules
  BY <1>2, AddRulesCalls DEF PrestartInv, CgroupNext
<1>3. CASE CallWorks
  BY <1>3 DEF CallWorks, CgroupNext
<1>4. CASE SystemdReloads
  BY <1>4 DEF SystemdReloads, CgroupNext
<1>5. CASE HookStep
  BY <1>5, HookStepsLeaveGroup
<1>6. CASE UNCHANGED prestartVars
  BY <1>6 DEF prestartVars
<1>. QED
  BY <1>1, <1>2, <1>3, <1>4, <1>5, <1>6 DEF PrestartNext, HookStep, NodeStep

------------------------------------------------------------------------------
(***************************************************************************)
(* The invariant                                                           *)
(***************************************************************************)
LEMMA PrestartInitInv == PrestartInit => PrestartInv
<1> SUFFICES ASSUME PrestartInit PROVE PrestartInv
  OBVIOUS
<1>1. CgroupInv
  BY InitInv DEF PrestartInit
<1>2. call = "idle" /\ granted = Access /\ lookedUp = {} /\ infos = {}
      /\ stage = "idle" /\ num \in [Nodes -> Dev \cup {NoDev}]
  BY PrestartAssumption DEF PrestartInit, CgroupInit
<1>. QED
  BY <1>1, <1>2 DEF PrestartInv, NumbersTyped, Numbers, CallsInRules, CallIsConfined,
     GroupIsConfined, Busy

LEMMA CreateInv ==
  ASSUME NumbersTyped, Create
  PROVE  (NumbersTyped /\ CallsInRules /\ CallIsConfined /\ GroupIsConfined)'
<1>1. /\ call' = "idle" /\ granted' = Access' /\ lookedUp' = {} /\ infos' = {}
      /\ stage' = "locate" /\ num' = num
  BY DEF Create, Fresh
<1>. QED
  BY <1>1 DEF NumbersTyped, Numbers, CallsInRules, CallIsConfined, GroupIsConfined, Busy

(* A step of the hook that leaves the group alone looks up no number, or   *)
(* one more, and comes to the end of a call only when that call returned.  *)
LEMMA LookUpInv ==
  ASSUME NumbersTyped, NEW n \in Nodes, LookUp(n), num' = num
  PROVE  NumbersTyped' /\ Numbers \subseteq Numbers'
<1>1. num[n] \in Dev
  BY DEF NumbersTyped, LookUp
<1>2. lookedUp' = lookedUp \cup {<<n, num[n]>>} /\ infos' = infos \cup {num[n]}
  BY DEF LookUp
<1>3. Numbers' = Numbers \cup {num[n]}
  <2>. DEFINE pair == <<n, num[n]>>
  <2>1. pair[2] = num[n]
    OBVIOUS
  <2>2. Numbers' = {e[2] : e \in lookedUp \cup {pair}}
    BY <1>2 DEF Numbers
  <2>. HIDE DEF pair
  <2>3. {e[2] : e \in lookedUp \cup {pair}} = Numbers \cup {pair[2]}
    BY DEF Numbers
  <2>. QED
    BY <2>1, <2>2, <2>3
<1>4. lookedUp' \in SUBSET (Nodes \X Dev)
  BY <1>1, <1>2 DEF NumbersTyped
<1>5. num' \in [Nodes -> Dev \cup {NoDev}]
  BY DEF NumbersTyped
<1>6. infos' \in SUBSET Numbers'
  BY <1>2, <1>3 DEF NumbersTyped
<1>. QED
  BY <1>3, <1>4, <1>5, <1>6 DEF NumbersTyped

LEMMA HookStepNumbers ==
  ASSUME NumbersTyped, HookStep
  PROVE  NumbersTyped' /\ Numbers \subseteq Numbers' /\ granted' = granted
<1>1. CASE \E n \in Nodes : SkipNode(n) \/ TouchNode(n)
  <2>1. PICK n \in Nodes : LookUp(n) /\ num' = num /\ granted' = granted
    BY <1>1 DEF SkipNode, TouchNode
  <2>. QED
    BY <2>1, LookUpInv
<1>2. CASE HostChange
  BY <1>2, PrestartAssumption DEF HostChange, hook, past, NumbersTyped, Numbers
<1>3. CASE \/ Locate \/ HandleMountsReturns \/ CLIFails
           \/ \E n \in Nodes : MountNode(n) \/ MountFails(n)
  <2>1. /\ num' = num /\ lookedUp' = lookedUp /\ granted' = granted
        /\ infos' \in {infos, {}}
    BY <1>3 DEF Locate, HandleMountsReturns, CLIFails, MountNode, MountFails, Fails, past
  <2>. QED
    BY <2>1 DEF NumbersTyped, Numbers
<1>. QED
  BY <1>1, <1>2, <1>3 DEF HookStep, NodeStep

LEMMA HookStepStages ==
  ASSUME HookStep
  PROVE  \/ stage' = stage
         \/ stage' = "failed" /\ stage # "rules"
         \/ stage \notin {"rules", "failed"} /\ stage' # "rules"
         \/ stage = "rules" /\ call = "failed" /\ stage' = "failed"
         \/ stage = "rules" /\ call = "ok" /\ stage' # "rules"
BY DEF HookStep, NodeStep, Locate, SkipNode, TouchNode, MountNode, MountFails,
   HandleMountsReturns, CLIFails, HostChange, hook, StartAccelerators, StartUverbs,
   LookUp, Fails

LEMMA HookStepInv ==
  ASSUME PrestartInv, HookStep
  PROVE  (NumbersTyped /\ CallsInRules /\ CallIsConfined /\ GroupIsConfined)'
<1>1. /\ UNCHANGED <<call, rules, before>>
      /\ Access' = Access
  BY HookStepsLeaveGroup DEF cgroupVars, group, work, Access
<1>2. NumbersTyped' /\ Numbers \subseteq Numbers' /\ granted' = granted
  BY HookStepNumbers DEF PrestartInv
<1>3. CallsInRules'
  BY <1>1, HookStepStages DEF PrestartInv, CallsInRules, Busy
<1>4. CallIsConfined'
  BY <1>1, <1>2, HookStepStages DEF PrestartInv, CallIsConfined
<1>5. GroupIsConfined'
  BY <1>1, <1>2, HookStepStages DEF PrestartInv, GroupIsConfined
<1>. QED
  BY <1>2, <1>3, <1>4, <1>5

LEMMA AddRulesInv ==
  ASSUME PrestartInv, AddRules
  PROVE  (NumbersTyped /\ CallsInRules /\ CallIsConfined /\ GroupIsConfined)'
<1>1. /\ stage = "mount" /\ stage' = "rules" /\ rules' = infos /\ before' = Access
      /\ call' \in {"write", "query"}
      /\ UNCHANGED <<num, infos, granted, lookedUp>>
  BY DEF AddRules, AddDeviceRules, past
<1>. QED
  BY <1>1 DEF PrestartInv, NumbersTyped, Numbers, CallsInRules, CallIsConfined,
     GroupIsConfined, Busy

(* A step within the call returns nil or leaves the call's result open.    *)
LEMMA CallStepReturns ==
  ASSUME CallStep
  PROVE  /\ UNCHANGED <<rules, before>>
         /\ ReturnNil \/ call' # "ok"
BY DEF CallStep, AddDeviceRule, FindAttachedFilters, GeneratePrograms, DetachFilter,
   AttachFilter, ReturnNil, ReturnError, group, work

LEMMA ReturnNilConfined ==
  ASSUME CgroupInv, ReturnNil
  PROVE  Access' \subseteq before \cup rules
BY ReturnNilRefines DEF Abstract!Succeed

LEMMA CallWorksInv ==
  ASSUME PrestartInv, CallWorks
  PROVE  (NumbersTyped /\ CallsInRules /\ CallIsConfined /\ GroupIsConfined)'
<1>1. stage = "rules" /\ UNCHANGED <<stage, num, infos, granted, lookedUp>>
  BY DEF CallWorks, hook, past
<1>2. UNCHANGED <<rules, before>> /\ (ReturnNil \/ call' # "ok")
  BY CallStepReturns DEF CallWorks
<1>3. ReturnNil => Access' \subseteq before \cup rules
  BY ReturnNilConfined DEF PrestartInv
<1>. QED
  BY <1>1, <1>2, <1>3 DEF PrestartInv, NumbersTyped, Numbers, CallsInRules,
     CallIsConfined, GroupIsConfined

LEMMA SystemdReloadsInv ==
  ASSUME PrestartInv, SystemdReloads
  PROVE  (NumbersTyped /\ CallsInRules /\ CallIsConfined /\ GroupIsConfined)'
<1>1. PICK s \in Slots : Reattach(s)
  BY DEF SystemdReloads
<1>2. Access' \subseteq Access
  BY <1>1, ReattachNarrows DEF PrestartInv
<1>3. UNCHANGED <<call, rules, before, stage, num, infos, granted, lookedUp>>
  BY <1>1 DEF SystemdReloads, Reattach, work, hook, past
<1>. QED
  BY <1>2, <1>3 DEF PrestartInv, NumbersTyped, Numbers, CallsInRules,
     CallIsConfined, GroupIsConfined

LEMMA PrestartStepInv ==
  PrestartInv /\ [PrestartNext]_prestartVars => PrestartInv'
<1> SUFFICES ASSUME PrestartInv, [PrestartNext]_prestartVars PROVE PrestartInv'
  OBVIOUS
<1>1. CgroupInv'
  BY PrestartStepCgroup, StepInv DEF PrestartInv
<1>2. (NumbersTyped /\ CallsInRules /\ CallIsConfined /\ GroupIsConfined)'
  <2>1. CASE UNCHANGED prestartVars
    <3>1. Access' = Access
      BY <2>1 DEF prestartVars, cgroupVars, group, Access
    <3>. QED
      BY <2>1, <3>1 DEF prestartVars, cgroupVars, group, work, hook, past, PrestartInv,
         NumbersTyped, Numbers, CallsInRules, CallIsConfined, GroupIsConfined
  <2>. QED
    BY <2>1, CreateInv, HookStepInv, AddRulesInv, CallWorksInv, SystemdReloadsInv
       DEF PrestartNext, HookStep, NodeStep, PrestartInv
<1>. QED
  BY <1>1, <1>2 DEF PrestartInv

------------------------------------------------------------------------------
(* The prestart hook, with all that can fail around it, keeps the promise  *)
(* of DeviceRules each time it opens devices in a container's group        *)
(* (cli main.go:377-383).                                                  *)
THEOREM PrestartRefines == PrestartSpec => ImplementsDeviceRules
<1>1. PrestartSpec => []PrestartInv
  BY PrestartInitInv, PrestartStepInv, PTL DEF PrestartSpec
<1>2. PrestartInit => CgroupInit
  BY DEF PrestartInit
<1>3. PrestartSpec => CgroupSpec
  BY <1>1, <1>2, PrestartStepCgroup, PTL DEF PrestartSpec, CgroupSpec
<1>. QED
  BY <1>3, AddDeviceRulesRefines

(* No container that the hook lets run may open more than the engine let   *)
(* it and the numbers looked up for its nodes, although the hook's call    *)
(* takes the filter off (v2.go:169-185), for any filter, host and failure. *)
THEOREM ConfinedWhenRunning == PrestartSpec => []RunningIsConfined
<1>1. PrestartInv => RunningIsConfined
  BY DEF PrestartInv, GroupIsConfined, RunningIsConfined, Numbers
<1>. QED
  BY <1>1, PrestartInitInv, PrestartStepInv, PTL DEF PrestartSpec

------------------------------------------------------------------------------
(***************************************************************************)
(* Types                                                                   *)
(***************************************************************************)
TreesTyped == rootfs \in RootfsType /\ dev \in TreeType

HookTyped ==
  /\ config \in ConfigType
  /\ mounted \in SUBSET (Nodes \X Dev)
  /\ stage \in Stages
  /\ batch \in {"accelerators", "uverbs"}
  /\ devices \in SUBSET Nodes
  /\ todo \in SUBSET devices
  /\ node \in SUBSET todo
  /\ creations \in 0..MaxCreations
  /\ granted \in SUBSET Dev
  /\ calm \in BOOLEAN

LEMMA InnerTyped ==
  ASSUME TreesTyped, NEW tree \in TreeType, InnerBecomes(tree)
  PROVE  TreesTyped' /\ rootfs'.devfs = rootfs.devfs
                     /\ (rootfs.devfs => rootfs' = rootfs)
BY DEF TreesTyped, InnerBecomes, RootfsType

LEMMA TouchTyped ==
  ASSUME TreesTyped, NEW n \in Nodes, TouchNode(n)
  PROVE  TreesTyped' /\ rootfs'.devfs = rootfs.devfs
                     /\ (rootfs.devfs => rootfs' = rootfs)
<1>. DEFINE dirs == IF DirOf(n) \in rootfs.tree.dirs THEN Inner.dirs
                                                     ELSE Inner.dirs \cup {DirOf(n)}
<1>. DEFINE tree == [dirs |-> dirs, files |-> Inner.files \cup {n}]
<1>1. Inner \in TreeType
  BY DEF TreesTyped, Inner, RootfsType
<1>2. DirOf(n) \in {"accel", "infiniband"}
  BY DEF DirOf
<1>3. tree \in TreeType
  BY <1>1, <1>2 DEF TreeType
<1>4. InnerBecomes(tree)
  BY DEF TouchNode
<1>. QED
  BY <1>3, <1>4, InnerTyped

LEMMA MountFailsTyped ==
  ASSUME TreesTyped, NEW n \in Nodes, MountFails(n)
  PROVE  TreesTyped'
<1>1. [Inner EXCEPT !.files = @ \ {n}] \in TreeType
  BY DEF TreesTyped, Inner, RootfsType, TreeType
<1>. QED
  BY <1>1, InnerTyped DEF MountFails

LEMMA TreesStep ==
  ASSUME TreesTyped, [PrestartNext]_prestartVars
  PROVE  TreesTyped'
<1>1. CASE Create
  BY <1>1 DEF Create, TreesTyped, Empty, TreeType
<1>2. CASE \E n \in Nodes : TouchNode(n) \/ MountFails(n)
  BY <1>2, TouchTyped, MountFailsTyped
<1>3. CASE UNCHANGED <<rootfs, dev>>
  BY <1>3 DEF TreesTyped
<1>4. \/ Create
      \/ \E n \in Nodes : TouchNode(n) \/ MountFails(n)
      \/ UNCHANGED <<rootfs, dev>>
  BY DEF PrestartNext, prestartVars, Locate, SkipNode, MountNode, AddRules, CallWorks,
     HandleMountsReturns, CLIFails, HostChange, SystemdReloads
<1>. QED
  BY <1>1, <1>2, <1>3, <1>4

LEMMA NodeStepTyped ==
  ASSUME HookTyped, NumbersTyped, NodeStep
  PROVE  HookTyped'
<1>1. PICK n \in Nodes : SkipNode(n) \/ TouchNode(n) \/ MountNode(n) \/ MountFails(n)
  BY DEF NodeStep
<1>2. UNCHANGED <<config, creations, granted, calm, batch, devices>>
      /\ stage' \in {stage, "failed"}
  BY <1>1 DEF SkipNode, TouchNode, MountNode, MountFails, Fails, LookUp, stable, past
<1>3. mounted' \in SUBSET (Nodes \X Dev)
  <2>1. CASE MountNode(n)
    BY <2>1 DEF MountNode, HookTyped, NumbersTyped
  <2>. QED
    BY <1>1, <2>1 DEF SkipNode, TouchNode, MountFails, HookTyped
<1>4. todo' \in SUBSET devices /\ node' \in SUBSET todo'
  BY <1>1 DEF SkipNode, TouchNode, MountNode, MountFails, Fails, LookUp, HookTyped
<1>. QED
  BY <1>2, <1>3, <1>4 DEF HookTyped, Stages

LEMMA HookStepTyped ==
  ASSUME HookTyped, [PrestartNext]_prestartVars, NumbersTyped, granted' \in SUBSET Dev,
         stage \in {"locate", "rules"} => todo = {}
  PROVE  HookTyped'
<1>1. CASE Create
  BY <1>1, PrestartAssumption DEF Create, HookTyped, Present, Stages
<1>2. CASE Locate \/ HandleMountsReturns
  BY <1>2 DEF Locate, HandleMountsReturns, StartAccelerators, StartUverbs, HookTyped,
     Stages, stable, past
<1>3. CASE NodeStep
  BY <1>3, NodeStepTyped
<1>4. CASE AddRules \/ CallWorks \/ CLIFails \/ HostChange \/ SystemdReloads
           \/ UNCHANGED prestartVars
  BY <1>4 DEF AddRules, CallWorks, CLIFails, Fails, HostChange, SystemdReloads,
     prestartVars, hook, stable, past, HookTyped, Stages
<1>. QED
  BY <1>1, <1>2, <1>3, <1>4 DEF PrestartNext, NodeStep


------------------------------------------------------------------------------
(***************************************************************************)
(* What is done for the devices of a container                             *)
(***************************************************************************)
BatchNodes == devices \cap (IF batch = "accelerators" THEN Accels ELSE Verbs)

EarlierNodes ==
  IF batch = "uverbs" /\ config.mountAccelerators THEN devices \cap Accels ELSE {}

Mounted(n) == rootfs.devfs /\ n \notin rootfs.tree.files => <<n, num[n]>> \in mounted

Opened(n, devs) == ~disturbed /\ num[n] \in beyond => num[n] \in devs

Working == {"mount", "rules"}

(* A batch is one that the configuration wants, and nothing is left of it  *)
(* when the rules are added.                                               *)
BatchesInOrder ==
  /\ stage = "locate" => batch = "accelerators" /\ todo = {}
  /\ stage \in Working =>
       IF batch = "accelerators" THEN config.mountAccelerators ELSE config.mountUverbs
  /\ stage = "rules" => todo = {} /\ rules = infos

(* On a steady host: a node of the batch is still to do, mounted or taken, *)
(* and its number is among those for the rules before its file is made.    *)
BatchDone ==
  stage \in Working /\ calm =>
    /\ \A n \in BatchNodes \ todo : Mounted(n) /\ num[n] \in infos
    /\ \A n \in node : num[n] \in infos

(* The batch before this one is mounted and opened.                        *)
EarlierDone ==
  stage \in Working /\ calm =>
    \A n \in EarlierNodes :
      Mounted(n) /\ Opened(n, IF stage = "rules" THEN before ELSE Access)

(* What a call that returned nil opened.                                   *)
CallOpened ==
  stage = "rules" /\ call = "ok" /\ ~disturbed => Access = before \cup (rules \cap beyond)

EquipInv ==
  /\ TreesTyped /\ HookTyped
  /\ BatchesInOrder /\ BatchDone /\ EarlierDone /\ CallOpened
  /\ RunningHasItsDevices

Equipped == BatchDone /\ EarlierDone /\ CallOpened /\ RunningHasItsDevices

(* Where neither the hook works nor the container runs nothing is claimed. *)
LEMMA NothingClaimed ==
  ASSUME stage \notin {"mount", "rules", "running"}
  PROVE  Equipped
BY DEF Equipped, BatchDone, EarlierDone, CallOpened, RunningHasItsDevices, Working

LEMMA NothingClaimedNext ==
  ASSUME stage' \notin {"mount", "rules", "running"}
  PROVE  Equipped'
BY DEF Equipped, BatchDone, EarlierDone, CallOpened, RunningHasItsDevices, Working

LEMMA OrderStep ==
  ASSUME HookTyped, BatchesInOrder, [PrestartNext]_prestartVars, PrestartInv
  PROVE  BatchesInOrder'
<1>1. CASE Create
  BY <1>1 DEF Create, BatchesInOrder, Working
<1>2. CASE Locate \/ HandleMountsReturns
  BY <1>2 DEF Locate, HandleMountsReturns, StartAccelerators, StartUverbs, BatchesInOrder,
     Working, stable
<1>3. CASE NodeStep \/ CLIFails
  BY <1>3 DEF NodeStep, SkipNode, TouchNode, MountNode, MountFails, CLIFails, Fails,
     LookUp, BatchesInOrder, Working, stable
<1>4. CASE AddRules
  BY <1>4 DEF AddRules, AddDeviceRules, BatchesInOrder, Working, stable
<1>5. CASE CallWorks
  BY <1>5, CallStepReturns DEF CallWorks, BatchesInOrder, Working, hook, stable
<1>6. CASE HostChange \/ SystemdReloads \/ UNCHANGED prestartVars
  BY <1>6 DEF HostChange, SystemdReloads, Reattach, prestartVars, cgroupVars, work, hook, stable,
     BatchesInOrder, Working
<1>. QED
  BY <1>1, <1>2, <1>3, <1>4, <1>5, <1>6 DEF PrestartNext, NodeStep

(* The hook finds the group and begins with a batch, or is at its end.     *)
LEMMA LocateEquips == ASSUME EquipInv, Locate PROVE Equipped'
<1>1. /\ stage = "locate" /\ batch = "accelerators" /\ node = {} /\ node' = {}
      /\ UNCHANGED <<config, devices>>
  BY DEF Locate, EquipInv, HookTyped, BatchesInOrder, stable
<1>2. CASE stage' = "failed"
  BY <1>2, NothingClaimedNext
<1>3. CASE config.mountAccelerators /\ StartAccelerators
  BY <1>1, <1>3 DEF StartAccelerators, Equipped, BatchDone, EarlierDone, CallOpened,
     RunningHasItsDevices, Working, BatchNodes, EarlierNodes
<1>4. CASE ~config.mountAccelerators /\ StartUverbs
  BY <1>1, <1>4 DEF StartUverbs, Equipped, BatchDone, EarlierDone, CallOpened,
     RunningHasItsDevices, Working, BatchNodes, EarlierNodes, Wanted
<1>. QED
  BY <1>2, <1>3, <1>4 DEF Locate

(* A node that is skipped or mounted joins those that are done.            *)
LEMMA NodeEquips == ASSUME EquipInv, NodeStep PROVE Equipped'
<1>1. PICK n \in Nodes : SkipNode(n) \/ TouchNode(n) \/ MountNode(n) \/ MountFails(n)
  BY DEF NodeStep
<1>2. CASE MountFails(n)
  BY <1>2, NothingClaimedNext DEF MountFails, Fails
<1>3. CASE SkipNode(n) \/ TouchNode(n) \/ MountNode(n)
  <2>1. /\ stage = "mount"
        /\ UNCHANGED <<stage, num, config, batch, devices, calm, disturbed, beyond, before>>
        /\ Access' = Access
    BY <1>3, HookStepsLeaveGroup DEF SkipNode, TouchNode, MountNode, LookUp, HookStep, NodeStep,
       cgroupVars, group, work, stable, past, Access
  <2>2. rootfs'.devfs = rootfs.devfs /\ (rootfs.devfs => rootfs' = rootfs)
    BY <1>3, TouchTyped DEF SkipNode, MountNode, EquipInv
  <2>3. mounted \subseteq mounted' /\ infos \subseteq infos'
    BY <1>3 DEF SkipNode, TouchNode, MountNode, LookUp
  <2>4. ASSUME NEW m, Mounted(m) PROVE Mounted(m)'
    BY <2>1, <2>2, <2>3, <2>4 DEF Mounted
  <2>5. ASSUME calm PROVE
          /\ \A m \in BatchNodes \ todo : Mounted(m) /\ num[m] \in infos
          /\ \A m \in node : num[m] \in infos
    BY <2>1, <2>5 DEF EquipInv, BatchDone, Working
  <2>6. \A m \in (todo \ todo') : calm => Mounted(m)' /\ num[m] \in infos'
    <3>1. CASE SkipNode(n)
      BY <3>1, <2>1 DEF SkipNode, LookUp, Mounted
    <3>2. CASE TouchNode(n)
      BY <3>2 DEF TouchNode
    <3>3. CASE MountNode(n)
      BY <3>3, <2>1, <2>3, <2>5 DEF MountNode, Mounted
    <3>. QED
      BY <1>3, <3>1, <3>2, <3>3
  <2>7. \A m \in node' : calm => num[m] \in infos'
    BY <1>3, <2>3, <2>5 DEF SkipNode, TouchNode, MountNode, LookUp
  <2>8. BatchDone'
    BY <2>1, <2>3, <2>4, <2>5, <2>6, <2>7 DEF BatchDone, BatchNodes
  <2>9. EarlierDone'
    BY <2>1, <2>4 DEF EquipInv, EarlierDone, EarlierNodes, Opened, Working
  <2>. QED
    BY <2>1, <2>8, <2>9 DEF Equipped, CallOpened, RunningHasItsDevices
<1>. QED
  BY <1>1, <1>2, <1>3

(* The call begins with the group as the earlier batch has left it.        *)
LEMMA AddRulesEquips == ASSUME EquipInv, AddRules PROVE Equipped'
<1>1. /\ stage = "mount" /\ stage' = "rules" /\ before' = Access /\ call' # "ok"
      /\ UNCHANGED <<num, config, rootfs, mounted, batch, devices, todo, node, infos, calm,
                     disturbed, beyond>>
  BY DEF AddRules, AddDeviceRules, stable, group
<1>2. \A m : Mounted(m) => Mounted(m)'
  BY <1>1 DEF Mounted
<1>3. BatchDone'
  BY <1>1, <1>2 DEF EquipInv, BatchDone, BatchNodes, Working
<1>4. EarlierDone'
  BY <1>1, <1>2 DEF EquipInv, EarlierDone, EarlierNodes, Opened, Working
<1>. QED
  BY <1>1, <1>3, <1>4 DEF Equipped, CallOpened, RunningHasItsDevices

(* A step of the call changes what is open, and nil says to what.          *)
LEMMA CallEquips == ASSUME EquipInv, PrestartInv, CallWorks PROVE Equipped'
<1>1. /\ stage = "rules"
      /\ UNCHANGED <<stage, num, config, rootfs, mounted, batch, devices, todo, node, infos,
                     calm, rules, before>>
  BY CallStepReturns DEF CallWorks, stable, hook
<1>2. UNCHANGED <<disturbed, beyond>>
  BY DEF CallWorks, CallStep, AddDeviceRule, FindAttachedFilters, GeneratePrograms,
     DetachFilter, AttachFilter, ReturnNil, ReturnError, group
<1>3. \A m : Mounted(m) => Mounted(m)'
  BY <1>1 DEF Mounted
<1>4. BatchDone'
  BY <1>1, <1>3 DEF EquipInv, BatchDone, BatchNodes, Working
<1>5. EarlierDone'
  BY <1>1, <1>2, <1>3 DEF EquipInv, EarlierDone, EarlierNodes, Opened, Working
<1>6. CallOpened'
  <2>1. ReturnNil /\ ~disturbed => Access' = before \cup (rules \cap beyond)
    BY ReturnNilRefines DEF PrestartInv, Abstract!Succeed
  <2>. QED
    BY <1>1, <1>2, <2>1, CallStepReturns DEF CallWorks, CallOpened
<1>. QED
  BY <1>1, <1>4, <1>5, <1>6 DEF Equipped, RunningHasItsDevices

(* A call that returned nil has opened its batch and kept the earlier one. *)
LEMMA ReturnEquips == ASSUME EquipInv, HandleMountsReturns PROVE Equipped'
<1>1. /\ stage = "rules" /\ todo = {} /\ node = {} /\ node' = {} /\ rules = infos
      /\ UNCHANGED <<num, config, rootfs, mounted, devices, calm, disturbed, beyond>>
      /\ Access' = Access
  BY DEF HandleMountsReturns, EquipInv, HookTyped, BatchesInOrder, stable, cgroupVars,
     group, work, Access
<1>2. CASE call = "failed"
  BY <1>2, NothingClaimedNext DEF HandleMountsReturns
<1>3. CASE call = "ok"
  <2>1. ~disturbed => Access = before \cup (rules \cap beyond)
    BY <1>1, <1>3 DEF EquipInv, CallOpened
  <2>2. ASSUME calm, NEW n \in BatchNodes PROVE Mounted(n) /\ Opened(n, Access)
    BY <1>1, <2>1, <2>2 DEF EquipInv, BatchDone, Working, Opened
  <2>3. ASSUME calm, NEW n \in EarlierNodes PROVE Mounted(n) /\ Opened(n, Access)
    BY <1>1, <2>1, <2>3 DEF EquipInv, EarlierDone, Working, Opened
  <2>4. \A m : (Mounted(m) => Mounted(m)') /\ (Opened(m, Access) => Opened(m, Access)')
    BY <1>1 DEF Mounted, Opened
  <2>5. CASE batch = "accelerators" /\ config.mountUverbs
    <3>1. stage' = "mount" /\ batch' = "uverbs" /\ todo' = devices \cap Verbs
      BY <1>3, <2>5 DEF HandleMountsReturns, StartUverbs
    <3>2. BatchDone'
      BY <1>1, <3>1 DEF BatchDone, BatchNodes
    <3>3. EarlierDone'
      BY <1>1, <2>2, <2>4, <2>5, <3>1 DEF EarlierDone, EarlierNodes, BatchNodes
    <3>. QED
      BY <3>1, <3>2, <3>3 DEF Equipped, CallOpened, RunningHasItsDevices
  <2>6. CASE ~(batch = "accelerators" /\ config.mountUverbs)
    <3>1. stage' = "running"
      BY <1>3, <2>6 DEF HandleMountsReturns, StartUverbs
    <3>2. Wanted \subseteq BatchNodes \cup EarlierNodes
      BY <1>1, <2>6 DEF Wanted, BatchNodes, EarlierNodes, EquipInv, BatchesInOrder, Working,
         HookTyped
    <3>3. Wanted' = Wanted
      BY <1>1 DEF Wanted
    <3>4. RunningHasItsDevices'
      BY <1>1, <2>2, <2>3, <2>4, <3>2, <3>3 DEF RunningHasItsDevices, Mounted, Opened
    <3>. QED
      BY <3>1, <3>4 DEF Equipped, BatchDone, EarlierDone, CallOpened, Working
  <2>. QED
    BY <2>5, <2>6
<1>. QED
  BY <1>2, <1>3 DEF HandleMountsReturns

(* A host that changes ends the promise, systemd that of the rules.        *)
LEMMA HostChangeEquips == ASSUME EquipInv, HostChange PROVE Equipped'
<1>1. calm' = FALSE /\ UNCHANGED <<stage, call, disturbed, before, rules, beyond>> /\ Access' = Access
  BY DEF HostChange, hook, cgroupVars, group, work, Access
<1>. QED
  BY <1>1 DEF EquipInv, Equipped, BatchDone, EarlierDone, CallOpened, RunningHasItsDevices

LEMMA SystemdEquips == ASSUME EquipInv, SystemdReloads PROVE Equipped'
<1>1. /\ disturbed' = TRUE
      /\ UNCHANGED <<stage, num, config, rootfs, mounted, batch, devices, todo, node, infos,
                     calm>>
  BY DEF SystemdReloads, Reattach, stable, hook
<1>. QED
  BY <1>1 DEF EquipInv, Equipped, BatchDone, EarlierDone, CallOpened, RunningHasItsDevices,
     Mounted, Opened, BatchNodes, EarlierNodes, Wanted, Working

LEMMA StutterEquips == ASSUME EquipInv, UNCHANGED prestartVars PROVE Equipped'
<1>1. /\ UNCHANGED <<stage, num, config, rootfs, mounted, batch, devices, todo, node, infos,
                     calm, call, disturbed, before, rules, beyond>>
      /\ Access' = Access
  BY DEF prestartVars, cgroupVars, group, work, stable, hook, Access
<1>. QED
  BY <1>1 DEF EquipInv, Equipped, BatchDone, EarlierDone, CallOpened, RunningHasItsDevices,
     Mounted, Opened, BatchNodes, EarlierNodes, Wanted, Working

LEMMA EquipInit == PrestartInit => EquipInv
<1> SUFFICES ASSUME PrestartInit PROVE EquipInv
  OBVIOUS
<1>1. stage = "idle" /\ todo = {} /\ node = {} /\ devices = {}
  BY DEF PrestartInit
<1>2. granted \in SUBSET Dev
  BY InitInv DEF PrestartInit, CgroupInv, CgroupTypeOK, Access
<1>3. TreesTyped /\ HookTyped
  BY <1>1, <1>2, PrestartAssumption DEF PrestartInit, TreesTyped, HookTyped, Stages, Empty,
     TreeType
<1>. QED
  BY <1>1, <1>3, NothingClaimed DEF EquipInv, Equipped, BatchesInOrder, Working

LEMMA EquipStep ==
  EquipInv /\ PrestartInv /\ [PrestartNext]_prestartVars => EquipInv'
<1> SUFFICES ASSUME EquipInv, PrestartInv, [PrestartNext]_prestartVars PROVE EquipInv'
  OBVIOUS
<1>1. PrestartInv'
  BY PrestartStepInv
<1>2. granted' \in SUBSET Dev
  <2>1. Access' \in SUBSET Dev
    BY <1>1 DEF PrestartInv, CgroupInv, CgroupTypeOK, Access
  <2>2. granted' \in {granted, Access'}
    BY DEF PrestartNext, prestartVars, Create, Locate, SkipNode, TouchNode, MountNode,
       MountFails, AddRules, CallWorks, HandleMountsReturns, CLIFails, HostChange,
       SystemdReloads, past
  <2>. QED
    BY <2>1, <2>2 DEF EquipInv, HookTyped
<1>3. TreesTyped' /\ HookTyped'
  BY <1>2, TreesStep, HookStepTyped DEF EquipInv, BatchesInOrder, PrestartInv
<1>4. BatchesInOrder'
  BY OrderStep DEF EquipInv
<1>5. Equipped'
  <2>1. CASE Create \/ CLIFails
    BY <2>1, NothingClaimedNext DEF Create, CLIFails, Fails
  <2>. QED
    BY <2>1, LocateEquips, NodeEquips, AddRulesEquips, CallEquips, ReturnEquips,
       HostChangeEquips, SystemdEquips, StutterEquips DEF PrestartNext, NodeStep
<1>. QED
  BY <1>3, <1>4, <1>5 DEF EquipInv, Equipped

LEMMA EquipInvariant == PrestartSpec => [](PrestartInv /\ EquipInv)
<1>1. PrestartSpec => []PrestartInv
  BY PrestartInitInv, PrestartStepInv, PTL DEF PrestartSpec
<1>2. PrestartSpec => []EquipInv
  BY <1>1, EquipInit, EquipStep, PTL DEF PrestartSpec
<1>. QED
  BY <1>1, <1>2, PTL

(* Every variable has its type, in particular the file being made is one   *)
(* of the nodes still to be mounted.                                       *)
THEOREM PrestartTypeCorrect == PrestartSpec => []PrestartTypeOK
<1>1. PrestartInv /\ EquipInv => PrestartTypeOK
  BY DEF PrestartInv, EquipInv, CgroupInv, NumbersTyped, Numbers, TreesTyped, HookTyped,
     PrestartTypeOK
<1>. QED
  BY <1>1, EquipInvariant, PTL

(* A container that the hook lets run has the devices of its configuration *)
(* and may open them, for any devices and files that earlier creations     *)
(* have left (cli main.go:328-431).                                        *)
THEOREM EquippedWhenRunning == PrestartSpec => []RunningHasItsDevices
BY EquipInvariant, PTL DEF EquipInv

==============================================================================

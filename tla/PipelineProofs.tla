---------------------------- MODULE PipelineProofs -----------------------------
(***************************************************************************)
(* What is proved of a container's creation, for any number of             *)
(* accelerators, interfaces, creations, failures and kills, and whatever   *)
(* other containers do: what exposeInterfaces leaves behind, and what a    *)
(* container that runs was given.                                          *)
(***************************************************************************)
EXTENDS CreatePipeline, CreateCommandProofs, WellFoundedInduction

(***************************************************************************)
(* The inductive invariant.  A temporary link in a namespace of its own    *)
(* belongs to the interface at hand, or to a creation that has failed; on  *)
(* the host's network every link of a CLI that was not killed is one it    *)
(* made and has still to delete.                                           *)
(***************************************************************************)
LinkType == link \in [Num -> Links] /\ made \in SUBSET Num

AtHand ==
  /\ tool # "namespace" => current = {}
  /\ \A i, j \in current : i = j

HooksRun == tool # "idle" => runc = "hooks"

OwnLinks ==
  network = "own" =>
    \A i \in Num : link[i] = "temp" => i \in current \/ tool = "failed" \/ runc = "failed"

HostLinks ==
  network = "host" =>
    /\ \A i \in Num : link[i] # "named"
    /\ ~crashed => \A i \in Num : link[i] = "temp" => tool \in {"links", "namespace"} /\ i \in made

LinkInv == LinkType /\ AtHand /\ HooksRun /\ OwnLinks /\ HostLinks

------------------------------------------------------------------------------
linkVars == <<network, runc, tool, current, link, made, crashed>>

LEMMA LinkInit == PipelineInit => LinkInv
BY DEF PipelineInit, LinkInv, LinkType, Links, AtHand, HooksRun, OwnLinks, HostLinks

LEMMA LinkStutters == ASSUME LinkInv, UNCHANGED linkVars PROVE LinkInv'
BY DEF linkVars, LinkInv, LinkType, AtHand, HooksRun, OwnLinks, HostLinks

(* The runtime's steps and the host's leave everything here alone.         *)
LEMMA OutsideStutters ==
  ASSUME RuntimeStep \/ EnvironmentStep
  PROVE  UNCHANGED linkVars
BY DEF RuntimeStep, EnvironmentStep, linkVars, pipeline, given, cli

(* A step of runc or of the engine: the tools are idle or have ended.      *)
LEMMA RuncLinks ==
  ASSUME LinkInv, RuntimeInvoked \/ RuncStep \/ RuncRemoves
  PROVE  LinkInv'
<1>1. CASE RuntimeInvoked
  BY <1>1 DEF RuntimeInvoked, given, cli, LinkInv, LinkType, AtHand, HooksRun, OwnLinks,
     HostLinks
<1>2. CASE RuncLoads
  BY <1>2 DEF RuncLoads, given, cli, LinkInv, LinkType, AtHand, HooksRun, OwnLinks,
     HostLinks
<1>3. ASSUME NEW l \in Lifecycle, RuncRunsHook(l) PROVE LinkInv'
  BY <1>3 DEF RuncRunsHook, given, LinkInv, LinkType, AtHand, HooksRun, OwnLinks, HostLinks
<1>4. CASE RuncSeesHookEnd
  BY <1>4 DEF RuncSeesHookEnd, given, cli, LinkInv, LinkType, AtHand, HooksRun, OwnLinks,
     HostLinks
<1>5. CASE RuncStarts
  BY <1>5 DEF RuncStarts, given, cli, LinkInv, LinkType, AtHand, HooksRun, OwnLinks,
     HostLinks
<1>6. CASE RuncRemoves
  <2>1. /\ runc \in {"started", "failed"} /\ runc' = "gone"
        /\ link' = [i \in Num |-> IF network = "own" /\ i \in Ours THEN "free" ELSE link[i]]
        /\ UNCHANGED <<network, tool, current, made, crashed>>
    BY <1>6 DEF RuncRemoves, given, cli
  <2>2. \A i \in Num : link'[i] \in {"free", link[i]}
    BY <2>1
  <2>3. network = "own" => \A i \in Num : link'[i] # "temp"
    BY <2>1 DEF Ours
  <2>4. link' \in [Num -> Links]
    BY <2>1 DEF LinkInv, LinkType, Links
  <2>. QED BY <2>1, <2>2, <2>3, <2>4 DEF LinkInv, LinkType, AtHand, HooksRun, OwnLinks, HostLinks
<1>. QED BY <1>1, <1>2, <1>3, <1>4, <1>5, <1>6 DEF RuncStep

(* Up to the list of interfaces the tools make no link.                    *)
LEMMA EarlyLinks ==
  ASSUME LinkInv,
         \/ HookReadsContainer \/ CLIParsesFlags \/ CLIParsesDevices \/ CLIFindsCgroup
         \/ CLIMountsAccelerators \/ CLIMountsUverbs \/ CLIGeneratesNetinfo
         \/ CLIListsInterfaces
  PROVE  LinkInv'
<1>1. /\ tool \in {"hook", "flags", "parse", "cgroup", "accelerators", "uverbs",
                   "netinfo", "list"}
      /\ tool' \notin {"idle", "namespace"}
      /\ UNCHANGED <<network, runc, current, link, made, crashed>>
  BY DEF HookReadsContainer, CLIParsesFlags, CLIParsesDevices, CLIFindsCgroup,
     CLIMountsAccelerators, CLIMountsUverbs, HandleMounts, CLIGeneratesNetinfo,
     CLIListsInterfaces, given, hook, cli
<1>. QED BY <1>1 DEF LinkInv, LinkType, AtHand, HooksRun, OwnLinks, HostLinks

(* Whichever way the CLI returns, the deferred deletions have run.         *)
LEMMA ReturnLinks ==
  ASSUME LinkInv, NEW outcome \in {"done", "failed"}, Return(outcome),
         tool \notin {"idle", "namespace", "failed"},
         UNCHANGED <<network, runc, current, made, crashed>>
  PROVE  LinkInv'
<1>1. /\ \A i \in Num : link'[i] \in {"free", link[i]}
      /\ \A i \in Num : network = "host" /\ i \in made => link'[i] = "free"
      /\ link' \in [Num -> Links]
      /\ tool' = outcome
  BY DEF Return, LinkInv, LinkType, Links
<1>2. runc = "hooks"
  BY DEF LinkInv, HooksRun
<1>3. network = "own" => \A i \in Num : link'[i] # "temp"
  BY <1>1, <1>2 DEF LinkInv, AtHand, OwnLinks
<1>. QED BY <1>1, <1>2, <1>3 DEF LinkInv, LinkType, AtHand, HooksRun, OwnLinks, HostLinks

LEMMA InterfaceLinks ==
  ASSUME LinkInv, NEW i \in Num,
         CLICreatesLink(i) \/ CLIConfiguresLink(i) \/ CLIFailsInNamespace(i)
  PROVE  LinkInv'
<1>1. CASE CLICreatesLink(i)
  <2>1. /\ tool = "links" /\ current = {} /\ runc = "hooks"
        /\ UNCHANGED <<network, runc, crashed>>
    BY <1>1 DEF CLICreatesLink, given, LinkInv, AtHand, HooksRun
  <2>2. network = "own" => \A j \in Num : link[j] # "temp"
    BY <2>1 DEF LinkInv, OwnLinks
  <2>3. CASE tool' = "links" /\ UNCHANGED <<current, made, link>>
    BY <2>1, <2>2, <2>3 DEF LinkInv, LinkType, AtHand, HooksRun, OwnLinks, HostLinks
  <2>4. CASE /\ link' = [link EXCEPT ![i] = "temp"] /\ made' = made \cup {i}
             /\ current' = {i} /\ tool' = "namespace"
    <3>1. /\ link' \in [Num -> Links] /\ link'[i] = "temp"
          /\ \A j \in Num : j # i => link'[j] = link[j]
      BY <2>4 DEF LinkInv, LinkType, Links
    <3>. QED BY <2>1, <2>2, <2>4, <3>1
             DEF LinkInv, LinkType, AtHand, HooksRun, OwnLinks, HostLinks
  <2>5. CASE Return("failed") /\ UNCHANGED <<current, made>>
    BY <2>1, <2>5, ReturnLinks
  <2>. QED BY <1>1, <2>1, <2>3, <2>4, <2>5 DEF CLICreatesLink
<1>2. CASE CLIConfiguresLink(i)
  <2>1. /\ tool = "namespace" /\ runc = "hooks" /\ i \in current /\ current' = {}
        /\ UNCHANGED <<network, runc, made>>
    BY <1>2 DEF CLIConfiguresLink, given, LinkInv, HooksRun
  <2>2. CASE network = "host"
    <3>1. UNCHANGED <<link, crashed>> /\ tool' = "links"
      BY <1>2, <2>2 DEF CLIConfiguresLink
    <3>. QED BY <2>1, <2>2, <3>1 DEF LinkInv, LinkType, AtHand, HooksRun, OwnLinks, HostLinks
  <2>3. CASE network # "host"
    <3>1. link' = [link EXCEPT ![i] = "named"] /\ tool' \in {"failed", "links"}
      BY <1>2, <2>3 DEF CLIConfiguresLink
    <3>2. /\ link' \in [Num -> Links] /\ link'[i] = "named"
          /\ \A j \in Num : j # i => link'[j] = link[j]
      BY <3>1 DEF LinkInv, LinkType, Links
    <3>3. network = "own" => \A j \in Num : link'[j] # "temp"
      BY <2>1, <3>2 DEF LinkInv, AtHand, OwnLinks
    <3>. QED BY <2>1, <2>3, <3>1, <3>2, <3>3
             DEF LinkInv, LinkType, AtHand, HooksRun, OwnLinks, HostLinks
  <2>. QED BY <2>2, <2>3
<1>3. CASE CLIFailsInNamespace(i)
  <2>1. /\ tool = "namespace" /\ tool' = "failed" /\ runc = "hooks" /\ current' = {}
        /\ UNCHANGED <<network, runc, made, crashed>>
    BY <1>3 DEF CLIFailsInNamespace, given, LinkInv, HooksRun
  <2>2. CASE network = "host"
    <3>1. link' = [j \in Num |-> IF j \in made THEN "free" ELSE link[j]]
      BY <1>3, <2>2 DEF CLIFailsInNamespace
    <3>2. /\ \A j \in Num : link'[j] \in {"free", link[j]}
          /\ \A j \in Num : j \in made => link'[j] = "free"
          /\ link' \in [Num -> Links]
      BY <3>1 DEF LinkInv, LinkType, Links
    <3>. QED BY <2>1, <2>2, <3>2 DEF LinkInv, LinkType, AtHand, HooksRun, OwnLinks, HostLinks
  <2>3. CASE network # "host"
    <3>1. link' \in {link, [link EXCEPT ![i] = "named"]}
      BY <1>3, <2>3 DEF CLIFailsInNamespace
    <3>2. link' \in [Num -> Links]
      BY <3>1 DEF LinkInv, LinkType, Links
    <3>. QED BY <2>1, <2>3, <3>2 DEF LinkInv, LinkType, AtHand, HooksRun, OwnLinks, HostLinks
  <2>. QED BY <2>2, <2>3
<1>. QED BY <1>1, <1>2, <1>3

LEMMA EndLinks ==
  ASSUME LinkInv, CLIReturns \/ ToolFails
  PROVE  LinkInv'
<1>1. /\ tool \notin {"idle", "namespace", "failed"}
      /\ UNCHANGED <<network, runc, current, made, crashed>>
      /\ Return("done") \/ Return("failed")
  BY DEF CLIReturns, ToolFails, given, cli
<1>. QED BY <1>1, ReturnLinks

LEMMA KilledLinks == ASSUME LinkInv, ToolKilled PROVE LinkInv'
<1>1. /\ tool' = "failed" /\ crashed' = TRUE /\ current' = {} /\ runc = "hooks"
      /\ UNCHANGED <<network, runc, made, link>>
  BY DEF ToolKilled, ToolStages, given, LinkInv, HooksRun
<1>. QED BY <1>1 DEF LinkInv, LinkType, AtHand, HooksRun, OwnLinks, HostLinks

LEMMA NeighbourLinks == ASSUME LinkInv, NEW i \in Num, OtherContainer(i) PROVE LinkInv'
<1>1. /\ link' = [link EXCEPT ![i] = IF @ = "free" THEN "other" ELSE "free"]
      /\ UNCHANGED <<network, runc, tool, current, made, crashed>>
  BY DEF OtherContainer, given, cli
<1>2. /\ link' \in [Num -> Links] /\ link'[i] \in {"other", "free"}
      /\ \A j \in Num : j # i => link'[j] = link[j]
  BY <1>1 DEF LinkInv, LinkType, Links
<1>. QED BY <1>1, <1>2 DEF LinkInv, LinkType, AtHand, HooksRun, OwnLinks, HostLinks

LEMMA LinkStep == LinkInv /\ [PipelineNext]_pipelineVars => LinkInv'
<1> SUFFICES ASSUME LinkInv, [PipelineNext]_pipelineVars PROVE LinkInv'
  OBVIOUS
<1>1. CASE RuntimeInvoked \/ RuncStep \/ RuncRemoves
  BY <1>1, RuncLinks
<1>2. CASE RuntimeStep \/ EnvironmentStep
  BY <1>2, OutsideStutters, LinkStutters
<1>3. CASE ToolWorks
  BY <1>3, EarlyLinks, InterfaceLinks, EndLinks DEF ToolWorks
<1>4. CASE ToolBreaks
  BY <1>4, EndLinks, KilledLinks, InterfaceLinks DEF ToolBreaks
<1>5. ASSUME NEW i \in Num, OtherContainer(i) PROVE LinkInv'
  BY <1>5, NeighbourLinks
<1>6. CASE UNCHANGED pipelineVars
  BY <1>6, LinkStutters DEF pipelineVars, pipeline, given, cli, linkVars
<1>. QED BY <1>1, <1>2, <1>3, <1>4, <1>5, <1>6 DEF PipelineNext

LEMMA LinkInvariant == PipelineSpec => []LinkInv
BY LinkInit, LinkStep, PTL DEF PipelineSpec

------------------------------------------------------------------------------
(* A container in a namespace of its own never runs with a link that still *)
(* has the temporary name it was made under, also when the CLI panicked or *)
(* was killed between the link's creation and its renaming.                *)
THEOREM NoTemporaryLink == PipelineSpec => []NoTemporaryLinkInside
<1>1. LinkInv => NoTemporaryLinkInside
  BY DEF LinkInv, HooksRun, AtHand, OwnLinks, NoTemporaryLinkInside
<1>. QED BY LinkInvariant, <1>1, PTL

(* On the host's network the deferred deletions leave no link, whichever   *)
(* way and at whichever interface the CLI returns (netdevices.go:106-109). *)
THEOREM HostLinksAreDeleted == PipelineSpec => []HostNetworkKeepsNoLink
<1>1. LinkInv => HostNetworkKeepsNoLink
  BY DEF LinkInv, HostLinks, HostNetworkKeepsNoLink, Ours
<1>. QED BY LinkInvariant, <1>1, PTL

------------------------------------------------------------------------------
(***************************************************************************)
(* The runtime inside the creation.  Every step is one of the runtime's    *)
(* own module, leaves its state alone, or is the CLI's netinfo, which      *)
(* writes the root file system only.                                       *)
(***************************************************************************)
LEMMA ToolsLeaveRuntime ==
  ASSUME \/ RuncStep \/ RuncRemoves \/ ToolWorks \/ ToolBreaks
         \/ \E i \in Num : OtherContainer(i)
  PROVE  UNCHANGED vars \/ CLIGeneratesNetinfo
<1>1. CASE RuncStep \/ RuncRemoves
  BY <1>1 DEF RuncStep, RuncLoads, RuncRunsHook, RuncSeesHookEnd, RuncStarts, RuncRemoves
<1>2. CASE ToolWorks
  BY <1>2 DEF ToolWorks, HookReadsContainer, CLIParsesFlags, CLIParsesDevices,
     CLIFindsCgroup, CLIMountsAccelerators, CLIMountsUverbs, HandleMounts,
     CLIListsInterfaces, CLICreatesLink, CLIConfiguresLink, CLIReturns
<1>3. CASE ToolBreaks
  BY <1>3 DEF ToolBreaks, ToolFails, ToolKilled, CLIFailsInNamespace
<1>4. CASE \E i \in Num : OtherContainer(i)
  BY <1>4 DEF OtherContainer
<1>. QED BY <1>1, <1>2, <1>3, <1>4

LEMMA RuntimeMoves ==
  ASSUME [PipelineNext]_pipelineVars
  PROVE  [Next]_vars \/ CLIGeneratesNetinfo
<1>1. CASE RuntimeInvoked \/ RuntimeStep \/ EnvironmentStep
  BY <1>1 DEF RuntimeInvoked, RuntimeStep, EnvironmentStep, Next, Commands
<1>2. CASE UNCHANGED pipelineVars
  BY <1>2 DEF pipelineVars
<1>. QED BY <1>1, <1>2, ToolsLeaveRuntime DEF PipelineNext

LEMMA NetinfoLeavesRest ==
  ASSUME CLIGeneratesNetinfo
  PROVE  UNCHANGED <<cfg, host, file, process, runs, history>>
BY DEF CLIGeneratesNetinfo

------------------------------------------------------------------------------
(***************************************************************************)
(* Types                                                                   *)
(***************************************************************************)
LEMMA MaxOf ==
  ASSUME NEW n \in Nat, NEW I \in SUBSET (1..n), I # {}
  PROVE  Max(I) \in I
<1> DEFINE D == {n - i : i \in I}
<1>1. D \in SUBSET Nat /\ D # {}
  <2>1. ASSUME NEW i \in I PROVE n - i \in Nat
    BY <2>1
  <2>. QED BY <2>1
<1>2. PICK d \in D : \A e \in D : <<e, d>> \notin OpToRel(<, Nat)
  <2>. HIDE DEF D
  <2>. QED BY <1>1, NatLessThanWellFounded, WFMin
<1>3. PICK m \in I : d = n - m
  OBVIOUS
<1>4. ASSUME NEW i \in I PROVE i <= m
  <2>1. n - i \in D /\ n - i \in Nat /\ d \in Nat /\ i \in 1..n /\ m \in 1..n
    BY <1>1
  <2>2. ~(n - i < n - m)
    BY <1>2, <1>3, <2>1 DEF OpToRel
  <2>. QED BY <2>1, <2>2
<1>. QED BY <1>4 DEF Max

LEMMA EntryOf == ASSUME NEW R, NEW q \in Seq(R), NEW i \in 1..Len(q) PROVE q[i] \in R
OBVIOUS

FlagValues == [word : Words, nums : SUBSET Nat, junk : BOOLEAN]

LEMMA FlagType ==
  ASSUME NEW s \in SpecType
  PROVE  GetDevicesFromEnvvar(s.env) \in FlagValues
<1> DEFINE exact == EntriesOf(s.env, {VisibleDevices})
<1>1. Word("all") \in FlagValues /\ Word("empty") \in FlagValues
  BY DEF Word, FlagValues, Words
<1>2. CASE exact # {}
  <2>1. /\ s.env \in Seq([name : STRING, eq : BOOLEAN, val : FlagValues])
        /\ DOMAIN s.env = 1..Len(s.env) /\ Len(s.env) \in Nat
    BY DEF SpecType, FlagValues
  <2>2. exact \in SUBSET (1..Len(s.env))
    BY <2>1 DEF EntriesOf
  <2>3. Max(exact) \in exact
    BY <1>2, <2>1, <2>2, MaxOf
  <2>4. ASSUME NEW i \in 1..Len(s.env) PROVE s.env[i].val \in FlagValues
    <3>1. s.env[i] \in [name : STRING, eq : BOOLEAN, val : FlagValues]
      BY <2>1, EntryOf
    <3>. QED BY <3>1
  <2>. QED BY <1>1, <2>2, <2>3, <2>4 DEF GetDevicesFromEnvvar
<1>. QED BY <1>1, <1>2 DEF GetDevicesFromEnvvar

(* runc counts down the hooks it has still to run: one that runs is among  *)
(* them.                                                                   *)
Counted == tool # "idle" => pending[lifecycle] > 0

TypeInv == TypeOK /\ PipelineTypeOK /\ Counted

LEMMA IdsAreNumbers == ASSUME NEW nodes \in SUBSET Node PROVE DevicesIDs(nodes) \in SUBSET Num
BY NumAssumption DEF DevicesIDs, Node

LEMMA RuntimeTypes == TypeOK /\ PipelineTypeOK /\ [PipelineNext]_pipelineVars => TypeOK'
<1> SUFFICES ASSUME TypeOK, PipelineTypeOK, [PipelineNext]_pipelineVars PROVE TypeOK'
  OBVIOUS
<1>1. CASE CLIGeneratesNetinfo
  <2>1. DevicesIDs(accels) \in SUBSET Num
    BY IdsAreNumbers DEF PipelineTypeOK
  <2>2. rootfs' \in RootfsType
    BY <1>1, <2>1 DEF CLIGeneratesNetinfo, NetinfoWritten, NetinfoFails, TypeOK, RootfsType
  <2>. QED BY <1>1, <2>2, NetinfoLeavesRest DEF TypeOK, process, history
<1>2. CASE [Next]_vars
  BY <1>2, StepType
<1>. QED BY <1>1, <1>2, RuntimeMoves


LEMMA NewTypes ==
  ASSUME TypeInv, HooksRun, HookReadsContainer \/ CLIParsesDevices \/ CLIListsInterfaces \/ RuncLoads
  PROVE  PipelineTypeOK' /\ Counted'
<1>1. CASE HookReadsContainer
  <2>1. flag' \in FlagValues
    BY <1>1, FlagType DEF HookReadsContainer, TypeInv, TypeOK, PipelineTypeOK, FlagValues
  <2>. QED BY <1>1, <2>1 DEF HookReadsContainer, given, container, cli, TypeInv, PipelineTypeOK,
           Counted, FlagValues, ToolStages
<1>2. CASE CLIParsesDevices
  <2>1. ParseDevices(flag, PresentNodes(host)) \in SUBSET Node
    BY DEF ParseDevices, CharDevices, AcceleratorDevices, PresentNodes
  <2>2. host.verbs \in SUBSET Num
    BY DEF TypeInv, TypeOK, HostType
  <2>3. accels' \in SUBSET Node /\ verbs' \in SUBSET Num /\ tool' \in ToolStages
    BY <1>2, <2>1, <2>2 DEF CLIParsesDevices, TypeInv, PipelineTypeOK, ToolStages
  <2>. QED BY <1>2, <2>3 DEF CLIParsesDevices, given, container, hook, TypeInv, PipelineTypeOK, Counted
<1>3. CASE CLIListsInterfaces
  <2>1. host.verbs \in SUBSET Num
    BY DEF TypeInv, TypeOK, HostType
  <2>2. todo' \in SUBSET Num /\ tool' \in ToolStages
    BY <1>3, <2>1 DEF CLIListsInterfaces, ExposedHlibs, ToolStages
  <2>. QED BY <1>3, <2>2 DEF CLIListsInterfaces, given, container, hook, TypeInv, PipelineTypeOK, Counted
<1>4. CASE RuncLoads
  <2>1. file.spec.hooks \in [Lifecycle -> Nat]
    BY DEF TypeInv, TypeOK, SpecType
  <2>2. /\ pending' \in [Lifecycle -> Nat] /\ runc' \in RuncStages
        /\ inside' \in [Node -> {"absent", "closed", "open"}] /\ taken' \in SUBSET Node
    BY <1>4, <2>1 DEF RuncLoads, TakePaths, FreshInside, container, TypeInv, PipelineTypeOK, RuncStages
  <2>. QED BY <1>4, <2>2 DEF RuncLoads, given, container, hook, cli, TypeInv, HooksRun,
           PipelineTypeOK, Counted
<1>. QED BY <1>1, <1>2, <1>3, <1>4


LEMMA RuncTypes ==
  ASSUME TypeInv, HooksRun,
         \/ RuntimeInvoked \/ RuncSeesHookEnd \/ RuncStarts \/ RuncRemoves
         \/ \E l \in Lifecycle : RuncRunsHook(l)
  PROVE  PipelineTypeOK' /\ Counted'
<1>1. CASE RuntimeInvoked \/ RuncStarts
  BY <1>1 DEF RuntimeInvoked, RuncStarts, given, container, hook, cli, TypeInv, PipelineTypeOK, Counted,
     RuncStages
<1>2. CASE RuncSeesHookEnd
  <2>1. pending[lifecycle] \in Nat /\ pending[lifecycle] > 0 /\ lifecycle \in Lifecycle
    BY <1>2 DEF RuncSeesHookEnd, TypeInv, Counted, PipelineTypeOK
  <2>2. pending' \in [Lifecycle -> Nat] /\ runc' \in RuncStages
    BY <1>2, <2>1 DEF RuncSeesHookEnd, TypeInv, PipelineTypeOK, RuncStages
  <2>. QED BY <1>2, <2>2 DEF RuncSeesHookEnd, given, container, hook, cli, TypeInv, PipelineTypeOK,
           Counted, ToolStages
<1>3. CASE RuncRemoves
  <2>1. link' \in [Num -> Links] /\ inside' \in [Node -> {"absent", "closed", "open"}]
    BY <1>3 DEF RuncRemoves, TypeInv, PipelineTypeOK, Links
  <2>. QED BY <1>3, <2>1 DEF RuncRemoves, given, container, hook, cli, TypeInv, PipelineTypeOK, Counted,
           RuncStages
<1>4. ASSUME NEW l \in Lifecycle, RuncRunsHook(l) PROVE PipelineTypeOK' /\ Counted'
  BY <1>4 DEF RuncRunsHook, given, container, TypeInv, PipelineTypeOK, Counted, ToolStages
<1>. QED BY <1>1, <1>2, <1>3, <1>4

LEMMA NodesKeepTypes ==
  ASSUME PipelineTypeOK, NEW files \in SUBSET Node, NEW mounted, NEW opened,
         NodesBecome(files, mounted, opened)
  PROVE  inside' \in [Node -> {"absent", "closed", "open"}] /\ taken' \in SUBSET Node
BY DEF NodesBecome, TakePaths, PipelineTypeOK

LEMMA MountsKeepTypes ==
  ASSUME PipelineTypeOK, NEW enabled, NEW nodes, NEW next, HandleMounts(enabled, nodes, next)
  PROVE  inside' \in [Node -> {"absent", "closed", "open"}] /\ taken' \in SUBSET Node
<1>1. CASE UNCHANGED container
  BY <1>1 DEF container, PipelineTypeOK
<1>2. CASE \E files \in SUBSET (nodes \cap PresentNodes(host)) :
             \E mounted, opened : NodesBecome(files, mounted, opened)
  BY <1>2, NodesKeepTypes DEF PresentNodes
<1>. QED BY <1>1, <1>2 DEF HandleMounts

(* Steps of the tools that only move on, open nodes or change links.       *)
LEMMA ToolTypes ==
  ASSUME TypeInv,
         \/ CLIParsesFlags \/ CLIFindsCgroup \/ CLIMountsAccelerators \/ CLIMountsUverbs
         \/ CLIGeneratesNetinfo \/ CLIReturns \/ ToolFails \/ ToolKilled
         \/ \E i \in Num : \/ CLICreatesLink(i) \/ CLIConfiguresLink(i)
                           \/ CLIFailsInNamespace(i) \/ OtherContainer(i)
  PROVE  PipelineTypeOK' /\ Counted'
<1>1. CASE CLIParsesFlags \/ CLIFindsCgroup \/ CLIGeneratesNetinfo \/ ToolKilled
  BY <1>1 DEF CLIParsesFlags, CLIFindsCgroup, CLIGeneratesNetinfo, ToolKilled, given, container, hook,
     cli, TypeInv, PipelineTypeOK, Counted, ToolStages
<1>2. ASSUME NEW enabled, NEW nodes, NEW next \in {"uverbs", "netinfo"}, tool # "idle",
             HandleMounts(enabled, nodes, next)
      PROVE  PipelineTypeOK' /\ Counted'
  <2>1. tool' \in ToolStages
    BY <1>2 DEF HandleMounts, ToolStages
  <2>2. inside' \in [Node -> {"absent", "closed", "open"}] /\ taken' \in SUBSET Node
    BY <1>2, MountsKeepTypes DEF TypeInv
  <2>. QED BY <1>2, <2>1, <2>2 DEF HandleMounts, given, container, hook, cli, TypeInv, PipelineTypeOK, Counted
<1>3. CASE CLIReturns \/ ToolFails
  <2>1. link' \in [Num -> Links] /\ tool' \in ToolStages /\ tool # "idle"
    BY <1>3 DEF CLIReturns, ToolFails, Return, TypeInv, PipelineTypeOK, Links, ToolStages
  <2>. QED BY <1>3, <2>1 DEF CLIReturns, ToolFails, given, container, hook, cli, TypeInv,
           PipelineTypeOK, Counted
<1>4. ASSUME NEW i \in Num,
             \/ CLICreatesLink(i) \/ CLIConfiguresLink(i) \/ CLIFailsInNamespace(i)
             \/ OtherContainer(i)
      PROVE  PipelineTypeOK' /\ Counted'
  <2>1. link \in [Num -> Links] /\ made \in SUBSET Num /\ todo \in SUBSET Num
    BY DEF TypeInv, PipelineTypeOK
  <2>2. CASE CLICreatesLink(i)
    <3>1. /\ link' \in [Num -> Links] /\ tool' \in ToolStages /\ tool # "idle"
          /\ made' \in SUBSET Num /\ current' \in SUBSET Num /\ todo' \in SUBSET Num
      BY <2>1, <2>2 DEF CLICreatesLink, Return, Links, ToolStages, TypeInv, PipelineTypeOK
    <3>. QED BY <2>2, <3>1 DEF CLICreatesLink, given, container, hook, TypeInv, PipelineTypeOK, Counted
  <2>3. CASE CLIConfiguresLink(i)
    <3>1. /\ link' \in [Num -> Links] /\ tool' \in ToolStages /\ tool # "idle"
          /\ crashed' \in BOOLEAN /\ current' \in SUBSET Num /\ todo' \in SUBSET Num
      BY <2>1, <2>3 DEF CLIConfiguresLink, Links, ToolStages, TypeInv, PipelineTypeOK
    <3>. QED BY <2>3, <3>1 DEF CLIConfiguresLink, given, container, hook, TypeInv, PipelineTypeOK, Counted
  <2>4. CASE CLIFailsInNamespace(i)
    <3>1. link' \in [Num -> Links]
      BY <2>1, <2>4 DEF CLIFailsInNamespace, Links
    <3>. QED BY <2>4, <3>1 DEF CLIFailsInNamespace, given, container, hook, TypeInv, PipelineTypeOK,
             Counted, ToolStages
  <2>5. CASE OtherContainer(i)
    <3>1. link' \in [Num -> Links]
      BY <2>1, <2>5 DEF OtherContainer, Links
    <3>. QED BY <2>5, <3>1 DEF OtherContainer, given, container, hook, cli, TypeInv, PipelineTypeOK,
             Counted
  <2>. QED BY <1>4, <2>2, <2>3, <2>4, <2>5
<1>. QED BY <1>1, <1>2, <1>3, <1>4 DEF CLIMountsAccelerators, CLIMountsUverbs

LEMMA TypeStep == TypeInv /\ HooksRun /\ [PipelineNext]_pipelineVars => TypeInv'
<1> SUFFICES ASSUME TypeInv, HooksRun, [PipelineNext]_pipelineVars PROVE TypeInv'
  OBVIOUS
<1>1. TypeOK'
  BY RuntimeTypes DEF TypeInv
<1>2. CASE RuntimeStep \/ EnvironmentStep \/ UNCHANGED pipelineVars
  BY <1>1, <1>2 DEF RuntimeStep, EnvironmentStep, pipelineVars, pipeline, given, container, hook, cli,
     TypeInv, PipelineTypeOK, Counted
<1>. QED BY <1>1, <1>2, NewTypes, RuncTypes, ToolTypes
         DEF PipelineNext, RuncStep, ToolWorks, ToolBreaks, TypeInv

LEMMA TypeInit == PipelineInit => TypeInv
<1> SUFFICES ASSUME PipelineInit PROVE TypeInv
  OBVIOUS
<1>1. TypeOK
  BY InitType DEF PipelineInit
<1>2. flag \in [word : Words, nums : SUBSET Nat, junk : BOOLEAN]
  BY DEF PipelineInit, Word, Words
<1>3. runc \in RuncStages /\ tool \in ToolStages /\ lifecycle \in Lifecycle
  BY DEF PipelineInit, RuncStages, ToolStages, Lifecycle
<1>4. /\ pending \in [Lifecycle -> Nat] /\ link \in [Num -> Links]
      /\ inside \in [Node -> {"absent", "closed", "open"}]
  BY DEF PipelineInit, Links
<1>5. /\ hookCfg \in HookConfigType /\ network \in NetworkKinds /\ interface \in InterfaceType
      /\ place \in PlaceType /\ taken \in SUBSET Node
  BY PipelineAssumption DEF PipelineInit, SettingType
<1>. QED BY <1>1, <1>2, <1>3, <1>4, <1>5 DEF PipelineInit, TypeInv, PipelineTypeOK, Counted

LEMMA TypeInvariant == PipelineSpec => []TypeInv
<1>1. LinkInv => HooksRun
  BY DEF LinkInv
<1>. QED BY <1>1, TypeInit, TypeStep, LinkInvariant, PTL DEF PipelineSpec

(* The types of runc, the hook and the CLI. Of interest is what the hook   *)
(* passes on: the last of many entries, whatever the environment.          *)
THEOREM PipelineTypes == PipelineSpec => []PipelineTypeOK
<1>1. TypeInv => PipelineTypeOK
  BY DEF TypeInv
<1>. QED BY <1>1, TypeInvariant, PTL


------------------------------------------------------------------------------
(***************************************************************************)
(* What the runtime hands over: the container's environment as the engine  *)
(* wrote it and, when the request ended without an error, the mode's hook. *)
(* The hook may have been there before; a failed save leaves it out.       *)
(***************************************************************************)
EnvInv == spec.env = original.env /\ file.spec.env = original.env

HookOf(mode) == IF mode = "legacy" THEN "prestart" ELSE "createRuntime"

HasHook(s) == Gated(s) => s.hooks[HookOf(cfg.mode)] > 0

HookInv ==
  /\ pc = "save" /\ err = NoError => HasHook(spec)
  /\ pc \in {"exec", "handed"} /\ cmd = "create" /\ saved = "ok" => HasHook(file.spec)

HandOverInv == RulesInv /\ StageInv /\ EnvInv /\ HookInv

LEMMA EnvStep == TypeOK /\ EnvInv /\ [Next]_vars => EnvInv'
<1> SUFFICES ASSUME TypeOK, EnvInv, [Next]_vars PROVE EnvInv'
  OBVIOUS
<1>1. spec' = file.spec \/ Extends(spec', spec)
  BY SpecChanges, ChangeExtends DEF TypeOK
<1>2. spec'.env = original.env
  BY <1>1 DEF EnvInv, Extends
<1>3. file'.spec.env = original.env /\ original' = original
  BY SpecChanges, OnlySaveWrites DEF EnvInv
<1>. QED BY <1>2, <1>3 DEF EnvInv

(* The ways an invocation comes to the save without an error.              *)
LEMMA HookBeforeSave ==
  ASSUME TypeOK, RulesInv, StageInv,
         \/ Route \/ AddPrestartHook \/ AddCreateRuntimeHook \/ Discover
         \/ AddAcceleratorDevices \/ AddUverbsDevices \/ GenerateNetinfo \/ CopyGaudinet,
         pc' = "save", err' = NoError
  PROVE  HasHook(spec')
<1>1. cfg.mode \in {"oci", "legacy"} /\ spec \in SpecType /\ file.spec \in SpecType
  BY DEF TypeOK, ConfigType
<1>2. CASE Route
  BY <1>1, <1>2 DEF Route, Goto, HasHook, Gated, IsHabanaContainer
<1>3. CASE AddPrestartHook
  <2>1. spec' = AddHook(spec, "prestart") /\ cfg.mode = "legacy"
    BY <1>3 DEF AddPrestartHook, AddLifecycleHook, Goto, Fail, StageInv, NoError
  <2>. QED BY <1>1, <2>1 DEF AddHook, HasHook, HookOf, SpecType, Lifecycle
<1>4. CASE AddCreateRuntimeHook
  BY <1>4 DEF AddCreateRuntimeHook, AddLifecycleHook, Goto, Fail, NoError
<1>5. CASE Discover
  <2>1. spec' = AddHook(file.spec, "createRuntime") /\ cfg.mode = "oci"
    BY <1>5 DEF Discover, StageInv, Asked
  <2>. QED BY <1>1, <2>1 DEF AddHook, HasHook, HookOf, SpecType, Lifecycle
<1>6. CASE AddAcceleratorDevices \/ AddUverbsDevices
  <2>1. pc' # "save"
    BY <1>6, DevicesAdded
  <2>. QED BY <2>1
<1>7. CASE GenerateNetinfo \/ CopyGaudinet
  <2>1. spec.hooks["createRuntime"] > 0 /\ cfg.mode = "oci"
    BY <1>7 DEF GenerateNetinfo, CopyGaudinet, StageInv, AtDevices, Asked
  <2>2. spec'.hooks = spec.hooks
    BY <1>1, <1>7 DEF GenerateNetinfo, CopyGaudinet, Report, AddErrorEnvVar, SpecType
  <2>. QED BY <2>1, <2>2 DEF HasHook, HookOf
<1>. QED BY <1>2, <1>3, <1>4, <1>5, <1>6, <1>7

LEMMA HookStep == TypeOK /\ RulesInv /\ StageInv /\ HookInv /\ [Next]_vars => HookInv'
<1> SUFFICES ASSUME TypeOK, RulesInv, StageInv, HookInv, [Next]_vars PROVE HookInv'
  OBVIOUS
<1>1. CASE \/ Route \/ AddPrestartHook \/ AddCreateRuntimeHook \/ Discover
           \/ AddAcceleratorDevices \/ AddUverbsDevices \/ GenerateNetinfo \/ CopyGaudinet
  <2>1. cfg' = cfg /\ pc' \notin {"exec", "handed"}
    <3>1. cfg.mode \in {"oci", "legacy"} /\ Gated(spec) \in BOOLEAN
      BY DEF TypeOK, ConfigType, Gated, IsHabanaContainer
    <3>. QED BY <1>1, <3>1 DEF Route, AddPrestartHook, AddCreateRuntimeHook, AddLifecycleHook,
             Discover, AddAcceleratorDevices, AddUverbsDevices, AddDevices,
             GenerateNetinfo, CopyGaudinet, Goto
  <2>2. HasHook(spec') => HasHook(spec)'
    BY <2>1 DEF HasHook, Gated
  <2>. QED BY <1>1, <2>1, <2>2, HookBeforeSave DEF HookInv
<1>2. CASE SaveSpecs
  <2>1. saved' = "ok" => file'.spec = spec
    BY <1>2 DEF SaveSpecs
  <2>2. pc = "save" /\ cfg' = cfg /\ pc' = IF err = NoError THEN "exec" ELSE "exited"
    BY <1>2 DEF SaveSpecs, Goto
  <2>. QED BY <2>1, <2>2 DEF HookInv, HasHook, Gated
<1>3. CASE ExecRunc
  BY <1>3 DEF ExecRunc, Goto, HookInv, HasHook, Gated
<1>4. CASE Start
  BY <1>4 DEF Start, Goto, HookInv
<1>5. CASE \/ \E c \in Commands : Invoke(c)
           \/ StartFails \/ LoadSpecs \/ LoadFails \/ Kill
  BY <1>5 DEF Invoke, StartFails, LoadSpecs, LoadFails, Kill, Goto, HookInv
<1>6. CASE HostChange \/ UNCHANGED vars
  BY <1>6 DEF HostChange, vars, process, history, HookInv, HasHook, Gated
<1>. QED BY <1>1, <1>2, <1>3, <1>4, <1>5, <1>6 DEF Next, Step

LEMMA HandOverStep ==
  TypeInv /\ HandOverInv /\ [PipelineNext]_pipelineVars => HandOverInv'
<1> SUFFICES ASSUME TypeInv, HandOverInv, [PipelineNext]_pipelineVars PROVE HandOverInv'
  OBVIOUS
<1>1. CASE CLIGeneratesNetinfo
  <2>1. UNCHANGED <<cfg, file, pc, cmd, spec, ids, err, original, saved>>
    BY <1>1, NetinfoLeavesRest DEF process, history
  <2>2. StageInv'
    BY <2>1, SavesLater DEF HandOverInv, StageInv, AtDevices, Asked, Gated, Saves, Fails
  <2>. QED BY <2>1, <2>2 DEF HandOverInv, RulesInv, EnvInv, HookInv, HasHook, Gated
<1>2. CASE [Next]_vars
  BY <1>2, RulesStep, StageStep, EnvStep, HookStep DEF TypeInv, HandOverInv
<1>. QED BY <1>1, <1>2, RuntimeMoves

LEMMA HandOverInvariant == PipelineSpec => []HandOverInv
<1>1. PipelineInit => HandOverInv
  BY RulesInit, StageInit DEF PipelineInit, Init, HandOverInv, EnvInv, HookInv
<1>. QED BY <1>1, HandOverStep, TypeInvariant, PTL DEF PipelineSpec

(* Inside the whole creation, with runc, the hooks and the CLI on the same *)
(* bundle, the runtime keeps the contract of the create command.           *)
THEOREM PipelineImplements == PipelineSpec => ImplementsCreateCommand
<1>1. PipelineInit => Command!Init
  BY CommandInit DEF PipelineInit
<1>2. TypeInv /\ HandOverInv /\ [PipelineNext]_pipelineVars => [Command!Next]_Command!vars
  <2> SUFFICES ASSUME TypeInv, HandOverInv, [PipelineNext]_pipelineVars
               PROVE  [Command!Next]_Command!vars
    OBVIOUS
  <2>1. CASE CLIGeneratesNetinfo
    BY <2>1, NetinfoLeavesRest DEF process, Phase, Command!vars
  <2>2. CASE [Next]_vars
    BY <2>2, CommandStep DEF TypeInv, HandOverInv
  <2>. QED BY <2>1, <2>2, RuntimeMoves
<1>. QED BY <1>1, <1>2, TypeInvariant, HandOverInvariant, PTL
         DEF PipelineSpec, ImplementsCreateCommand, Command!Spec


------------------------------------------------------------------------------
(***************************************************************************)
(* Selection.  On a host whose accelerators have one digit each, the CLI   *)
(* chooses from what the hook passes on the nodes that the runtime's       *)
(* filter keeps, for every request in the documented form.                 *)
(***************************************************************************)
Selected == GetDevicesFromEnvvar(original.env)

Chosen == ParseDevices(Selected, PresentNodes(host))

OneDigit(nodes) == \A n \in nodes : LastDigit(n[2]) = n[2] /\ n[2] < 10

LEMMA SingleExtremes == ASSUME NEW i \in Nat PROVE Min({i}) = i /\ Max({i}) = i
BY DEF Min, Max

LEMMA OneDigitHost ==
  ASSUME TypeOK, Steadily
  PROVE  OneDigit(PresentNodes(host)) /\ \A h \in host.verbs : LastDigit(h) = h
<1>1. \A i \in Num : i \in Nat
  BY NumAssumption
<1>2. \A n \in PresentNodes(host) : n[2] \in Nat /\ n[2] < 10
  BY <1>1 DEF PresentNodes, Node, Steadily
<1>3. \A h \in host.verbs : h \in Nat /\ h < 10
  BY <1>1 DEF TypeOK, HostType, Steadily
<1>4. \A k \in Nat : k < 10 => k % 10 = k
  OBVIOUS
<1>. QED BY <1>2, <1>3, <1>4 DEF OneDigit, LastDigit

LEMMA SameNodesChosen ==
  ASSUME NEW s \in SpecType, PlainRequest(s.env), NEW nodes, OneDigit(nodes)
  PROVE  ParseDevices(GetDevicesFromEnvvar(s.env), nodes)
           = FilterDevicesByENV(s.env, AcceleratorDevices(nodes))
<1>1. CharDevices(nodes) = AcceleratorDevices(nodes)
  BY DEF CharDevices, AcceleratorDevices, OneDigit
<1>2. \A d \in AcceleratorDevices(nodes) : LastDigit(d[2]) = d[2]
  BY DEF AcceleratorDevices, OneDigit
<1>3. CASE EntriesOf(s.env, VisiblePrefixed) = {}
  <2>1. EntriesOf(s.env, {VisibleDevices}) = {}
    BY <1>3 DEF EntriesOf, VisiblePrefixed
  <2>. QED BY <1>1, <1>3, <2>1
           DEF FilterDevicesByENV, GetDevicesFromEnvvar, ParseDevices, Word
<1>4. ASSUME NEW i \in DOMAIN s.env,
             EntriesOf(s.env, VisiblePrefixed) = {i},
             s.env[i].name = VisibleDevices, s.env[i].eq,
             s.env[i].val.word \in {"all", "list"}
      PROVE  ParseDevices(GetDevicesFromEnvvar(s.env), nodes)
               = FilterDevicesByENV(s.env, AcceleratorDevices(nodes))
  <2>1. i \in Nat
    BY <1>4 DEF SpecType
  <2>2. EntriesOf(s.env, {VisibleDevices}) = {i}
    BY <1>4 DEF EntriesOf, VisiblePrefixed
  <2>3. GetDevicesFromEnvvar(s.env) = s.env[i].val
    BY <1>4, <2>1, <2>2, SingleExtremes DEF GetDevicesFromEnvvar
  <2>4. FilterDevicesByENV(s.env, AcceleratorDevices(nodes))
          = IF s.env[i].val.word = "all" THEN AcceleratorDevices(nodes)
            ELSE {d \in AcceleratorDevices(nodes) :
                    LastDigit(d[2]) \in Tokens(s.env[i].val)}
    BY <1>4, <2>1, SingleExtremes DEF FilterDevicesByENV
  <2>. QED BY <1>1, <1>2, <2>3, <2>4 DEF ParseDevices
<1>. QED BY <1>3, <1>4 DEF PlainRequest

LEMMA FilterByNumber ==
  ASSUME NEW env, NEW devs, NEW d \in FilterDevicesByENV(env, devs), NEW n \in devs,
         n[2] = d[2]
  PROVE  n \in FilterDevicesByENV(env, devs)
BY DEF FilterDevicesByENV

LEMMA ChosenAreRequested ==
  ASSUME TypeOK, Steadily
  PROVE  /\ DevicesIDs(Chosen) = Requested
         /\ \A n \in PresentNodes(host) : n[1] # "uverb" /\ n[2] \in Requested => n \in Chosen
         /\ CharDevices(PresentNodes(host)) = {} => Requested = {}
         /\ Requested # {} => ExposedHlibs(Requested, host.verbs) = Requested \cap host.verbs
<1> DEFINE nodes == PresentNodes(host)
           kept  == FilterDevicesByENV(original.env, AcceleratorDevices(nodes))
<1>1. OneDigit(nodes) /\ \A h \in host.verbs : LastDigit(h) = h
  BY OneDigitHost
<1>2. Chosen = kept
  BY <1>1, SameNodesChosen DEF Chosen, Selected, Steadily, TypeOK
<1>3. Requested = DevicesIDs(kept)
  BY DEF Requested, RequestedDevices
<1>4. kept \subseteq AcceleratorDevices(nodes) /\ AcceleratorDevices(nodes) \subseteq nodes
  BY FilterSelects DEF AcceleratorDevices
<1>5. ASSUME NEW n \in nodes, n[1] # "uverb", n[2] \in Requested
      PROVE  n \in Chosen
  <2>1. n \in AcceleratorDevices(nodes)
    BY <1>5 DEF AcceleratorDevices, PresentNodes, Node, Kind
  <2>2. PICK d \in kept : LastDigit(d[2]) = n[2]
    BY <1>3, <1>5 DEF DevicesIDs
  <2>3. d[2] = n[2]
    BY <1>1, <1>4, <2>2 DEF OneDigit
  <2>. QED BY <1>2, <2>1, <2>3, FilterByNumber
<1>6. CharDevices(nodes) = {} => Requested = {}
  BY <1>1, <1>3, <1>4 DEF CharDevices, OneDigit, DevicesIDs
<1>7. Requested # {} => ExposedHlibs(Requested, host.verbs) = Requested \cap host.verbs
  BY <1>1 DEF ExposedHlibs
<1>. QED BY <1>2, <1>3, <1>5, <1>6, <1>7


------------------------------------------------------------------------------
(***************************************************************************)
(* The life of a container.  From the moment runc loads config.json the    *)
(* runtime has no step left for it: the bundle stays as it is, and so does *)
(* the host unless it changes, after which the container is not steady.    *)
(***************************************************************************)
RunInv ==
  /\ runc # "idle" => pc = "handed" /\ cmd = "create"
  /\ runc = "started" => \A l \in Lifecycle : pending[l] = 0

LifeStep ==
  \/ RuncStep \/ RuncRemoves \/ ToolWorks \/ ToolBreaks
  \/ \E i \in Num : OtherContainer(i)
  \/ UNCHANGED pipeline

LEMMA HandedIsTheEnd == ASSUME pc = "handed" PROVE ~Step /\ ~Kill
BY DEF Step, StartFails, Start, LoadSpecs, LoadFails, Route, AddPrestartHook,
   AddCreateRuntimeHook, AddLifecycleHook, Discover, AddAcceleratorDevices,
   AddUverbsDevices, GenerateNetinfo, CopyGaudinet, SaveSpecs, ExecRunc, Kill, Resting

LEMMA RunStep == RunInv /\ HooksRun /\ [PipelineNext]_pipelineVars => RunInv'
<1> SUFFICES ASSUME RunInv, HooksRun, [PipelineNext]_pipelineVars PROVE RunInv'
  OBVIOUS
<1>1. CASE RuntimeInvoked
  BY <1>1 DEF RuntimeInvoked, RunInv
<1>2. CASE RuntimeStep \/ EnvironmentStep
  <2>1. UNCHANGED <<runc, pending>>
    BY <1>2 DEF RuntimeStep, EnvironmentStep, pipeline
  <2>2. runc # "idle" => UNCHANGED <<pc, cmd>>
    BY <1>2, HandedIsTheEnd
       DEF RuntimeStep, EnvironmentStep, HostChange, process, RunInv
  <2>. QED BY <2>1, <2>2 DEF RunInv
<1>3. CASE RuncStep \/ RuncRemoves
  <2>1. UNCHANGED <<pc, cmd>>
    BY <1>3 DEF RuncStep, RuncLoads, RuncRunsHook, RuncSeesHookEnd, RuncStarts,
       RuncRemoves, vars, process
  <2>. QED BY <1>3, <2>1 DEF RuncStep, RuncLoads, RuncRunsHook, RuncSeesHookEnd, RuncStarts,
           RuncRemoves, RunInv, HooksRun
<1>4. CASE ToolWorks \/ ToolBreaks \/ \E i \in Num : OtherContainer(i)
  <2>1. UNCHANGED <<runc, pending>>
    BY <1>4 DEF ToolWorks, HookReadsContainer, CLIParsesFlags, CLIParsesDevices,
       CLIFindsCgroup, CLIMountsAccelerators, CLIMountsUverbs, HandleMounts,
       CLIGeneratesNetinfo, CLIListsInterfaces, CLICreatesLink, CLIConfiguresLink,
       CLIReturns, ToolBreaks, ToolFails, ToolKilled, CLIFailsInNamespace, OtherContainer
  <2>2. UNCHANGED <<pc, cmd>>
    BY <1>4, ToolsLeaveRuntime, NetinfoLeavesRest DEF vars, process
  <2>. QED BY <2>1, <2>2 DEF RunInv
<1>5. CASE UNCHANGED pipelineVars
  BY <1>5 DEF pipelineVars, pipeline, vars, process, RunInv
<1>. QED BY <1>1, <1>2, <1>3, <1>4, <1>5 DEF PipelineNext

LEMMA GivenStays == ASSUME [PipelineNext]_pipelineVars PROVE UNCHANGED given
<1>1. CASE RuncStep \/ RuncRemoves
  BY <1>1 DEF RuncStep, RuncLoads, RuncRunsHook, RuncSeesHookEnd, RuncStarts, RuncRemoves
<1>2. CASE ToolWorks
  BY <1>2 DEF ToolWorks, HookReadsContainer, CLIParsesFlags, CLIParsesDevices,
     CLIFindsCgroup, CLIMountsAccelerators, CLIMountsUverbs, HandleMounts,
     CLIGeneratesNetinfo, CLIListsInterfaces, CLICreatesLink, CLIConfiguresLink, CLIReturns
<1>3. CASE ToolBreaks \/ \E i \in Num : OtherContainer(i)
  BY <1>3 DEF ToolBreaks, ToolFails, ToolKilled, CLIFailsInNamespace, OtherContainer
<1>4. CASE RuntimeInvoked \/ RuntimeStep \/ EnvironmentStep \/ UNCHANGED pipelineVars
  BY <1>4 DEF RuntimeInvoked, RuntimeStep, EnvironmentStep, pipelineVars, pipeline
<1>. QED BY <1>1, <1>2, <1>3, <1>4 DEF PipelineNext

LEMMA SteadyLife ==
  ASSUME RunInv, [PipelineNext]_pipelineVars, runc' # "idle", Steadily'
  PROVE  /\ LifeStep /\ Steadily
         /\ UNCHANGED <<cfg, host, file, original, hookCfg, network, interface, place>>
         /\ UNCHANGED <<Requested, Selected, Chosen>>
<1>1. LifeStep /\ UNCHANGED <<cfg, host, file, original, saved, calm>>
  <2>1. CASE RuntimeInvoked
    BY <2>1 DEF RuntimeInvoked
  <2>2. CASE RuntimeStep
    BY <2>2, HandedIsTheEnd DEF RuntimeStep, pipeline, RunInv
  <2>3. CASE EnvironmentStep
    BY <2>3, HandedIsTheEnd DEF EnvironmentStep, HostChange, Steadily, pipeline, RunInv
  <2>4. CASE UNCHANGED pipelineVars
    BY <2>4 DEF pipelineVars, vars, history, LifeStep
  <2>5. CASE CLIGeneratesNetinfo
    BY <2>5, NetinfoLeavesRest DEF history, LifeStep, ToolWorks
  <2>6. CASE /\ UNCHANGED vars
             /\ \/ RuncStep \/ RuncRemoves \/ ToolWorks \/ ToolBreaks
                \/ \E i \in Num : OtherContainer(i)
    BY <2>6 DEF vars, history, LifeStep
  <2>. QED BY <2>1, <2>2, <2>3, <2>4, <2>5, <2>6, ToolsLeaveRuntime DEF PipelineNext
<1>2. Steadily
  BY <1>1 DEF Steadily, Gated, PresentNodes
<1>. QED BY <1>1, <1>2, GivenStays DEF given, Requested, Selected, Chosen


------------------------------------------------------------------------------
(***************************************************************************)
(* The hook and the CLI carry the runtime's selection through their stages *)
(***************************************************************************)
Parsed == {"cgroup", "accelerators", "uverbs", "netinfo", "list", "links", "namespace"}

Served == Requested \cap host.verbs

SelectionInv ==
  Steadily =>
    /\ tool \in {"flags", "parse"} => flag = Selected
    /\ tool \in Parsed => accels = Chosen /\ verbs = Served

LEMMA SelectionSteps ==
  ASSUME TypeOK, EnvInv, Steadily, SelectionInv, LifeStep,
         UNCHANGED <<Requested, Selected, Chosen, host>>
  PROVE  SelectionInv'
<1>s. Served' = Served
  BY DEF Served
<1>1. CASE HookReadsContainer
  <2>1. tool' \in {"flags", "failed"} /\ (tool' = "flags" => flag' = Selected)
    BY <1>1 DEF HookReadsContainer, EnvInv, Selected
  <2>. QED BY <2>1 DEF SelectionInv, Parsed
<1>2. CASE CLIParsesFlags
  BY <1>2 DEF CLIParsesFlags, hook, SelectionInv, Parsed
<1>3. CASE CLIParsesDevices
  <2>1. flag = Selected
    BY <1>3 DEF CLIParsesDevices, SelectionInv
  <2>2. DevicesIDs(Chosen) = Requested
    BY ChosenAreRequested
  <2>3. \/ tool' \in {"done", "failed"}
        \/ tool' \in {"cgroup", "list"} /\ accels' = Chosen /\ verbs' = Served
    BY <1>3, <2>1, <2>2 DEF CLIParsesDevices, Chosen, Served
  <2>. QED BY <1>s, <2>3 DEF SelectionInv, Parsed
<1>4. CASE \/ CLIFindsCgroup \/ CLIMountsAccelerators \/ CLIMountsUverbs
           \/ CLIGeneratesNetinfo \/ CLIListsInterfaces \/ CLIReturns
           \/ \E i \in Num : CLICreatesLink(i) \/ CLIConfiguresLink(i)
  <2>1. tool \in Parsed /\ UNCHANGED <<accels, verbs>>
    BY <1>4 DEF CLIFindsCgroup, CLIMountsAccelerators, CLIMountsUverbs, HandleMounts,
       CLIGeneratesNetinfo, CLIListsInterfaces, CLIReturns, CLICreatesLink,
       CLIConfiguresLink, Parsed, cli
  <2>2. tool' \notin {"flags", "parse"}
    BY <1>4 DEF CLIFindsCgroup, CLIMountsAccelerators, CLIMountsUverbs, HandleMounts,
       CLIGeneratesNetinfo, CLIListsInterfaces, CLIReturns, CLICreatesLink,
       CLIConfiguresLink, Return
  <2>. QED BY <1>s, <2>1, <2>2 DEF SelectionInv
<1>5. CASE ToolBreaks
  <2>1. tool' = "failed"
    BY <1>5 DEF ToolBreaks, ToolFails, ToolKilled, CLIFailsInNamespace, Return
  <2>. QED BY <2>1 DEF SelectionInv, Parsed
<1>6. CASE RuncStep
  <2>1. \/ tool' \in {"hook", "idle"}
        \/ UNCHANGED <<tool, flag, accels, verbs>>
    BY <1>6 DEF RuncStep, RuncLoads, RuncRunsHook, RuncSeesHookEnd, RuncStarts, hook, cli
  <2>. QED BY <1>s, <2>1 DEF SelectionInv, Parsed
<1>7. CASE RuncRemoves \/ (\E i \in Num : OtherContainer(i)) \/ UNCHANGED pipeline
  <2>1. UNCHANGED <<tool, flag, accels, verbs>>
    BY <1>7 DEF RuncRemoves, OtherContainer, pipeline, hook, cli
  <2>. QED BY <1>s, <2>1 DEF SelectionInv
<1>. QED BY <1>1, <1>2, <1>3, <1>4, <1>5, <1>6, <1>7 DEF LifeStep, ToolWorks

LEMMA SelectionStep ==
  TypeOK /\ EnvInv /\ HooksRun' /\ RunInv /\ SelectionInv /\ [PipelineNext]_pipelineVars
    => SelectionInv'
<1> SUFFICES ASSUME TypeOK, EnvInv, HooksRun', RunInv, SelectionInv,
                    [PipelineNext]_pipelineVars, Steadily'
             PROVE  SelectionInv'
  BY DEF SelectionInv
<1>1. CASE runc' = "idle"
  BY <1>1 DEF HooksRun, SelectionInv, Parsed
<1>2. CASE runc' # "idle"
  BY <1>2, SteadyLife, SelectionSteps
<1>. QED BY <1>1, <1>2

------------------------------------------------------------------------------
(***************************************************************************)
(* The device nodes.  The prestart hook mounts and opens the accelerators' *)
(* nodes, then the infiniband nodes; nothing closes one again or frees a   *)
(* path that is taken, so they are open, or skipped, from the moment runc  *)
(* counts a prestart hook as done.                                         *)
(***************************************************************************)
Opened == taken \cup {n \in Node : inside[n] = "open"}

AcceleratorsOpen ==
  place.grouped /\ hookCfg.mountAccelerators =>
    \A n \in PresentNodes(host) : n[1] # "uverb" /\ n[2] \in Requested => n \in Opened

UverbsOpen ==
  place.grouped /\ hookCfg.mountUverbs =>
    \A n \in PresentNodes(host) : n[1] = "uverb" /\ n[2] \in Served => n \in Opened

PastUverbs == {"netinfo", "list", "links", "namespace", "done"}

MountInv ==
  Steadily /\ runc \in {"hooks", "started"} =>
    /\ lifecycle = "prestart" /\ tool \in {"uverbs"} \cup PastUverbs => AcceleratorsOpen
    /\ lifecycle = "prestart" /\ tool \in PastUverbs => UverbsOpen
    /\ pending["prestart"] # file.spec.hooks["prestart"] => AcceleratorsOpen /\ UverbsOpen

LEMMA OpenStays ==
  ASSUME UNCHANGED <<Requested, host, hookCfg, place>>, Opened \subseteq Opened'
  PROVE  /\ AcceleratorsOpen => AcceleratorsOpen'
         /\ UverbsOpen => UverbsOpen'
BY DEF AcceleratorsOpen, UverbsOpen, PresentNodes, Served

LEMMA NodesOpen ==
  ASSUME PipelineTypeOK, NEW files, NEW mounted, NEW opened,
         NodesBecome(files, mounted, opened)
  PROVE  Opened \subseteq Opened' /\ Node \cap mounted \cap opened \subseteq Opened'
<1>1. taken \subseteq taken'
  BY DEF NodesBecome, TakePaths
<1>2. ASSUME NEW n \in Node, inside[n] = "open" PROVE inside'[n] = "open"
  BY <1>2 DEF NodesBecome
<1>3. ASSUME NEW n \in Node \cap mounted \cap opened
      PROVE  n \in taken \/ inside'[n] = "open"
  BY DEF NodesBecome
<1>. QED BY <1>1, <1>2, <1>3 DEF Opened

(* What handleMounts leaves when it succeeds.                              *)
LEMMA MountsOpen ==
  ASSUME PipelineTypeOK, NEW enabled, NEW nodes, NEW next,
         HandleMounts(enabled, nodes, next)
  PROVE  /\ Opened \subseteq Opened'
         /\ tool' \in {next, "failed"}
         /\ tool' # "failed" /\ place.grouped /\ enabled => Node \cap nodes \subseteq Opened'
<1>1. tool' \in {next, "failed"}
  BY DEF HandleMounts
<1>2. CASE UNCHANGED container /\ ~enabled
  BY <1>1, <1>2 DEF container, Opened
<1>3. CASE NodesBecome(nodes, nodes, Openable(nodes))
  BY <1>1, <1>3, NodesOpen DEF Openable
<1>4. CASE tool' = "failed" /\ \E files, mounted, opened : NodesBecome(files, mounted, opened)
  BY <1>1, <1>4, NodesOpen
<1>. QED BY <1>2, <1>3, <1>4 DEF HandleMounts

LEMMA ToolsMount ==
  ASSUME TypeOK, PipelineTypeOK, Steadily, SelectionInv, MountInv, runc = "hooks",
         ToolWorks, UNCHANGED <<Requested, host, hookCfg, place, file>>
  PROVE  MountInv'
<1>1. UNCHANGED <<runc, pending, lifecycle>>
  BY DEF ToolWorks, HookReadsContainer, CLIParsesFlags, CLIParsesDevices, CLIFindsCgroup,
     CLIMountsAccelerators, CLIMountsUverbs, HandleMounts, CLIGeneratesNetinfo,
     CLIListsInterfaces, CLICreatesLink, CLIConfiguresLink, CLIReturns, hook
<1>2. CASE CLIMountsAccelerators
  <2>1. /\ accels = Chosen
        /\ HandleMounts(hookCfg.mountAccelerators, accels, "uverbs")
    BY <1>2 DEF CLIMountsAccelerators, SelectionInv, Parsed
  <2>2. /\ Opened \subseteq Opened' /\ tool' \in {"uverbs", "failed"}
        /\ tool' = "uverbs" /\ place.grouped /\ hookCfg.mountAccelerators =>
             Node \cap Chosen \subseteq Opened'
    BY <2>1, MountsOpen
  <2>3. tool' = "uverbs" => AcceleratorsOpen'
    BY <2>2, ChosenAreRequested DEF AcceleratorsOpen, PresentNodes
  <2>. QED BY <1>1, <2>2, <2>3, OpenStays DEF MountInv, PastUverbs
<1>3. CASE CLIMountsUverbs
  <2>1. /\ verbs = Served /\ tool = "uverbs"
        /\ HandleMounts(hookCfg.mountUverbs, {"uverb"} \X verbs, "netinfo")
    BY <1>3 DEF CLIMountsUverbs, SelectionInv, Parsed
  <2>2. /\ Opened \subseteq Opened' /\ tool' \in {"netinfo", "failed"}
        /\ tool' = "netinfo" /\ place.grouped /\ hookCfg.mountUverbs =>
             Node \cap ({"uverb"} \X Served) \subseteq Opened'
    BY <2>1, MountsOpen
  <2>3. tool' = "netinfo" => UverbsOpen'
    <3> SUFFICES ASSUME tool' = "netinfo", place.grouped, hookCfg.mountUverbs,
                        NEW n \in PresentNodes(host), n[1] = "uverb", n[2] \in Served
                 PROVE  n \in Opened'
      BY DEF UverbsOpen, Served, PresentNodes
    <3>1. n \in Node /\ n \in {"uverb"} \X Served
      BY DEF PresentNodes, Node
    <3>. QED BY <2>2, <3>1
  <2>. QED BY <1>1, <2>1, <2>2, <2>3, OpenStays DEF MountInv, PastUverbs
<1>4. CASE CLIParsesDevices
  <2>1. UNCHANGED Opened /\ (tool' = "done" => CharDevices(PresentNodes(host)) = {})
    BY <1>4 DEF CLIParsesDevices, container, Opened
  <2>2. tool' = "done" => AcceleratorsOpen' /\ UverbsOpen'
    BY <2>1, ChosenAreRequested DEF AcceleratorsOpen, UverbsOpen, Served
  <2>3. lifecycle = "prestart" => tool' \in {"done", "failed", "cgroup"}
    BY <1>4 DEF CLIParsesDevices
  <2>. QED BY <1>1, <2>1, <2>2, <2>3, OpenStays DEF MountInv, PastUverbs
<1>5. CASE HookReadsContainer \/ CLIParsesFlags \/ CLIFindsCgroup
  <2>1. UNCHANGED Opened /\ tool' \in {"flags", "parse", "failed", "accelerators"}
    BY <1>5 DEF HookReadsContainer, CLIParsesFlags, CLIFindsCgroup, container, Opened
  <2>. QED BY <1>1, <2>1, OpenStays DEF MountInv, PastUverbs
<1>6. CASE \/ CLIGeneratesNetinfo \/ CLIListsInterfaces \/ CLIReturns
           \/ \E i \in Num : CLICreatesLink(i) \/ CLIConfiguresLink(i)
  <2>1. UNCHANGED Opened /\ tool \in PastUverbs
    BY <1>6 DEF CLIGeneratesNetinfo, CLIListsInterfaces, CLIReturns, CLICreatesLink,
       CLIConfiguresLink, PastUverbs, container, Opened
  <2>. QED BY <1>1, <2>1, OpenStays DEF MountInv
<1>. QED BY <1>2, <1>3, <1>4, <1>5, <1>6 DEF ToolWorks

LEMMA MountStep ==
  /\ TypeInv /\ HooksRun /\ HooksRun' /\ RunInv /\ SelectionInv /\ MountInv
  /\ [PipelineNext]_pipelineVars
  => MountInv'
<1> SUFFICES ASSUME TypeInv, HooksRun, HooksRun', RunInv, SelectionInv, MountInv,
                    [PipelineNext]_pipelineVars, Steadily', runc' \in {"hooks", "started"}
             PROVE  MountInv'
  BY DEF MountInv
<1>1. /\ LifeStep /\ Steadily
      /\ UNCHANGED <<cfg, host, file, hookCfg, place, Requested>>
  BY SteadyLife
<1>2. CASE RuncLoads
  <2>1. tool' = "idle" /\ pending' = file.spec.hooks
    BY <1>2 DEF RuncLoads, HooksRun
  <2>. QED BY <1>1, <2>1 DEF MountInv, PastUverbs
<1>3. CASE RuncSeesHookEnd
  <2>1. CASE tool = "done"
    <3>1. /\ UNCHANGED <<Opened, runc, lifecycle>> /\ tool' = "idle" /\ runc = "hooks"
          /\ pending' = [pending EXCEPT ![lifecycle] = @ - 1]
      BY <1>3, <2>1 DEF RuncSeesHookEnd, hook, HooksRun, container, Opened
    <3>2. lifecycle = "prestart" => AcceleratorsOpen /\ UverbsOpen
      BY <1>1, <2>1, <3>1 DEF MountInv, PastUverbs
    <3>3. lifecycle # "prestart" => pending'["prestart"] = pending["prestart"]
      BY <3>1 DEF TypeInv, PipelineTypeOK
    <3>. QED BY <1>1, <3>1, <3>2, <3>3, OpenStays DEF MountInv, PastUverbs
  <2>2. CASE tool # "done"
    BY <1>3, <2>2 DEF RuncSeesHookEnd
  <2>. QED BY <2>1, <2>2
<1>4. CASE (\E l \in Lifecycle : RuncRunsHook(l)) \/ RuncStarts
  <2>1. UNCHANGED <<Opened, pending>> /\ runc = "hooks" /\ tool' \in {"hook", "idle"}
    BY <1>4 DEF RuncRunsHook, RuncStarts, container, Opened
  <2>. QED BY <1>1, <2>1, OpenStays DEF MountInv, PastUverbs
<1>5. CASE RuncRemoves
  BY <1>5 DEF RuncRemoves
<1>6. CASE ToolWorks
  <2>1. runc = "hooks"
    BY <1>6 DEF ToolWorks, HookReadsContainer, CLIParsesFlags, CLIParsesDevices,
       CLIFindsCgroup, CLIMountsAccelerators, CLIMountsUverbs, CLIGeneratesNetinfo,
       CLIListsInterfaces, CLICreatesLink, CLIConfiguresLink, CLIReturns, HooksRun
  <2>. QED BY <1>1, <1>6, <2>1, ToolsMount DEF TypeInv
<1>7. CASE ToolBreaks
  <2>1. UNCHANGED <<Opened, pending, runc>> /\ tool' = "failed"
    BY <1>7 DEF ToolBreaks, ToolFails, ToolKilled, CLIFailsInNamespace, Return, container,
       Opened
  <2>. QED BY <1>1, <2>1, OpenStays DEF MountInv, PastUverbs
<1>8. CASE (\E i \in Num : OtherContainer(i)) \/ UNCHANGED pipeline
  <2>1. UNCHANGED <<Opened, pending, runc, tool, lifecycle>>
    BY <1>8 DEF OtherContainer, pipeline, hook, container, Opened
  <2>. QED BY <1>1, <2>1, OpenStays DEF MountInv
<1>. QED BY <1>1, <1>2, <1>3, <1>4, <1>5, <1>6, <1>7, <1>8 DEF LifeStep, RuncStep


LEMMA LifeInvariant == PipelineSpec => [](RunInv /\ SelectionInv /\ MountInv)
<1>1. PipelineInit => RunInv /\ SelectionInv /\ MountInv
  BY DEF PipelineInit, RunInv, SelectionInv, MountInv, Parsed
<1>2. TypeInv /\ HandOverInv => TypeOK /\ EnvInv
  BY DEF TypeInv, HandOverInv
<1>3. LinkInv => HooksRun
  BY DEF LinkInv
<1>. QED BY <1>1, <1>2, <1>3, RunStep, SelectionStep, MountStep, TypeInvariant,
         HandOverInvariant, LinkInvariant, PTL DEF PipelineSpec

(* A steady container has the hook of its mode when runc runs it, unless   *)
(* the save failed.                                                        *)
LEMMA HookIsThere ==
  ASSUME HandOverInv, RunInv, Steadily, runc # "idle"
  PROVE  file.spec.hooks[HookOf(cfg.mode)] > 0
BY DEF HandOverInv, HookInv, EnvInv, RunInv, HasHook, Steadily, Gated

(* In legacy mode a container that runs has, usable, the nodes of the      *)
(* accelerators it requested and of the infiniband devices attached to     *)
(* them: the runtime's hook was in config.json and runc ran it, and what   *)
(* the hook and the CLI selected on their own is what the runtime would    *)
(* have added (main.go:123-140; habana-container-cli main.go:223-386).     *)
(* A node is skipped only where the root file system has its path already. *)
THEOREM LegacyDevicesMounted == PipelineSpec => []LegacyHookMountsDevices
<1>1. TypeInv /\ HandOverInv /\ RunInv /\ MountInv => LegacyHookMountsDevices
  <2> SUFFICES ASSUME TypeInv, HandOverInv, RunInv, MountInv,
                      StartedSteadily, cfg.mode = "legacy", place.grouped
               PROVE  \A n \in PresentNodes(host) \ taken :
                        n[2] \in Requested /\ Mountable(n) => inside[n] = "open"
    BY DEF LegacyHookMountsDevices
  <2>1. file.spec.hooks["prestart"] > 0
    BY HookIsThere DEF StartedSteadily, HookOf
  <2>2. pending["prestart"] = 0
    BY DEF RunInv, StartedSteadily, Lifecycle
  <2>3. AcceleratorsOpen /\ UverbsOpen
    BY <2>1, <2>2 DEF MountInv, StartedSteadily
  <2>. QED BY <2>3 DEF AcceleratorsOpen, UverbsOpen, Opened, Served, Mountable
<1>. QED BY <1>1, LifeInvariant, TypeInvariant, HandOverInvariant, PTL

------------------------------------------------------------------------------
(***************************************************************************)
(* The interfaces.  exposeInterfaces is all or nothing for a container in  *)
(* a namespace of its own: before its loop the container has no interface, *)
(* or all of them from an earlier hook; within the loop it has those that  *)
(* are not in todo; after it, all.  Until runc loads config.json and after *)
(* the container is removed, no interface is the container's.              *)
(***************************************************************************)
Target == {i \in Served : interface[i] # "down"}

Early == {"hook", "flags", "parse", "cgroup", "accelerators", "uverbs", "netinfo", "list"}

NoneLeft == network = "own" /\ runc \in {"idle", "gone"} => Ours = {}

ServedAt ==
  /\ tool = "idle" => Named = Target \/ (Named = {} /\ pending = file.spec.hooks)
  /\ tool \in Early => Named \in {{}, Target}
  /\ tool = "links" => todo \subseteq Served /\ Named \in {Target \ todo, Target}
  /\ tool = "namespace" =>
       todo \subseteq Served /\ current \subseteq todo \cap Target /\ Named = Target \ todo
  /\ tool = "done" => Named = Target

InterfaceInv ==
  Steadily /\ network = "own" /\ Requested # {} =>
    /\ runc = "hooks" => ServedAt
    /\ runc = "started" => Named = Target

LEMMA NoneLeftStep ==
  LinkType /\ HooksRun /\ NoneLeft /\ [PipelineNext]_pipelineVars => NoneLeft'
<1> SUFFICES ASSUME LinkType, HooksRun, NoneLeft, [PipelineNext]_pipelineVars,
                    network = "own", runc' \in {"idle", "gone"}
             PROVE  Ours' = {}
  BY GivenStays DEF NoneLeft, given
<1>1. CASE RuncRemoves
  BY <1>1 DEF RuncRemoves, Ours
<1>2. CASE \E i \in Num : OtherContainer(i)
  <2>1. PICK i \in Num : OtherContainer(i)
    BY <1>2
  <2>2. link' = [link EXCEPT ![i] = IF @ = "free" THEN "other" ELSE "free"] /\ runc' = runc
    BY <2>1 DEF OtherContainer
  <2>. QED BY <2>2 DEF NoneLeft, Ours, LinkType
<1>3. CASE RuntimeInvoked
  BY <1>3 DEF RuntimeInvoked, NoneLeft, Ours
<1>4. CASE RuncStep
  <2>1. UNCHANGED link /\ runc' # "gone" /\ (runc' = "idle" => runc = "idle")
    BY <1>4 DEF RuncStep, RuncLoads, RuncRunsHook, RuncSeesHookEnd, RuncStarts, HooksRun
  <2>. QED BY <2>1 DEF NoneLeft, Ours
<1>5. CASE ToolWorks \/ ToolBreaks
  <2>1. UNCHANGED runc /\ tool # "idle"
    BY <1>5 DEF ToolWorks, HookReadsContainer, CLIParsesFlags, CLIParsesDevices,
       CLIFindsCgroup, CLIMountsAccelerators, CLIMountsUverbs, HandleMounts,
       CLIGeneratesNetinfo, CLIListsInterfaces, CLICreatesLink, CLIConfiguresLink,
       CLIReturns, ToolBreaks, ToolFails, ToolKilled, CLIFailsInNamespace
  <2>. QED BY <2>1 DEF HooksRun
<1>6. CASE RuntimeStep \/ EnvironmentStep \/ UNCHANGED pipelineVars
  BY <1>6 DEF RuntimeStep, EnvironmentStep, pipelineVars, pipeline, NoneLeft, Ours
<1>. QED BY <1>1, <1>2, <1>3, <1>4, <1>5, <1>6 DEF PipelineNext

LEMMA TargetStays ==
  ASSUME UNCHANGED <<Requested, host, interface>>
  PROVE  Served' = Served /\ Target' = Target
BY DEF Target, Served


LEMMA LoopServes ==
  ASSUME LinkType, network = "own", ServedAt, NEW i \in Num,
         CLICreatesLink(i) \/ CLIConfiguresLink(i),
         UNCHANGED <<Served, Target>>, Target = {j \in Served : interface[j] # "down"}
  PROVE  ServedAt'
<1>1. CASE CLICreatesLink(i)
  <2>1. tool = "links" /\ i \in todo /\ todo \subseteq Served
        /\ Named \in {Target \ todo, Target}
    BY <1>1 DEF CLICreatesLink, ServedAt
  <2>2. CASE interface[i] = "down" /\ todo' = todo \ {i} /\ UNCHANGED <<tool, link>>
    <3>1. Named' = Named /\ Target \ todo' = Target \ todo
      BY <2>2 DEF Named
    <3>. QED BY <2>1, <2>2, <3>1 DEF ServedAt, Early
  <2>3. CASE /\ interface[i] # "down" /\ link[i] = "free"
             /\ link' = [link EXCEPT ![i] = "temp"] /\ current' = {i}
             /\ tool' = "namespace" /\ UNCHANGED todo
    <3>1. Named' = Named /\ i \notin Named
      BY <2>3 DEF Named, LinkType
    <3>2. i \in Target
      BY <2>1, <2>3
    <3>3. Named = Target \ todo
      BY <2>1, <3>1, <3>2
    <3>. QED BY <2>1, <2>3, <3>1, <3>2, <3>3 DEF ServedAt, Early
  <2>4. CASE Return("failed")
    BY <2>4 DEF Return, ServedAt, Early
  <2>. QED BY <1>1, <2>2, <2>3, <2>4 DEF CLICreatesLink
<1>2. CASE CLIConfiguresLink(i)
  <2>1. /\ i \in todo /\ i \in Target /\ todo \subseteq Served /\ Named = Target \ todo
        /\ link' = [link EXCEPT ![i] = "named"]
        /\ tool' = "failed" \/ (tool' = "links" /\ todo' = todo \ {i})
    BY <1>2 DEF CLIConfiguresLink, ServedAt
  <2>2. Named' = Named \cup {i}
    BY <2>1 DEF Named, LinkType
  <2>3. tool' = "links" => Named' = Target \ todo' /\ todo' \subseteq Served
    BY <2>1, <2>2
  <2>. QED BY <2>1, <2>3 DEF ServedAt, Early
<1>. QED BY <1>1, <1>2

LEMMA ToolsServe ==
  ASSUME TypeOK, LinkType, network = "own", Steadily, Requested # {}, SelectionInv,
         ServedAt, ToolWorks, UNCHANGED <<Requested, host, interface>>
  PROVE  ServedAt'
<1>s. UNCHANGED <<Served, Target>>
  BY TargetStays
<1>1. CASE CLIParsesDevices
  <2>1. UNCHANGED link /\ (tool' = "done" => CharDevices(PresentNodes(host)) = {})
        /\ tool' \in {"done", "failed", "cgroup", "list"} /\ tool = "parse"
    BY <1>1 DEF CLIParsesDevices
  <2>2. tool' # "done" /\ Named' = Named
    BY <2>1, ChosenAreRequested DEF Named
  <2>. QED BY <1>s, <2>1, <2>2 DEF ServedAt, Early
<1>2. CASE \/ HookReadsContainer \/ CLIParsesFlags \/ CLIFindsCgroup
           \/ CLIMountsAccelerators \/ CLIMountsUverbs \/ CLIGeneratesNetinfo
  <2>1. UNCHANGED link /\ tool \in Early /\ tool' \in Early \cup {"failed"}
    BY <1>2 DEF HookReadsContainer, CLIParsesFlags, CLIFindsCgroup, CLIMountsAccelerators,
       CLIMountsUverbs, HandleMounts, CLIGeneratesNetinfo, Early
  <2>. QED BY <1>s, <2>1 DEF ServedAt, Early, Named
<1>3. CASE CLIListsInterfaces
  <2>1. /\ tool = "list" /\ tool' = "links" /\ UNCHANGED link
        /\ todo' = ExposedHlibs(DevicesIDs(accels), host.verbs)
    BY <1>3 DEF CLIListsInterfaces
  <2>2. todo' = Served
    BY <2>1, ChosenAreRequested DEF SelectionInv, Parsed, Served
  <2>3. Named' = Named /\ Named \in {{}, Target}
    BY <2>1 DEF Named, ServedAt, Early
  <2>4. Target \ Served = {}
    BY DEF Target
  <2>. QED BY <1>s, <2>1, <2>2, <2>3, <2>4 DEF ServedAt, Early
<1>4. CASE \E i \in Num : CLICreatesLink(i) \/ CLIConfiguresLink(i)
  BY <1>s, <1>4, LoopServes DEF Target
<1>5. CASE CLIReturns
  <2>1. /\ tool = "links" /\ todo = {} /\ tool' = "done"
        /\ link' = [i \in Num |-> link[i]]
    BY <1>5 DEF CLIReturns, Return
  <2>2. Named' = Named /\ Named = Target
    BY <2>1 DEF Named, ServedAt
  <2>. QED BY <1>s, <2>1, <2>2 DEF ServedAt, Early
<1>. QED BY <1>1, <1>2, <1>3, <1>4, <1>5 DEF ToolWorks

LEMMA InterfaceStep ==
  /\ TypeInv /\ HandOverInv /\ LinkInv /\ HooksRun' /\ RunInv /\ SelectionInv
  /\ NoneLeft /\ InterfaceInv /\ [PipelineNext]_pipelineVars
  => InterfaceInv'
<1> SUFFICES ASSUME TypeInv, HandOverInv, LinkInv, HooksRun', RunInv, SelectionInv,
                    NoneLeft, InterfaceInv, [PipelineNext]_pipelineVars, Steadily',
                    network' = "own", Requested' # {}, runc' \in {"hooks", "started"}
             PROVE  InterfaceInv'
  BY DEF InterfaceInv
<1>1. /\ LifeStep /\ Steadily /\ network = "own" /\ Requested # {}
      /\ UNCHANGED <<cfg, host, file, interface, Requested>>
  BY SteadyLife
<1>2. UNCHANGED <<Served, Target>>
  BY <1>1, TargetStays
<1>3. CASE RuncLoads
  <2>1. /\ tool' = "idle" /\ pending' = file.spec.hooks /\ Named = {} /\ UNCHANGED link
        /\ runc' = "hooks"
    BY <1>1, <1>3 DEF RuncLoads, LinkInv, HooksRun, NoneLeft, Ours, Named
  <2>. QED BY <1>1, <2>1 DEF InterfaceInv, ServedAt, Early, Named
<1>4. CASE RuncSeesHookEnd
  <2>1. /\ tool = "done" /\ tool' = "idle" /\ UNCHANGED <<runc, link>> /\ runc = "hooks"
    BY <1>4 DEF RuncSeesHookEnd, LinkInv, HooksRun
  <2>. QED BY <1>1, <1>2, <2>1 DEF InterfaceInv, ServedAt, Early, Named
<1>5. CASE \E l \in Lifecycle : RuncRunsHook(l)
  <2>1. /\ tool = "idle" /\ tool' = "hook" /\ UNCHANGED <<runc, link>> /\ runc = "hooks"
    BY <1>5 DEF RuncRunsHook
  <2>. QED BY <1>1, <1>2, <2>1 DEF InterfaceInv, ServedAt, Early, Named
<1>6. CASE RuncStarts
  <2>1. /\ tool = "idle" /\ runc = "hooks" /\ runc' = "started" /\ UNCHANGED link
        /\ \A l \in Lifecycle : pending[l] = 0
    BY <1>6 DEF RuncStarts
  <2>2. HookOf(cfg.mode) \in Lifecycle /\ file.spec.hooks[HookOf(cfg.mode)] > 0
    BY <1>1, <2>1, HookIsThere DEF HookOf, Lifecycle
  <2>3. pending # file.spec.hooks
    BY <2>1, <2>2
  <2>. QED BY <1>1, <1>2, <2>1, <2>3 DEF InterfaceInv, ServedAt, Named
<1>7. CASE RuncRemoves
  BY <1>7 DEF RuncRemoves
<1>8. CASE ToolWorks
  <2>1. runc = "hooks" /\ runc' = "hooks"
    BY <1>8 DEF ToolWorks, HookReadsContainer, CLIParsesFlags, CLIParsesDevices,
       CLIFindsCgroup, CLIMountsAccelerators, CLIMountsUverbs, HandleMounts,
       CLIGeneratesNetinfo, CLIListsInterfaces, CLICreatesLink, CLIConfiguresLink,
       CLIReturns, LinkInv, HooksRun
  <2>. QED BY <1>1, <1>8, <2>1, ToolsServe DEF TypeInv, LinkInv, InterfaceInv
<1>9. CASE ToolBreaks
  <2>1. tool' = "failed" /\ runc' = "hooks"
    BY <1>9 DEF ToolBreaks, ToolFails, ToolKilled, CLIFailsInNamespace, Return, HooksRun
  <2>. QED BY <2>1 DEF InterfaceInv, ServedAt, Early
<1>10. CASE \E i \in Num : OtherContainer(i)
  <2>1. PICK i \in Num : OtherContainer(i)
    BY <1>10
  <2>2. /\ link[i] \in {"free", "other"}
        /\ link' = [link EXCEPT ![i] = IF @ = "free" THEN "other" ELSE "free"]
        /\ UNCHANGED <<runc, tool, pending, todo, current>>
    BY <2>1 DEF OtherContainer, cli
  <2>3. Named' = Named
    BY <2>2 DEF Named, LinkInv, LinkType
  <2>. QED BY <1>1, <1>2, <2>2, <2>3 DEF InterfaceInv, ServedAt
<1>11. CASE UNCHANGED pipeline
  BY <1>1, <1>2, <1>11 DEF pipeline, cli, InterfaceInv, ServedAt, Named
<1>. QED BY <1>1, <1>3, <1>4, <1>5, <1>6, <1>7, <1>8, <1>9, <1>10, <1>11
         DEF LifeStep, RuncStep

(* Runtime, hook and CLI select the same accelerators, and a container     *)
(* that runs in a namespace of its own has the interface of each of them   *)
(* that is up, named, and no other: exposeInterfaces is all or nothing     *)
(* although other containers take interfaces at any time, and any call of  *)
(* it may fail (netdevices.go:52-195).                                     *)
THEOREM InterfacesOfDevices == PipelineSpec => []InterfacesMatchDevices
<1>1. PipelineInit => NoneLeft /\ InterfaceInv
  BY DEF PipelineInit, NoneLeft, InterfaceInv, Ours
<1>2. LinkInv => LinkType /\ HooksRun
  BY DEF LinkInv
<1>3. InterfaceInv => InterfacesMatchDevices
  BY DEF InterfaceInv, InterfacesMatchDevices, StartedSteadily, Target, Served
<1>. QED BY <1>1, <1>2, <1>3, NoneLeftStep, InterfaceStep, LinkInvariant, TypeInvariant,
         HandOverInvariant, LifeInvariant, PTL DEF PipelineSpec

==============================================================================

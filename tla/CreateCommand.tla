----------------------------- MODULE CreateCommand -----------------------------
(***************************************************************************)
(* What an engine relies on when it runs habana-container-runtime in place *)
(* of runc: a contract between the bundle's config.json before and after   *)
(* one invocation.  It says nothing of the steps in between, the host or   *)
(* the root file system.                                                   *)
(***************************************************************************)
EXTENDS BundleSpec

CONSTANTS
  Specs,    \* the OCI specifications an engine may write
  Configs   \* the configurations of the runtime

VARIABLES
  cfg,      \* config.toml
  bundle,   \* config.json: its specification, and whether a write tore it
  phase     \* "idle", "working", "saved", "running" (as runc), "failed", "killed"

vars == <<cfg, bundle, phase>>

Gate(s) == cfg.alwaysMount \/ IsHabanaContainer(s.env)

(* The other side of an addition: a hook without which no node is added,   *)
(* and only nodes of accelerators the environment selects.                 *)
AddsOnlyRequested(s, t) ==
  \A n \in Node : AddedTo(s, t, n) =>
    /\ cfg.mode = "oci"
    /\ n[2] \in MayRequest(s.env)
    /\ ~Has(s, n)
    /\ t.hooks["createRuntime"] > 0

(* What is added when runc runs: usable nodes, and both of an accelerator. *)
AddsUsable(s, t) ==
  \A n \in Node : AddedTo(s, t, n) =>
    /\ Usable(t, n)
    /\ n[1] \in {"accel", "ctl"} => Has(t, <<"accel", n[2]>>) /\ Has(t, <<"ctl", n[2]>>)

(* An invocation that read s may save t and then run runc or fail.         *)
Prepared(s, t, next) ==
  /\ Extends(t, s)
  /\ t # s => Gate(s)
  /\ cfg.mode = "legacy" => t \in {s, AddHook(s, "prestart")}
  /\ cfg.mode = "oci" => t.hooks["prestart"] = s.hooks["prestart"]
  /\ AddsOnlyRequested(s, t)
  /\ next = "saved" =>
       /\ AddsUsable(s, t)
       /\ t.error # s.error => t.error \in {"netinfo", "gaudinet"}
  /\ next = "failed" => t.error # NoError \/ t.linux # "full" \/ t = s

------------------------------------------------------------------------------
Init ==
  /\ cfg \in Configs
  /\ bundle \in [spec : Specs, torn : {FALSE}]
  /\ phase = "idle"

Begin ==
  /\ phase \in {"idle", "running", "failed", "killed"}
  /\ phase' = "working"
  /\ UNCHANGED <<cfg, bundle>>

(* A command that is not create is runc's alone.                           *)
PassOn ==
  /\ phase = "working"
  /\ phase' = "saved"
  /\ UNCHANGED <<cfg, bundle>>

GiveUp ==
  /\ phase = "working"
  /\ phase' = "failed"
  /\ UNCHANGED <<cfg, bundle>>

(* Torn is what a failing write leaves; what was torn is not prepared.     *)
Prepare ==
  /\ phase = "working" /\ ~bundle.torn
  /\ phase' \in {"saved", "failed"}
  /\ \/ ~bundle'.torn /\ Prepared(bundle.spec, bundle'.spec, phase')
     \/ bundle' = bundle
     \/ bundle' = [bundle EXCEPT !.torn = TRUE]
  /\ UNCHANGED cfg

Become ==
  /\ phase = "saved"
  /\ phase' \in {"running", "failed"}
  /\ UNCHANGED <<cfg, bundle>>

Kill ==
  /\ phase \in {"working", "saved"}
  /\ phase' = "killed"
  /\ \/ bundle' = bundle
     \/ phase = "working" /\ ~bundle.torn /\ bundle' = [bundle EXCEPT !.torn = TRUE]
  /\ UNCHANGED cfg

Next == Begin \/ PassOn \/ GiveUp \/ Prepare \/ Become \/ Kill

Spec == Init /\ [][Next]_vars
==============================================================================

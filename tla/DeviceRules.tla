------------------------------ MODULE DeviceRules ------------------------------
(***************************************************************************)
(* What the prestart hook relies on when it adds device rules to the       *)
(* cgroup of a container that does not run yet: a call that returns        *)
(* without an error has opened the devices it was given and no other.      *)
(* While the call is under way, and after it failed, anything may be open. *)
(***************************************************************************)
CONSTANT Dev    \* device numbers

VARIABLES
  status,    \* of the last call: "idle" before the first one, "busy", "ok", "failed"
  access,    \* the devices the group may open
  before,    \* those it might open when the call began
  wanted,    \* the devices of the call's rules
  limit,     \* what the groups above, and programs out of reach, let through
  disturbed  \* another program has changed the group's filter

vars == <<status, access, before, wanted, limit, disturbed>>

Init ==
  /\ status = "idle"
  /\ limit \in SUBSET Dev
  /\ access \in SUBSET limit
  /\ before = access
  /\ wanted = {}
  /\ disturbed = FALSE

(* A call begins: AddDeviceRules.                                          *)
Begin ==
  /\ status \in {"idle", "ok"}
  /\ status' = "busy"
  /\ wanted' \in SUBSET Dev
  /\ before' = access
  /\ UNCHANGED <<access, limit, disturbed>>

Work ==
  /\ status = "busy"
  /\ access' \in SUBSET limit
  /\ UNCHANGED <<status, before, wanted, limit, disturbed>>

(* It returns nil.                                                         *)
Succeed ==
  /\ status = "busy"
  /\ access \subseteq before \cup wanted
  /\ ~disturbed => access = before \cup (wanted \cap limit)
  /\ status' = "ok"
  /\ UNCHANGED <<access, before, wanted, limit, disturbed>>

(* It returns an error, or its process is killed.                          *)
GiveUp ==
  /\ status = "busy"
  /\ status' = "failed"
  /\ UNCHANGED <<access, before, wanted, limit, disturbed>>

(* systemd puts its own filter back, which takes away what was added.      *)
Interfere ==
  /\ access' \in SUBSET access
  /\ disturbed' = TRUE
  /\ UNCHANGED <<status, before, wanted, limit>>

(* The container is removed, and another one gets a group of its own.      *)
Renew ==
  /\ status # "busy"
  /\ status' = "idle"
  /\ limit' \in SUBSET Dev
  /\ access' \in SUBSET limit'
  /\ before' = access'
  /\ wanted' = {}
  /\ disturbed' = FALSE

Next == Begin \/ Work \/ Succeed \/ GiveUp \/ Interfere \/ Renew

Spec == Init /\ [][Next]_vars
==============================================================================

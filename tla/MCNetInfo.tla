------------------------------- MODULE MCNetInfo -------------------------------
(***************************************************************************)
(* Small instances of NetInfo: two accelerators that exchange their        *)
(* numbers, one of which may go away.                                      *)
(***************************************************************************)
EXTENDS NetInfo, TLC

Device(type, external) == [type |-> type, external |-> external]

(* The first and the last port, both sides of the smaller table entry, and *)
(* a port that a device of the type has not.                               *)
MCMachines ==
  {"p1" :> Device("gaudi2", {0, 22, 23}) @@ "p2" :> Device("gaudi2", {8}),
   "p1" :> Device("gaudi", {0, 9, 10}) @@ "p2" :> Device("gaudi3", {9, 10, 23}),
   "p1" :> Device("other", {8}) @@ "p2" :> Device("other", {})}

MCNumberings ==
  {0 :> "p1" @@ 1 :> "p2", 0 :> "p2" @@ 1 :> "p1", 0 :> "p2" @@ 1 :> NoPci}
==============================================================================

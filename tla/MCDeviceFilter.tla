---------------------------- MODULE MCDeviceFilter -----------------------------
(***************************************************************************)
(* Small instances of DeviceFilter: rules of each form the generator       *)
(* distinguishes, on devices that differ in one respect each.              *)
(***************************************************************************)
EXTENDS DeviceFilter

Rule(allow, type, access, major, minor) ==
  [allow |-> allow, type |-> type, access |-> access, major |-> major,
   minor |-> minor]

(* As the CLI makes them; a denial of the same device, a rule for a whole  *)
(* major, one for every block device, one for every device, and two with   *)
(* a partial access.                                                       *)
CLIRule == Rule(TRUE, "c", FullAccess, 1, 1)

MCRules ==
  {CLIRule,
   Rule(FALSE, "c", FullAccess, 1, 1),
   Rule(TRUE, "c", FullAccess, 1, AnyNumber),
   Rule(FALSE, "a", FullAccess, AnyNumber, AnyNumber),
   Rule(TRUE, "b", {"m"}, AnyNumber, AnyNumber),
   Rule(FALSE, "a", {"w"}, 1, AnyNumber)}

CLIRules == {CLIRule, Rule(TRUE, "c", FullAccess, 1, 2)}

Open(type, access, major, minor) ==
  [type |-> type, access |-> access, major |-> major, minor |-> minor]

MCRequests ==
  {Open("c", {"r"}, 1, 1), Open("c", {"r", "w"}, 1, 1), Open("c", {"m"}, 1, 2),
   Open("c", {"w"}, 2, 1), Open("b", {"m"}, 1, 1), Open("b", {"r"}, 1, 2)}
==============================================================================

-------------------------- MODULE MCCreatePipeline ---------------------------
(***************************************************************************)
(* Small instances of CreatePipeline: two accelerators with an interface   *)
(* each, on hosts that lose one accelerator or the driver.                 *)
(***************************************************************************)
EXTENDS CreatePipeline

MCDev == 1..6

Number(n) ==
  3 * n[2] + (CASE n[1] = "accel" -> 1 [] n[1] = "ctl" -> 2 [] n[1] = "uverb" -> 3)

Loaded(nums) ==
  [num |-> [n \in Node |-> IF n[2] \in nums THEN Number(n) ELSE NoDev],
   verbs |-> nums, sysfs |-> nums, hook |-> TRUE, runc |-> TRUE,
   gaudinet |-> "absent"]

SteadyHosts == {Loaded({0, 1})}
MCHosts == SteadyHosts \cup {Loaded({0}), Loaded({})}

Bundle(env) ==
  [env |-> env, privileged |-> FALSE, linux |-> "full", error |-> NoError,
   hooks |-> [l \in Lifecycle |-> 0],
   devices |-> [e \in Node \X Dev |-> 0],
   rules |-> [d \in Dev |-> 0]]

Asks(value) == <<Entry(VisibleDevices, value)>>

All == Bundle(Asks(Word("all")))
One == Bundle(Asks(List({1}, FALSE)))

MCSpecs == {All, One, Bundle(<<>>), Bundle(<<Malformed("EMPTY")>>),
            Bundle(Asks(Word("none"))), Bundle(Asks(List({0}, TRUE)))}
RetrySpecs == {All}

(* As CRI-O's hook configuration writes it: the prestart hook is there.    *)
PresetSpecs == {All, [All EXCEPT !.hooks["prestart"] = 1]}

MCRootfses == {[etc |-> TRUE, dir |-> FALSE, mac |-> {}, gaudinet |-> "absent"]}

Default == [alwaysMount |-> TRUE, mode |-> "oci",
            mountAccelerators |-> TRUE, mountUverbs |-> TRUE]
Legacy == [Default EXCEPT !.mode = "legacy"]

OCIConfigs == {Default}
BothConfigs == {Default, Legacy}

HookDefault == [accept |-> TRUE, root |-> FALSE,
                mountAccelerators |-> TRUE, mountUverbs |-> TRUE]

MCHookConfigs == {HookDefault, [HookDefault EXCEPT !.accept = FALSE],
                  [HookDefault EXCEPT !.mountUverbs = FALSE],
                  [HookDefault EXCEPT !.root = TRUE]}

(* Both interfaces at work, one down, one with a route and no address.     *)
MCInterfaces == {<<"up", "routed">>, <<"up", "down">>, <<"unnumbered", "up">>}
ByNumber(seq) == [i \in Num |-> seq[i + 1]]
Working == ByNumber(<<"up", "routed">>)
NoInterfaces == ByNumber(<<"down", "down">>)

(* The usual container; one whose cgroup is missed; one on whose /dev the  *)
(* host looks.                                                             *)
Usual == [devfs |-> TRUE, grouped |-> TRUE]
MCPlaces == {Usual, [Usual EXCEPT !.grouped = FALSE], [Usual EXCEPT !.devfs = FALSE]}

Setting(cfgOfHook, net, interfaces, where, files) ==
  [hookCfg |-> cfgOfHook, network |-> net, interface |-> interfaces,
   place |-> where, taken |-> files]

(* Every configuration of the hook with every state of the interfaces, in  *)
(* the usual place, and without interfaces every place, with an image that *)
(* has nothing below /dev and one that has a file there.                   *)
MCSettings ==
  {Setting(h, n, ByNumber(s), Usual, {}) :
     h \in MCHookConfigs, n \in {"own", "host"}, s \in MCInterfaces}
  \cup
  {Setting(HookDefault, "host", NoInterfaces, p, t) :
     p \in MCPlaces, t \in {{}, {<<"accel", 1>>}}}

RetrySettings == {Setting(HookDefault, n, Working, Usual, {}) : n \in {"own", "pod"}}
==============================================================================

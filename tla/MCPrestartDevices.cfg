SPECIFICATION PrestartSpec
CONSTANTS
  Dev <- MCDev
  Slots = {"runc", "systemd"}
  Accels = {"accel0", "accel1"}
  Verbs = {"uverbs0"}
  NoDev = 0
  Hosts <- MCHosts
  Procs <- MCProcs
  Groups <- MCGroups
  Rootfses <- MCRootfses
  Configs <- MCConfigs
  MaxCreations = 2
INVARIANTS
  PrestartTypeOK
  RunningHasItsDevices
  RunningIsConfined
PROPERTY
  ImplementsDeviceRules

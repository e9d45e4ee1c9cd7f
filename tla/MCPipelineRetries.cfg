SPECIFICATION FairPipelineSpec
CONSTANTS
  Num = {0, 1}
  NoDev = NoDev
  Dev <- MCDev
  Specs <- PresetSpecs
  Rootfses <- MCRootfses
  Hosts <- SteadyHosts
  Configs <- OCIConfigs
  MaxRuns = 2
  Settings <- RetrySettings
INVARIANTS
  InterfacesMatchDevices
  NoTemporaryLinkInside
PROPERTY
  CreateSettles
CHECK_DEADLOCK
  FALSE

SPECIFICATION PipelineSpec
CONSTANTS
  Num = {0, 1}
  NoDev = NoDev
  Dev <- MCDev
  Specs <- MCSpecs
  Rootfses <- MCRootfses
  Hosts <- MCHosts
  Configs <- BothConfigs
  MaxRuns = 1
  Settings <- MCSettings
INVARIANTS
  PipelineTypeOK
  InterfacesMatchDevices
  LegacyHookMountsDevices
  HostNetworkKeepsNoLink

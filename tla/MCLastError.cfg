SPECIFICATION Spec
CONSTANTS
  Num = {0, 1}
  NoDev = NoDev
  Dev <- MCDev
  Specs <- MCSpecs
  Rootfses <- MCRootfses
  Hosts <- MCHosts
  Configs <- MCConfigs
  MaxRuns = 1
INVARIANT
  LastErrorReported

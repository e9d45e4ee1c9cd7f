SPECIFICATION Spec
CONSTANTS
  Num = {0, 1}
  NoDev = NoDev
  Dev <- MCDev
  Specs <- MCSpecs
  Rootfses <- MCRootfses
  Hosts <- MCHosts
  Configs <- MCConfigs
  MaxRuns = 2
INVARIANTS
  TypeOK
  NoDuplicates
  RulesFollowNodes
  TornSpecNeverRuns
  NoErrorMeansComplete
  OnlyRequestedDevices
PROPERTIES
  SpecOnlyGrows
  RetryIsIdempotent
  ImplementsCreateCommand

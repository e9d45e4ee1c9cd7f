SPECIFICATION Spec
CONSTANTS
  Rules <- MCRules
  Requests <- MCRequests
  MaxRules = 2
  MaxCalls = 2
INVARIANTS
  FilterTypeOK
  FilterDecides
  PrependedIsLoaded
CHECK_DEADLOCK
  FALSE

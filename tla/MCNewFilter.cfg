SPECIFICATION Spec
CONSTANTS
  Rules <- CLIRules
  Requests <- MCRequests
  MaxRules = 2
  MaxCalls = 1
INVARIANT
  NewFilterIsLoaded
CHECK_DEADLOCK
  FALSE

SPECIFICATION Spec
CONSTANTS
  Num = {0, 1, 11}
  MaxEnv = 1
  Envs <- MCEnvs
  Lines <- MCLines
INVARIANT
  RequestedIndexServed

SPECIFICATION Spec
CONSTANTS
  Num = {0, 1, 11}
  MaxEnv = 2
  Envs <- MCEnvs
  Lines <- MCLines
INVARIANT
  ProgramsAgree
  CommandLineAgrees

SPECIFICATION Spec
CONSTANTS
  None = None
  files = files
  user = user
  a = a
  b = b
  x = x
  y = y
  v = v
  Handlers <- MCHandlers
  Agents <- MCAgents
  Envs <- MCEnvs
  Values <- MCValues
  Short <- MCShort
  Lengths <- MCLengths
  Configs <- MCConfigs
INVARIANTS
  HandlerIsHooked
  NoLoop
PROPERTIES
  OwnOrNothing
  SealedAtRest

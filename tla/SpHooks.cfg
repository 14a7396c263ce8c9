SPECIFICATION Spec
CONSTANTS
  array_keys = array_keys
  setcookie = setcookie
  virtual = virtual
  mb_substr = mb_substr
  substr = substr
  user = user
  echo = echo
  Function <- MCFunction
  UserName <- MCUserName
  Builtin <- MCBuiltin
  Echo <- echo
  Sloppy <- MCSloppy
  Internal <- MCInternal
  Setcookie <- setcookie
  Virtual <- MCVirtual
  Twin <- MCTwin
  Configs <- MCConfigs
  NoConfig = NoConfig
  NULL = NULL
  AllowBroken = FALSE
  MaxDepth = 2
INVARIANTS
  TypeOK
  SavedFollowsConfig
  HandlerFollowsConfig
  SloppyHandlerInChain
  NoNullHandler
  Enforced
  EveryRuleIsConsulted
\* MSHUTDOWN ends the process.
CHECK_DEADLOCK FALSE

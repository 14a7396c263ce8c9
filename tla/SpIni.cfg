SPECIFICATION IniSpec
CONSTANTS
  Nothing = Nothing
  depth = depth
  agent = agent
  typo = typo
  low = low
  high = high
  null = null
  Empty = null
  Settings <- MCSettings
  Present <- MCPresent
  Values <- MCValues
  PhpIni <- MCPhpIni
  Native <- MCNative
  IniConfigs <- MCConfigs
INVARIANTS
  CheckFollowsRules
  ModuleFollowsValue
PROPERTIES
  ReadOnlyStays

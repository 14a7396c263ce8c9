SPECIFICATION Spec
CONSTANTS
  system = system
  outer = outer
  inner = inner
  logf = logf
  echo = echo
  include = include
  main = main
  lib = lib
  tpl = tpl
  host = host
  other = other
  None = None
  Native <- MCNative
  User <- MCUser
  Construct <- MCConstruct
  Include <- MCInclude
  Declared <- MCDeclared
  Behind <- MCBehind
  DefinedIn <- MCDefinedIn
  Variadic <- MCVariadic
  Sha <- MCSha
  Rets <- MCRets
  Clients <- MCClients
  Calls <- MCCalls
  Configs <- MCConfigs
  MaxFrames = 4
INVARIANTS
  OneKindInFileOrder
  ChainMetInside
PROPERTIES
  FirstRuleDecides

SPECIFICATION Spec
CONSTANTS
  Unset = Unset
  Malformed <- MCMalformed
  WeakKeys <- MCWeakKeys
  Missing <- MCMissing
  Relative <- MCRelative
  Statements <- MCStatements
  Predefined <- MCPredefined
  Atoi <- MCAtoi
  MAX_KEYWORDS = 4
  MAX_CONDITIONS = 2
  MaxText = 3
  MaxFiles = 2
INVARIANTS
  OnlyTheTextCounts
  EncryptionHasSecrets
  CookieRulesAddUp

SPECIFICATION Spec
CONSTANTS
  MAX_CONDITIONS = 3
  Width = 2
  Words = 3
  MaxTokens = 7
  MaxLine = 6
  Operands <- MCOperands
  Operators <- MCOperators
  Lexemes <- MCLexemes
  Masks <- MCMasks
CHECK_DEADLOCK FALSE
INVARIANTS
  ConditionAgrees
  NothingIsLost
  NetworkAgrees

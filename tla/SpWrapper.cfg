SPECIFICATION Spec
CONSTANTS
  None = None
  php = php
  file = file
  phar = phar
  var = var
  memory = memory
  input = input
  Builtin <- MCBuiltin
  Late <- MCLate
  Users <- MCUsers
  Kinds <- MCKinds
  Configs <- MCConfigs
INVARIANTS
  OnlyWhitelisted
  PhpIsFiltered
  CountIsEnough
PROPERTIES
  FilteredForGood

SPECIFICATION Spec
CONSTANTS
  None = None
  Junk = Junk
  c1 = c1
  a = a
  b = b
  x = x
  short = short
  long = long
  Names <- MCNames
  Agents <- MCAgents
  Env <- MCEnv
  Values <- MCValues
  Short <- MCShort
  Configs <- MCConfigs
PROPERTIES
  SeesWhatWasGiven
  OnlySignedValues
  SignedValuesAreRead

SPECIFICATION UploadFairSpec
CONSTANTS
  MaxFiles = 2
  Codes <- MCCodes
  UploadConfigs <- MCUploadConfigs
INVARIANTS
  NoFileSlipsThrough
  OneAtATime
  ChainEnds
PROPERTIES
  Answered

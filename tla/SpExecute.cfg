SPECIFICATION Spec
CONSTANTS
  user = user
  system = system
  array_map = array_map
  b1 = b1
  s1 = s1
  s2 = s2
  Start = Start
  Resume = Resume
  Suspend = Suspend
  Main = Main
  None = None
  UserFunction <- MCUserFunction
  InternalFunction <- MCInternalFunction
  Method <- MCMethod
  Reentrant <- MCReentrant
  Fiber <- MCOneFiber
  Source <- MCOneSource
  Configs <- MCConfigs
  LastStage = 3
  MaxFrames = 4
INVARIANTS
  TypeOK
  CountersFollowStack
  EvalFilterEnforced
  DepthLimited
  RefusalsJustified

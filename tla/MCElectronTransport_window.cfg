SPECIFICATION Spec
CONSTANTS
  MaxPipes = 3
  MaxEngineCloses = 1
  MaxQueue = 2
INVARIANTS TypeOK NoEngineLeaked FramesOfOwnPipe ReloadIsSilent EndsAgree
CHECK_DEADLOCK FALSE

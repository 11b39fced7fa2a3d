SPECIFICATION Spec
CONSTANTS
  Room = 3
  Nested = 1
INVARIANTS TypeOK NothingUnsaved CatchesUp FreesDetachedList
CHECK_DEADLOCK FALSE

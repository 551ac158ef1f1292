SPECIFICATION Spec
CONSTANTS
  Chunks <- MCChunks
  MaxChunks = 4
INVARIANTS
  BlocksAreFollowable
  BlocksAreTheAnswer
  StopReasonAgrees
CHECK_DEADLOCK FALSE

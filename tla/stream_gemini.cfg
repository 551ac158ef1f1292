SPECIFICATION Spec
CONSTANTS
  Chunks <- MCChunks
  MaxLines = 5
  Statuses = {200, 401, 404, 500}
INVARIANTS PartsAreTheAnswer FailureIsTold
PROPERTIES ImplementsStreamChat
CHECK_DEADLOCK FALSE

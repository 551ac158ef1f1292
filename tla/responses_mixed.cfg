CONSTANTS
  q3 = q3
  q2 = q2
  q1 = q1
  Requests = {q1, q2, q3}
  ResponseIds = {q1, q2, q3}
  ConversationIds = {q1, q2, q3}
  ChatIds = {}
  ItemIds <- MCItemIds
  Values <- MCValues
  Kinds = {"converse", "respond", "count", "get", "cancel", "update", "delete"}
  InputShapes <- OwnOrReference
  MaxResponses = 1
  MaxChatCompletions = 0
  MaxConversations = 1
  TTL = 0
  PruneInterval = 0
  MaxTime = 0
SYMMETRY Symmetry
SPECIFICATION Spec
INVARIANTS ConversationIsWholeTurns ContextIsPrefix DeletedIsGone StoredAsAnswered PreviousContextWholeOrNone StoredItemsCanBeReferenced NothingBeforeTheSave
PROPERTY AnsweredIsStored
CHECK_DEADLOCK FALSE

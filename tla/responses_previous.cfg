CONSTANTS
  q3 = q3
  q2 = q2
  q1 = q1
  Requests = {q1, q2, q3}
  ResponseIds = {q1, q2, q3}
  ConversationIds = {q1, q2, q3}
  ChatIds = {}
  ItemIds <- MCItemIds
  Values <- MCValues
  Kinds = {"respond", "delete"}
  InputShapes <- OwnInput
  MaxResponses = 0
  MaxChatCompletions = 0
  MaxConversations = 0
  TTL = 0
  PruneInterval = 0
  MaxTime = 0
SPECIFICATION Spec
INVARIANTS PreviousContextCarried
CHECK_DEADLOCK FALSE

CONSTANTS
  q2 = q2
  q1 = q1
  Requests = {q1, q2}
  ResponseIds = {q1, q2}
  ConversationIds = {q1, q2}
  ChatIds = {}
  ItemIds <- MCItemIds
  Values <- MCValues
  Kinds = {"converse", "respond", "count", "get", "cancel", "update", "delete"}
  InputShapes <- OwnInput
  MaxResponses = 0
  MaxChatCompletions = 0
  MaxConversations = 0
  TTL = 1
  PruneInterval = 1
  MaxTime = 2
SPECIFICATION FairSpec
PROPERTIES EveryRequestIsAnswered
CHECK_DEADLOCK FALSE

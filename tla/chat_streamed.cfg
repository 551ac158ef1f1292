SPECIFICATION Spec
CONSTANTS
  q1 = q1
  q2 = q2
  Requests = {q1, q2}
  ResponseIds = {}
  ConversationIds = {}
  ItemIds = {q1, q2}
  Values <- MCValues
  MaxResponses = 0
  MaxConversations = 0
  ChatIds = {1, 2}
  MaxCreated = 1
  Listings <- MCListings
  PageSize = 1
  MaxChatCompletions = 0
  TTL = 0
  PruneInterval = 0
  MaxTime = 0
PROPERTY
  StoredWhenAsked
CHECK_DEADLOCK FALSE

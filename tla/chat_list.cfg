SPECIFICATION Spec
CONSTANTS
  q1 = q1
  q2 = q2
  q3 = q3
  Requests = {q1, q2, q3}
  ResponseIds = {}
  ConversationIds = {}
  ItemIds = {q1, q2, q3}
  Values <- MCValues
  MaxResponses = 0
  MaxConversations = 0
  ChatIds = {1, 2, 3}
  MaxCreated = 2
  Listings <- MCListings
  PageSize = 1
  MaxChatCompletions = 2
  TTL = 1
  PruneInterval = 0
  MaxTime = 2
SYMMETRY Symmetry
INVARIANTS
  WalkListsWhatStayed
  CompletionIsOneAnswer
CHECK_DEADLOCK FALSE

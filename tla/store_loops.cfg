CONSTANTS
  ResponseIds = {"r1"}
  ChatIds = {"k1", "k2"}
  ConversationIds = {"c1"}
  ItemIds = {"i1"}
  Values = {"v"}
  MaxResponses = 1
  MaxChatCompletions = 1
  MaxConversations = 0
  TTL = 1
  PruneInterval = 2
  ItemLists <- MCOneItem
  MaxTime = 3
  MaxItems = 1
SPECIFICATION LoopSpec
INVARIANTS LoopsAgree OrderSlicesExact HeldIsIndexed NothingIdleTooLong
PROPERTIES RemovedForAReason

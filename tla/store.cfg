CONSTANTS
  r1 = r1
  r2 = r2
  r3 = r3
  ResponseIds = {r1, r2, r3}
  ChatIds = {}
  ConversationIds = {"c1", "c2"}
  ItemIds = {"i1", "i2"}
  Values = {"v"}
  MaxResponses = 2
  MaxChatCompletions = 0
  MaxConversations = 1
  TTL = 0
  PruneInterval = 0
  ItemLists <- MCItemLists
  MaxTime = 1
  MaxItems = 3
SYMMETRY ResponseSymmetry
SPECIFICATION Spec
INVARIANTS RefCountExact IndexExact OrderIsQueue CapacityRespected

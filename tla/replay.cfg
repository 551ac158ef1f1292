SPECIFICATION ReplaySpec
CONSTANTS
  MaxCalls = 2
  MaxSteps = 4
  Arguments <- MCArguments
  IsCustom <- MCIsCustom
  InputIn <- MCInputIn
INVARIANTS
  StoredReplayIsConversation
  PublicReplayIsConversation
  AnthropicReplayIsConversation
  GeminiReplayIsConversation
CHECK_DEADLOCK FALSE

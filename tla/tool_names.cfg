CONSTANTS
  Adapters = {"responses", "chat", "anthropic", "gemini"}
  Words <- MCWords
  Tools <- MCTools
  Choices <- MCChoices
  Candidate <- MCCandidate
  MaxTools = 3
SPECIFICATION Spec
INVARIANTS NamesAreDistinct CallComesBackAsItsTool ReplayNamesTheTool ChoiceIsMeant OnlyAllowedAreSent
CHECK_DEADLOCK FALSE

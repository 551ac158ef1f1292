SPECIFICATION FairSpec
CONSTANTS
  Chunks <- MCChunks
  MaxChunks = 4
  IsCustom <- MCIsCustom
  InputIn <- MCInputIn
INVARIANTS
  EventsAreFollowable
  IndexesAreFinalPlaces
  StoredIsTheAnswer
  SavedIfEnded
PROPERTY
  StreamIsEnded
CHECK_DEADLOCK FALSE

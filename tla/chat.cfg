SPECIFICATION ChatSpec
CONSTANTS
  Capacity = 2
  StartingDetail = TRUE
  MaxPhotos = 1
  MaxEvents = 2
  MaxEffort = 3
INVARIANTS
  OneTurnPerClientId
  AnswerFollowsItsRequest
  SentIsStored
  TranscriptComplete
CHECK_DEADLOCK FALSE

SPECIFICATION ChatSpec
CONSTANTS
  Capacity = 3
  StartingDetail = TRUE
  MaxPhotos = 1
  MaxEvents = 2
  MaxEffort = 1
INVARIANT InFlightEndsWithCompletion
CHECK_DEADLOCK FALSE

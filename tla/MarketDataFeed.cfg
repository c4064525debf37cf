SPECIFICATION FeedSpec
CONSTANTS
  MaxLength = 87
  NumLevels = 2
  LevelStates <- MCLevelStates
  Depths = {0, 1, 2}
  InitialScratch = 11
  MaxUnread = 2
  MaxSequence = 5
  MaxScratch = 200
CHECK_DEADLOCK FALSE
INVARIANTS
  SubscriberInStep
  NumbersAreConsecutive
  RecordingReadsBack
PROPERTIES
  DroppedOnlyAboveCeiling

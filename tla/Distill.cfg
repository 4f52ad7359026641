SPECIFICATION FairSpec
CONSTANTS
  Turns = {1, 2, 3}
  Lane <- LaneOf
  Session <- SessionOf
  When <- WhenOf
  Kind <- KindOf
  Text <- TextOf
  Backfilled = {2}
  MaxSessions = 2
  MaxTurns = 2
  ContextWindow = 1
  MaxAttempts = 1
  QuietThreshold = 1
  Slots = {1, 2}
  MaxFaults = 1


  
PROPERTIES
  
  NoWorkAfterDrain
  HungTickShows

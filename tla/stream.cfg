SPECIFICATION FairSpec
CONSTANTS
  Events = {1, 2, 3}
  NoEvent = NoEvent
  Limit = 2
  Retention = 1
  MaxTime = 2
  MaxBreaks = 2
INVARIANTS InOrderOnce GapsOvertaken
PROPERTIES EventsArrive
CHECK_DEADLOCK FALSE

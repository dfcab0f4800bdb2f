SPECIFICATION FairSpec
CONSTANTS
  Company = {"c1", "c2"}
  Channel <- BothChannels
  EndDate = {8, 15, 32}
  Unmailable = {}
  MaxDay = 11
  MaxFault = 1
INVARIANTS
  EveryoneHandled
  ExpiredIsPast
PROPERTIES
  LapsedGetsExpired
CHECK_DEADLOCK FALSE

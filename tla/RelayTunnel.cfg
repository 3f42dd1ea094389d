SPECIFICATION RelaySpec
CONSTANTS
  MaxDials = 2
  MaxSessions = 2
  MaxRequests = 1
  MaxFaults = 1
CHECK_DEADLOCK FALSE
INVARIANTS
  ChannelsAgree
  QuietMeansSealed
  NobodyWaitsForNothing

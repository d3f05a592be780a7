SPECIFICATION FairWebSpec
CONSTANTS
  Areas = {"sync", "install", "service"}
  Fetches = 2
  MaxEvents = 1
  MaxSaves = 1
  Setups = {"single", "duo"}
  Latest = 1
  MaxPolls = 1
  MaxRequests = 1
  MaxFaults = 1
  Newest = 3
  MaxReads = 1
  MaxClicks = 4
  MaxReleases = 1
  MaxTries = 2
  MaxMoves = 2
  Overlapping = {"select"}
  MaxPresses = 4
  MaxUpsets = 1
  MaxLooks = 1
  MaxIds = 2
  MaxBoots = 2
  MaxSlips = 2
  MaxOrders = 2
  MaxStirs = 1
  MaxTurns = 4
  MaxLosses = 1
  MaxDue = 2
INVARIANTS
  PollingAlive
  ConfirmedTimeStays
PROPERTY
  PageSettles
CHECK_DEADLOCK FALSE

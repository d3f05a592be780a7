SPECIFICATION WebSpec
CONSTANTS
  Areas = {"install", "modal", "writes", "incident", "restore", "tools", "quick"}
  Fetches = 2
  MaxEvents = 1
  MaxSaves = 1
  Setups = {"single", "duo"}
  Latest = 1
  MaxPolls = 1
  MaxRequests = 2
  MaxFaults = 0
  Newest = 3
  MaxReads = 1
  MaxClicks = 4
  MaxReleases = 1
  MaxTries = 2
  MaxMoves = 2
  Overlapping = {"select"}
  MaxPresses = 4
  MaxUpsets = 1
  MaxLooks = 1
  MaxIds = 2
  MaxBoots = 2
  MaxSlips = 2
  MaxOrders = 2
  MaxStirs = 1
  MaxTurns = 4
  MaxLosses = 1
  MaxDue = 2

  
  
  
  
PROPERTY
  InstalledMeansRuns
CHECK_DEADLOCK FALSE

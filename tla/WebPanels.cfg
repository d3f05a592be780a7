SPECIFICATION PanelsSpec
CONSTANTS
  Areas = {"storage", "recorder", "logs", "mqtt", "login", "bench",
           "services", "replay", "energy"}
  MaxMutations = 2
  MaxAttempts = 2
  MaxPowers = 2
  MaxChoices = 2
  MaxJolts = 1
  MaxLines = 1
  MaxClears = 2
  MaxRuns = 2
  MaxEdits = 2
  MaxHappenings = 3
  MaxForms = 2
  MaxResets = 2
  MaxOutside = 1
  MaxPresses = 4
  MaxRequests = 3
  Units = {"HP1", "HP2"}
  MaxRecords = 4
  MaxTicks = 2
  MaxFaults = 1
  LastDay = 2
  Hours = 2
  MaxUse = 1
  MaxEvents = 3
INVARIANTS
  StoredAsAnswered
  
  
  MockHolds
CHECK_DEADLOCK FALSE

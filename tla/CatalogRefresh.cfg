\* Everything at once; the clock is not bounded, its ages are.  No symmetry.
SPECIFICATION FairSpec
CONSTANTS
  a = a
  b = b
  x = x
  y = y
  Hosts = {a, b}
  Harnesses = {x, y}
  HostOf <- HostOfXY
  Configs <- Configurations
  Clients = {c}
  Loop = loop
  All = all
  Day = 1
  WakeInterval = 1
  MaxEdition = 2
  MaxChanges = 1
  MaxFrames = 1
  MaxFaults = 1
INVARIANTS ScheduleCoversEveryHarness RemovedIsNotOffered WakeRefreshIsNeeded
PROPERTIES CatalogCatchesUp CatalogNeverGoesBack

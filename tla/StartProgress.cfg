\* Liveness with a cancel, a crash and an exception at any step; no symmetry.
SPECIFICATION FairSpec
CONSTANTS
  Ops = {o1}
  Requests = {r1}
  Clients = {c1}
  Threads = {w1}
  Tabs = {t1, t2, t3}
  None = None
  CanWake = TRUE
  MaxAttempt = 1
  MaxCommands = 2
  MaxCrashes = 1
  MaxFaults = 1
PROPERTIES EveryStartEnds RestartSettlesStranded

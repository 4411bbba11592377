\* A start and two retries of it, concurrent, with replays and cancels.
SPECIFICATION Spec
CONSTANTS
  Ops = {o1, o2, o3}
  Requests = {r1, r2, r3}
  Clients = {c1, c2}
  Threads = {w1}
  Tabs = {t1, t2, t3}
  None = None
  CanWake = FALSE
  MaxAttempt = 2
  MaxCommands = 3
  MaxCrashes = 0
  MaxFaults = 0
SYMMETRY Alike
INVARIANTS OneOperationPerRequest RetryFollowsSettledSource
PROPERTIES KeepsThePromise

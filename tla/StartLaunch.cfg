\* One operation: a start, a cancel and a replay, with a crash at any step.
SPECIFICATION Spec
CONSTANTS
  Ops = {o1}
  Requests = {r1}
  Clients = {c1, c2}
  Threads = {w1, w2}
  Tabs = {t1, t2, t3}
  None = None
  CanWake = TRUE
  MaxAttempt = 1
  MaxCommands = 3
  MaxCrashes = 1
  MaxFaults = 0
SYMMETRY Alike
INVARIANTS NoActiveRowIsAbandoned StartedSessionIsReal NoSecondLaunch StartedLeavesOneTab
PROPERTIES TerminalIsFinal NoStartAfterCancel

\* An invalid reference is cleared by a poll that waits for its listing.
SPECIFICATION Spec
CONSTANTS
  p1 = p1
  p2 = p2
  Panes = {p1, p2}
  Clients = {c1}
  None = None
  Refs <- Reported
  MaxBlocks = 2
  MaxAsks = 3
  MaxMisses = 1
  MaxEnds = 1
  MaxEvents = 0
INVARIANTS InvalidRefSelectsNothing

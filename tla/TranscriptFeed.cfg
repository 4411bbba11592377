\* Two panes in one directory come, write and go while a client watches and reads.
SPECIFICATION FairSpec
CONSTANTS
  p1 = p1
  p2 = p2
  Panes = {p1, p2}
  Clients = {c1}
  None = None
  Refs <- Reported
  MaxBlocks = 2
  MaxAsks = 2
  MaxMisses = 1
  MaxEnds = 1
  MaxEvents = 1
INVARIANTS  SignatureWasPushed
PROPERTIES NewBlocksReachTheWatcher

\* Liveness, on a host whose panes an event may read and on one where it may
\* not; no symmetry.
SPECIFICATION FairSpec
CONSTANTS
  Questions = {q1}
  Clients = {c1}
  Hooks = {h1}
  None = None
  Reports = TRUE
  Readings = {TRUE, FALSE}
  MaxAsks = 1
  MaxMoves = 1
  MaxOutput = 1
  MaxFrames = 1
  MaxEvents = 1
  MaxMisses = 1
PROPERTIES AskedQuestionIsShown

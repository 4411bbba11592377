\* Two sockets answer and read one pane, with a failed or unacknowledged key.
SPECIFICATION Spec
CONSTANTS
  Questions = {q1}
  Clients = {c1, c2}
  Hooks = {h1}
  None = None
  Reports = TRUE
  Readings = {TRUE}
  MaxAsks = 2
  MaxMoves = 0
  MaxOutput = 1
  MaxFrames = 2
  MaxEvents = 0
  MaxMisses = 1
SYMMETRY Alike
INVARIANTS AnswersTheDialogSeen OneAnswerPerDialog ClaimsAreReleased ConsumedByItsAnswer
PROPERTIES DeliveryOwnsFocus

\* Three commands over two requests, a local and a remote folder.
SPECIFICATION Spec
CONSTANTS
  Requests = {r1, r2}
  Folders = {near, far}
  Remote = {far}
  Threads = {t1, t2, t3}
  None = None
  Lease = 0
  MaxTime = 2
  MaxCommands = 3
  MaxCrashes = 1
  MaxRaises = 1
  MaxFailures = 1
SYMMETRY Alike
INVARIANTS OneFolderPerRequest CompletedFolderIsThere NoFolderIsLeftBehind NoClaimIsAbandoned
PROPERTIES CompletedIsFinal

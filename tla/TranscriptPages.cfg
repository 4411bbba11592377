\* A client walks back while rows are written, repeated and leave the window.
SPECIFICATION Spec
CONSTANTS
  None = None
  Window = 4
  BlockLimit = 3
  PageLimits <- Limits
  MaxRows = 6
  MaxPages = 4
INVARIANTS WalkIsUnbroken RowsAreShownOnce
PROPERTIES WalkGoesOn

\* Every dialog under every short transcript, with its cursor on every row.
SPECIFICATION Spec
CONSTANTS
  None = None
  Printed <- PrintedLines
  Dialogs <- DrawnDialogs
  BlockLines = 4
  MaxPrinted = 3
INVARIANTS AnswersPickWhatTheySay EveryChoiceIsOffered BlockIsTheQuestions

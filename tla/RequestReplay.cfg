\* A client repeats and reuses ids of frames that fail, are cut off or are limited.
SPECIFICATION Spec
CONSTANTS
  h1 = h1
  None = None
  Sockets = {s1}
  Hosts = {h1}
  Frames <- Repeats
  Nav = {2}
  Powered = {h1}
  Capacity = 1
  Burst <- Metering
  Cost = 2
  MaxFrames = 3
  MaxTicks = 2
  MaxPolls = 1
INVARIANTS AnswerTellsWhatArrived RunsAgainOnlyWhenForgotten RepeatsAreFaithful
PROPERTIES MeterIsAnAllowance

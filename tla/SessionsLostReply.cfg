SPECIFICATION Spec
CONSTANTS
  Tabs = {t1}
  SharedStore = FALSE
  Pilots = {1, 2}
  Tokens = {1, 2, 3, 4}
  Sockets = {1, 2, 3, 4}
  Cargo = {0}
  LosesReplies = TRUE
  Crashes = FALSE
  Sleeps = FALSE
  None = None
INVARIANT PilotStaysReachable
CHECK_DEADLOCK FALSE

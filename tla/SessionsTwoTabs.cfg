\* Two tabs of one browser: no reply is lost, nobody goes quiet and the server never dies.
SPECIFICATION Spec
CONSTANTS
  Tabs = {t1, t2}
  SharedStore = TRUE
  Pilots = {1, 2}
  Tokens = {1, 2, 3, 4}
  Sockets = {1, 2, 3, 4}
  Cargo = {0}
  LosesReplies = FALSE
  Crashes = FALSE
  Sleeps = FALSE
  None = None
PROPERTY OnlyRejectedIsForgotten
CHECK_DEADLOCK FALSE

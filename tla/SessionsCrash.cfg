\* Two tabs of one browser taking each other's ship over; replies are lost, a tab goes
\* quiet, the process dies and restarts.
SPECIFICATION Spec
CONSTANTS
  Tabs = {t1, t2}
  SharedStore = TRUE
  Pilots = {1}
  Tokens = {1, 2, 3, 4}
  Sockets = {1, 2, 3}
  Cargo = {0, 1}
  LosesReplies = TRUE
  Crashes = TRUE
  Sleeps = TRUE
  None = None
INVARIANTS RecordsAgree ProgressIsKept
CHECK_DEADLOCK FALSE

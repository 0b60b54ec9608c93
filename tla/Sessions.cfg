SPECIFICATION MCSpec
CONSTANTS
  \* holders: one tab that plays, quits, loses its network and comes back; the process stays
  \* up and the tab waits for its replies
  Tabs = {t1}
  SharedStore = FALSE
  Pilots = {1}
  Tokens = {1, 2, 3, 4}
  Sockets = {1, 2, 3}
  Cargo = {0, 1}
  LosesReplies = FALSE
  Crashes = FALSE
  Sleeps = FALSE
  None = None
  \* travel: five frames, of which two can be caught up
  FrameMs = 2
  CatchUp = 2
  Lead = 2
  MinSpan = 1
  Retention = 20
  HandoffTimeout = 4
  Tolerance = 0
  Paces = {0, 1, 5}
  Horizon = 10
  MaxOddities = 3
  \* ore: one site beside the town and one behind the scanner
  Sites = {1, 2}
  Expanded = {2}
  Sacs = {1, 2}
  QueenHealth = 1
  SacHealth = 1
  SacWindow = 1
  MaxLate = 1
  ScannerValue = 1
  RestoreValue = 1
  ShipmentValue = 2
  RockValue = 2
  MaxRocks = 2
CONSTRAINT SmallFrontier
INVARIANTS TabFliesItsShip PilotStaysReachable TravelWithinServerTime LegalFlightIsAccepted TimeIsAccounted OreIsHeldOnce SavedProgressLoads
PROPERTIES ShipsDoNotLinger JoinsAreAnswered LateSacsAreRefilled
CHECK_DEADLOCK FALSE

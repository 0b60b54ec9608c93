SPECIFICATION MCSpec
CONSTANTS
    \* saves: changes are made until two batches were handed over; the departure, the
    \* deferred and the final flush may add theirs
    MaxPending = 4
    MaxBatches = 2
    \* snapshots: every fault, with the timeouts; a rejoin or a fault may meet any frame
    WindowFrames = 2
    WindowBytes = 3
    Sizes = {1, 2, 4}
    MaxWorlds = 2
    MaxEvents = 2
    Faults = {"delta", "keyframe", "apply"}
    Timeouts = TRUE
INVARIANTS CrashLosesOneBatch ExitIsClean BooksAreExact
PROPERTIES KeepsTheLog ChangesLandOrTheProcessEnds ShowsPublishedWorlds ViewCatchesUp
CHECK_DEADLOCK FALSE

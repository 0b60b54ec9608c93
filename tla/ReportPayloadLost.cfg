\* The upkeep after a delivered row fails once.
CONSTANTS
    Reports = {r1}
    Parts = {1, 2}
    BatchSize = 1
    FlakyAfter = {"delivered"}
    MaxFaults = 1
    MaxDeaths = 1
    MaxClosings = 1
SPECIFICATION DeliverySpec
INVARIANTS RetriesKeepTheReport
CHECK_DEADLOCK FALSE

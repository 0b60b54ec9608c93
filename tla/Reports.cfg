SPECIFICATION MCSpec
CONSTANTS
    \* threads: one replacement per window of one tick; one request waits and another is
    \* refused
    Requests = {q1, q2}
    Threads = {t1, t2}
    Starts = {s1, s2}
    MaxPending = 1
    MaxReplacements = 1
    Window = 1
    MaxReplies = 1
    \* delivery: two reports of two comments, posted one at a time; a request fails, the
    \* thread ends once, and somebody closes a task
    Reports = {r1, r2}
    Parts = {1, 2}
    BatchSize = 1
    FlakyAfter = {"saveTask"}
    MaxFaults = 1
    MaxDeaths = 1
    MaxClosings = 1
INVARIANTS OneThreadCounts DeliveredOnceAndWhole RetriesKeepTheReport
PROPERTIES NothingStartsAfterClose EverybodyIsAnswered ReportsAreDelivered
CHECK_DEADLOCK FALSE

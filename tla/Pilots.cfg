SPECIFICATION MCSpec
CONSTANTS
    p1 = p1  p2 = p2
    Pilots = {p1, p2}
    Travellers = {p1}
    NoOne = NoOne
    DownedTicks = 2
    ReviveTicks = 1
    GraceTicks = 1
    DyingFrames = 2
    MaxStored = 1
    TravelFrames = 1
    r1 = r1
    Rails = {r1}
    NoRail = NoRail
    MaxEpoch = 3
    MaxPlace = 2
    MaxSequence = 2
    MaxIntent = 2
    MaxQueue = 2
INVARIANTS LifeRecordsAgree AcknowledgedMeansAgreed
PROPERTIES WindowsEndByRescueOrDeath WaitingPilotsStay PilotsFlyAgain PlacementsAreKept ControlReturns
CHECK_DEADLOCK FALSE

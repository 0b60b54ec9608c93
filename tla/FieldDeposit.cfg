\* One deposit that can be chipped, ignited and carry a probe, drifting between two sectors with two pilots,
\* against the cadence of full flushes.
SPECIFICATION Spec
CONSTANTS
    s1 = s1  s2 = s2  d1 = d1
    Sectors = {s1, s2}
    Near <- MCNear
    Adjacent <- MCAdjacent
    Slots = {d1}
    Fragments = {}
    Home <- MCHome
    Chippable = {d1}
    Boostable = {d1}
    Beaconed = {d1}
    Pilots = {p1, p2}
    DriftFlush = 2
    NoSector = NoSector  NoRow = NoRow  Absent = Absent  NoBatch = NoBatch
INVARIANTS
    PausedWorldIsDurable DamageLagBounded BurningRocksStayAwake

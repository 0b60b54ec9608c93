\* The frame that removes the last pilot goes on after the departure's flush.
SPECIFICATION Spec
CONSTANTS
    s1 = s1  s2 = s2  d1 = d1
    Sectors = {s1, s2}
    Near <- MCNearOwn
    Adjacent <- MCAdjacent
    Slots = {d1}
    Fragments = {}
    Home <- MCHome
    Chippable = {}
    Boostable = {}
    Beaconed = {}
    Pilots = {p1}
    DriftFlush = 2
    NoSector = NoSector  NoRow = NoRow  Absent = Absent  NoBatch = NoBatch
INVARIANTS
    DepartureFlushCarriesEverything

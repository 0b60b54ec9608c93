\* A bot, a lot and two pods beside those the ships leave; two points, of which a hold takes
\* one or two, and then a second pilot.
SPECIFICATION Spec
CONSTANTS
    c1 = c1  c2 = c2  p2 = p2  q1 = q1  q2 = q2
    Coins = {c1, c2}
    Pilots = {p1, p2}
    Bots = {b1}
    Pods = {q1, q2}
    Lots = {l1}
    Holds = {1, 2}
    NoImage = NoImage
SYMMETRY Interchangeable
CONSTRAINT SmallWorld
INVARIANTS EveryPointOnce SavedPointsOnce
PROPERTY BatchIsTheWorld
CHECK_DEADLOCK FALSE

SPECIFICATION FairSpec
CONSTANTS
    Keys = {1, 2}
    Deletable = {2}
    Callers = {c1, c2}
    Base = 1
    Cap = 3
    MaxNow = 2
    MaxFailures = 2
INVARIANTS TypeOK RowConsistent CooldownBounded CountBounded
PROPERTY CooldownEnds

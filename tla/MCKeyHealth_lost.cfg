SPECIFICATION BoundedSpec
CONSTANTS
    Keys = {1}
    Deletable = {}
    Callers = {c1, c2}
    Base = 1
    Cap = 3
    MaxNow = 2
    MaxFailures = 3
PROPERTY FailuresExtendCooldown

SPECIFICATION Spec
CONSTANTS
    Keys = {1}
    Requests = {r1}
    Probers = {}
    Base = 1
    Cap = 2
    MaxNow = 0
    MaxFailures = 1
INVARIANT CompletedIsLogged

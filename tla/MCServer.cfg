SPECIFICATION Spec
CONSTANTS
    s1 = s1  s2 = s2  n1 = n1  n2 = n2  p1 = p1  p2 = p2  m1 = m1  m2 = m2
    k1 = k1  d1 = d1  b1 = b1  q1 = q1  main = main
    Nobody = Nobody
    NoCookie = NoCookie
    Workers <- MCWorkers
    Calls <- MCCalls
    Models = {m1, m2}
    ModelLists <- MCModelLists
    Browsers = {b1}
    Requests = {q1}
    Starter = main
    Keys = {k1}
    Tokens = {d1}
    Secrets = {s1, s2}
    Names = {n1, n2}
    Passwords = {p1, p2}
    TTL = 3
    PerSecond = 2
    MaxClock = 5
INVARIANTS TypeOK SomeoneGoesOn FileWhole ReadyWhenUp SessionsLast
PROPERTIES AdmissionEarned ImplementsAtomicStore
CONSTRAINT OneSide
SYMMETRY MCSymmetry

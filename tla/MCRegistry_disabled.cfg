SPECIFICATION Spec
CONSTANTS
    a = a
    b = b
    m1 = m1
    m2 = m2
    MaxId = 1
    Models = {m1}
    Creds = {a}
    NoCred = NoCred
    Same = Same
    Offers <- OneOffer
    Posts <- EnabledPost
    Puts <- Toggles
    Procs = {p1, p2}
    Impatient = {}
    Startup = Startup
    MaxBoots = 1
    Base = 1
    Cap = 2
    MaxNow = 0
    MaxFailures = 0
SYMMETRY Alike
INVARIANT QuietListsNoDisabled

SPECIFICATION FairSpec
CONSTANTS
    a = a
    b = b
    m1 = m1
    m2 = m2
    MaxId = 2
    Models = {m1, m2}
    Creds = {a, b}
    NoCred = NoCred
    Same = Same
    Offers <- TwoOffers
    Posts <- EnabledPost
    Puts <- NoPuts
    Procs = {p1}
    Impatient = {p1}
    Startup = Startup
    MaxBoots = 2
    Base = 1
    Cap = 2
    MaxNow = 0
    MaxFailures = 0
INVARIANT CatalogOwnership
PROPERTIES JobsEnd HandlersAdvance IsTheWorldOfGateway

SPECIFICATION Spec
CONSTANTS
    MaxId = 2
    Tokens = {t1, t2, t3}
    EnvToken = EnvToken
    NoToken = NoToken
    Admins = {a1, a2}
    Requests = {r1, r2}
    Reports <- SomeReports
SYMMETRY Alike
INVARIANTS TypeOK ReplacedStaysDead SealedCurrent UsageExact TotalsAgree LogsKeepReports

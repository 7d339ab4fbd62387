\* Each of the small benchmark programs, one per behaviour.
SPECIFICATION Spec
CONSTANTS
    Workers = {w1, w2, w3}
    Nobody = Nobody
    Owners = {o1, o2}
    Main = Main
    Shared = Shared
    NoToken = NoToken
    TTL = 2
    MaxTime = 4
    MaxAttempts = 2
    MaxEnds = 1
    Requests = {r1, r2, r3}
    Users = {u1, u2}
    Posts = {p1, p2}
    PoolSize = 2
    MaxFaults = 1
    Urls = {url1, url2, url3}
    Codes = {c1, c2, c3}
    BatchSize = 2
    MaxRetries = 1
    MaxRuns = 2
INVARIANTS
    ProgramsTypeOK
    VersionCountsWinners OneOwner CountersMatchRows EveryUrlAnswered
PROPERTIES
    ClaimIsExclusive LeasesEnd FailuresAreReal CodesNeverMove

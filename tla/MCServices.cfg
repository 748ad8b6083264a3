SPECIFICATION MCSpec
CONSTANTS
    Handshakes = {h1, h2, h3}
    RenewalMargin = 1
    ValidityInterval = 3
    Nobody = Nobody
    MaxTime = 7
    Uids = {u1, u2, u3}
    NoPod = NoPod
    MaxOutages = 2
    Machines = {a, b}
    Unexposed = Unexposed
    MaxChanges = 2
    Specs = {x, y}
    MaxLaunches = 3
    MaxErrors = 2
    MaxFaults = 2
    Hostnames = {g, h}
    NoValue = NoValue
    MaxClock = 3
    MaxDnsChanges = 1
    Versions = {v, w}
    NoVersion = NoVersion
    MaxEtcdChanges = 3
    Stanzas <- MasterStanzas
    ClusterTears = {0, 10}
    LocalTears = {0, 4}
    MaxMishaps = 2
INVARIANTS MCTypeOK NothingLeftBehind ScrapedMetricsAreRecent WholeValuesUnlessDisturbed
PROPERTIES CacheNeverGoesBack NoWastedSigning PullGaugesFollow AuthGaugesSettle NoRollback QueueDrains VersionFollows ServicesComeUp

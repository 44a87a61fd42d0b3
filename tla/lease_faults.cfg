\* Service tokens with a maximum TTL and every fault.
CONSTANTS
    Interval = 2
    CallBound = 1
    CreationTTL = 6
    BootTTL = 3
    MaxTTL = 7
    RenewSeconds = 4
    TokenKind = "service"
    AuthMethod = "login"
    Faults = {"outage", "revoke", "creds", "loss", "malformed", "empty", "shutdown"}
    MaxFaults = 3
    CounterWrap = 2
SPECIFICATION MetricsFairSpec
INVARIANTS
    TypeOK
    ReauthVouched
    BoundedOutage
    GaugeNearExpiry
PROPERTIES
    DropsOnlyDueTokens
    UncountedOnlyWhenDead
    KeepsToken
    Recovers
    StopsWhenDone

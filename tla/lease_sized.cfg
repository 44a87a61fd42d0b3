\* Service tokens up to their maximum TTL, lost, empty and malformed answers: the
\* TTLs and the increment are the smallest the sizing rule allows for two
\* faults (a window is 3 + 3 * 2 = 9).
CONSTANTS
    Interval = 3
    CallBound = 2
    CreationTTL = 55
    BootTTL = 28
    MaxTTL = 60
    RenewSeconds = 28
    TokenKind = "service"
    AuthMethod = "login"
    Faults = {"loss", "malformed", "empty", "shutdown"}
    MaxFaults = 2
    CounterWrap = 2
SPECIFICATION MetricsSpec
INVARIANTS
    ExpiresOnlyAtMaximum
    LeaseSlack
    BoundedOutage

\* An increment of a quarter of the lease, as the default hour is for leases of
\* four, in a setting the sizing rule allows: expected to be violated.
CONSTANTS
    Interval = 2
    CallBound = 1
    CreationTTL = 24
    BootTTL = 24
    MaxTTL = 48
    RenewSeconds = 6
    TokenKind = "service"
    AuthMethod = "login"
    Faults = {}
    MaxFaults = 0
    CounterWrap = 2
SPECIFICATION MetricsSpec
INVARIANTS
    GaugeNearExpiry

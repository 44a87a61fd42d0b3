\* -auth-method=token in a setting the sizing rule allows (a window is 4), so
\* that nothing but the maximum TTL ends the token: expected to be violated.
CONSTANTS
    Interval = 2
    CallBound = 1
    CreationTTL = 9
    BootTTL = 9
    MaxTTL = 12
    RenewSeconds = 5
    TokenKind = "service"
    AuthMethod = "token"
    Faults = {}
    MaxFaults = 0
SPECIFICATION Spec
INVARIANTS
    ReauthVouched

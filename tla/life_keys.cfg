\* Key files after a failed login: expected to be violated.
CONSTANTS
    MaxRuns = 1
    Parallel = 1
    CombinedPem = TRUE
    Faults = {"login"}
    MaxInflight = 1
SPECIFICATION Spec
CHECK_DEADLOCK FALSE
INVARIANTS
    NoKeyFilesLeft

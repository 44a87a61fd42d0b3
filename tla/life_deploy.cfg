\* Successive and overlapping runs, each with or without
\* -force-socket-overwrite, and every fault.
CONSTANTS
    MaxRuns = 3
    Parallel = 2
    CombinedPem = TRUE
    Faults = {"login", "pem", "port", "serve", "kill", "slowProbe"}
    MaxInflight = 1
SPECIFICATION FairSpec
CHECK_DEADLOCK FALSE
INVARIANTS
    TypeOK
    ReturnCleansUp
    SmoothRedeployment
    EvictionNeedsForce
PROPERTIES
    SignalEnds

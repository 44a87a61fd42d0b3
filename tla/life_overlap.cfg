\* Overlapping runs, the second one with -force-socket-overwrite: expected to be violated.
CONSTANTS
    MaxRuns = 2
    Parallel = 2
    CombinedPem = FALSE
    Faults = {}
    MaxInflight = 1
SPECIFICATION FairSpec
CHECK_DEADLOCK FALSE
PROPERTIES
    LosesSocketOnlyByForce

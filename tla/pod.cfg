\* One container: two outages of Vault, two crashes, two intrusions on its port.
CONSTANTS
    MaxRuns = 2
    Parallel = 1
    CombinedPem = FALSE
    Faults = {"login", "port", "serve", "kill", "slowProbe"}
    MaxInflight = 1
    FailureThreshold = 3
    MaxOutages = 2
    MaxIntrusions = 2
    MaxCrashes = 2
SPECIFICATION PodFairSpec
INVARIANTS
    PodTypeOK
    HealthyIsReachable
    OnlyCutOffsBlock
PROPERTIES
    KeepsSocket
    PodRecovers

\* Four generations of each kind of credential, three failures.
CONSTANTS
    MaxGen = 4
    MaxFaults = 3
SPECIFICATION FairSpec
INVARIANTS
    TypeOK
    LoginsFollowRotation
PROPERTIES
    LoginRecovers
    BootRecovers

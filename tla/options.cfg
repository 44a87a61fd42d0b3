\* Every complete configuration with up to two settings changed.
CONSTANTS
    MaxChanges = 2
SPECIFICATION FairSpec
CHECK_DEADLOCK FALSE
INVARIANTS
    TypeOK
    LoginsAreComplete
    ServesOnlySound
    SoundIsAccepted
PROPERTIES
    SoundServes
    UnsoundEnds

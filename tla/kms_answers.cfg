\* Concurrent calls, rotations, retirements, and a request to Vault that fails
\* for one of the calls.
CONSTANTS
    Calls = {c1, c2}
    Data = {d1}
    MaxVersion = 2
    Enabled = {"v1", "v2"}
    MaxFaults = 1
SPECIFICATION FairSpec
INVARIANTS
    TypeOK
    HandlersHold
    KeyIdNeverUnderstates
    KeyIdsAdvance
PROPERTIES
    KeepsPromise
    EveryCallAnswered

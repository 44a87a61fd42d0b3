\* -cert-pem is split once: its rotation is not transparent.
CONSTANTS
    MaxGen = 2
    MaxFaults = 0
SPECIFICATION Spec
INVARIANTS
    RotationIsTransparent

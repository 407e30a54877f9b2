\* A guest whose second instruction faults and is handled.
SPECIFICATION Spec
CONSTANTS
    N = 2
    Quanta = {1, 3}
    Fuels = {4}
    Everys = {2}
    Limits = {2}
    Counts = {1, 2}
    TurnsInPiece = 1
    Faults = {1}
    Models = {m}
    Host = Host
    NoHistory = NoHistory
    MaxDid = 4
CHECK_DEADLOCK FALSE
INVARIANT
    StepsBack

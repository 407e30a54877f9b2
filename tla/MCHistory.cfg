\* Two threads, runs of up to four instructions and steps back of up to two.
SPECIFICATION Spec
CONSTANTS
    N = 2
    Quanta = {1, 3}
    Fuels = {4}
    Everys = {2}
    Limits = {2}
    Counts = {1, 2}
    TurnsInPiece = 1
    Faults = {0}
    Models = {m}
    Host = Host
    NoHistory = NoHistory
    MaxDid = 4
CHECK_DEADLOCK FALSE
INVARIANTS
    TypeOK
    StepsBack
    RunsAgainLittle

\* Up to four tasks, where execve, of the memories that others have, leaves only the first process's.
SPECIFICATION SpacesSpec
CONSTANTS
    MaxTid = 4
    MaxExecs = 1
    Words = {}
    NoWord = NoWord
    Bits = {b}
    Counts = {1}
    Codes = {1}
    Signals = {11}
    Leaves = {"first"}
    NoMemory = NoMemory
CHECK_DEADLOCK FALSE
INVARIANTS
    TypeOK
    OrphansAdopted
    GroupCoherent
    SettledRight
    OutcomeHonest
    OwnMemory
PROPERTIES
    FirstToAsk
    ImplementsProcesses

\* A child of the first process makes, by vfork, one that runs a program.
SPECIFICATION SpacesSpec
CONSTANTS
    MaxTid = 3
    MaxExecs = 1
    Words = {}
    NoWord = NoWord
    Bits = {b}
    Counts = {1}
    Codes = {1}
    Signals = {11}
    Leaves = {"first", "other"}
    NoMemory = NoMemory
CHECK_DEADLOCK FALSE
INVARIANTS
    OwnMemory

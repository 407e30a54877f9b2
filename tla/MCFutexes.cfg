\* Three tasks and two words: waits, wakes and requeues against exits and execve.
SPECIFICATION Spec
CONSTANTS
    MaxTid = 3
    MaxExecs = 1
    Words = {a, c}
    NoWord = NoWord
    Bits = {b}
    Counts = {1}
    Codes = {1}
    Signals = {11}
SYMMETRY Symmetric
CHECK_DEADLOCK FALSE
INVARIANTS
    StoppedIffWaiting
    VforkHolds
PROPERTIES
    VforkKept
    FirstToWait

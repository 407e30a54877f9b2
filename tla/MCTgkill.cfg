\* A signal for a thread of a process whose leader has exited.
SPECIFICATION Spec
CONSTANTS
    MaxTid = 3
    MaxExecs = 1
    Words = {}
    NoWord = NoWord
    Bits = {b}
    Counts = {1}
    Codes = {1}
    Signals = {11}
CHECK_DEADLOCK FALSE
INVARIANT
    TgkillEnds

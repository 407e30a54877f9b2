\* Three tasks, with the fairness of the scheduler.
SPECIFICATION FairSpec
CONSTANTS
    MaxTid = 3
    MaxExecs = 0
    Words = {}
    NoWord = NoWord
    Bits = {b}
    Counts = {1}
    Codes = {1}
    Signals = {11}
CHECK_DEADLOCK FALSE
PROPERTIES
    RunnableRuns
    SchedulerDecides

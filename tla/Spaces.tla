------------------------------- MODULE Spaces -------------------------------
(***************************************************************************)
(* The memory of tasks: Tasks with what Bap/Emu.lean does about native     *)
(* memory when a task is made, runs a program or is switched to.  The      *)
(* engine has one memory attached, that of the thread that runs.  The      *)
(* memory of a space that does not run is in `processMemory', but for the  *)
(* first space, whose memory is in `sharedMemory' while another runs.      *)
(***************************************************************************)
EXTENDS Tasks

CONSTANTS
    Leaves,         \* the memory that execve is tried from when another process has it
                    \* too: of "first", that of the first process, of "other", that of
                    \* another, or "owned", the one named after who leaves it
    NoMemory        \* no memory has been put aside

VARIABLES
    attached,       \* engine.persistentMemory: the memory that instructions use
    processMemory,  \* space -> its memory
    sharedMemory,   \* the memory of the threads without their own
    holds           \* history: the memory that each task is to have, by what it called

memories  == <<attached, processMemory, sharedMemory, holds>>
spaceVars == <<vars, memories>>

\* A memory is named by the process it is made for and the programs that had run by then.
Memory == Tids \X Nat

spaceOf(t) == IF t \in DOMAIN tasks THEN tasks[t].space ELSE t

\* The native memory of a space: its own, or the one that those without one share.
nativeFor(processes, shared, space) ==
    IF space \in DOMAIN processes THEN processes[space] ELSE shared

\* Mutant: memory goes with the task that it was made for, whoever else has it.
Kept_ByTask(processes) == [s \in DOMAIN processes \cap DOMAIN tasks' |-> processes[s]]

\* collectGone forgets the memory of the spaces that no task has.
Kept(processes) ==
    [s \in {r \in DOMAIN processes : \E t \in DOMAIN tasks' : tasks'[t].space = r} |-> processes[s]]

\* What was of a task that is gone.
StillHeld == holds' = [t \in DOMAIN tasks' |-> holds[t]]

\* The thread `next' is given the memory of its space, and that of the thread which ran
\* is put where it will be found again, but for what collectGone forgets then if it `collects'.
switchNativeMemory(next, collects) ==
    LET from == spaceOf(current)
        to   == spaceOf(next)
        own  == from \in DOMAIN processMemory
        processes == IF from # to /\ own THEN [processMemory EXCEPT ![from] = attached]
                     ELSE processMemory
        shared == IF from # to /\ ~own THEN attached ELSE sharedMemory
    IN  /\ processMemory' = IF collects THEN Kept(processes) ELSE processes
        /\ sharedMemory' = shared
        /\ attached' = IF from # to THEN nativeFor(processes, shared, to) ELSE attached

\* clone without CLONE_VM gives the child a copy of the memory.
cloneProcessMemory(vm, thread, vfork, word) ==
    /\ clone(vm, thread, vfork, word)
    /\ LET own == <<nextTid, Me.selfExecId>>
       IN  /\ processMemory' = IF vm THEN processMemory
                               ELSE [s \in DOMAIN processMemory \cup {nextTid} |->
                                        IF s = nextTid THEN own ELSE processMemory[s]]
           /\ holds' = [t \in DOMAIN tasks' |->
                           IF t # nextTid THEN holds[t] ELSE IF vm THEN holds[current] ELSE own]
    /\ UNCHANGED <<attached, sharedMemory>>

Left == IF Me.group = Me.space THEN "owned" ELSE IF Me.space = First THEN "first" ELSE "other"

\* What execve is to leave: another process that has not exited is to have it too.
TrulyShared == \E t \in DOMAIN tasks : /\ holds[t] = holds[current]
                                       /\ tasks[t].group # Me.group
                                       /\ Live(tasks, t)

\* execve goes to memory of its own if another process has this one, which is put aside
\* as that of the threads without their own; otherwise the program takes its place.
leaveSharedMemory ==
    /\ execute
    /\ Shares => Left \in Leaves
    /\ LET own == <<Me.group, Me.selfExecId + 1>>
       IN  /\ attached' = IF Shares THEN own ELSE attached
           /\ sharedMemory' = IF Shares THEN attached ELSE sharedMemory
           /\ processMemory' = IF Shares
                               THEN [s \in DOMAIN processMemory \cup {Me.group} |->
                                        IF s = Me.group THEN own ELSE processMemory[s]]
                               ELSE processMemory
           /\ holds' = [t \in DOMAIN tasks' |->
                           IF t # Me.group THEN holds[t]
                           ELSE IF TrulyShared THEN own ELSE holds[current]]

waitMemory(target) ==
    /\ serveWait(target)
    /\ processMemory' = IF DOMAIN tasks' = DOMAIN tasks THEN processMemory ELSE Kept(processMemory)
    /\ StillHeld
    /\ UNCHANGED <<attached, sharedMemory>>

switchMemory ==
    /\ switchNextThread
    /\ switchNativeMemory(current', FALSE)
    /\ UNCHANGED holds

scheduleMemory ==
    /\ scheduleSwitch
    /\ switchNativeMemory(current', TRUE)
    /\ StillHeld

\* The switches to the memory of a waiter, to write a status there, and back leave every
\* memory where it was: only the switch away from a task that is reaped is one to follow.
settleMemory(w) ==
    /\ settleOne(w)
    /\ IF w \in DOMAIN waiters' THEN UNCHANGED <<attached, processMemory, sharedMemory>>
       ELSE switchNativeMemory(current', TRUE)
    /\ StillHeld

\* What changes neither memory nor the thread that runs.
Elsewhere ==
    \/ \E code \in Codes : exitThread(code)
    \/ \E code \in Codes : exitProcess(code)
    \/ \E target \in Tids, signal \in Signals : tgkill(target, signal)
    \/ fault
    \/ TurnEnds
    \/ Settled
    \/ scheduleRun
    \/ scheduleDone

SpacesInit ==
    /\ Init
    /\ attached = <<First, 0>>
    /\ processMemory = [s \in {} |-> NoMemory]
    /\ sharedMemory = NoMemory
    /\ holds = [t \in {First} |-> <<First, 0>>]

SpacesNext ==
    \/ \E vm, thread, vfork \in BOOLEAN : cloneProcessMemory(vm, thread, vfork, NoWord)
    \/ leaveSharedMemory
    \/ \E target \in Tids \cup {None} : waitMemory(target)
    \/ switchMemory
    \/ scheduleMemory
    \/ \E w \in Tids : settleMemory(w)
    \/ Elsewhere /\ UNCHANGED memories

SpacesSpec == SpacesInit /\ [][SpacesNext]_spaceVars

-----------------------------------------------------------------------------
\* The memory that a thread uses, or would if it were switched to.
MemoryOf(t) ==
    IF spaceOf(t) = spaceOf(current) THEN attached
    ELSE nativeFor(processMemory, sharedMemory, spaceOf(t))

\* Every task that has not exited has the memory that clone and execve gave it: processes
\* with memory of their own never see each other's, those that share do, and execve of one
\* takes nothing from another.
OwnMemory == \A t \in DOMAIN tasks : Live(tasks, t) => MemoryOf(t) = holds[t]
=============================================================================

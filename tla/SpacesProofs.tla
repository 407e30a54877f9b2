--------------------------- MODULE SpacesProofs ---------------------------
(***************************************************************************)
(* Proofs about Spaces: no process has another's memory, for any number of *)
(* tasks and programs, as long as execve leaves memory that another        *)
(* process has only where that is the first process's.                     *)
(***************************************************************************)
EXTENDS Spaces, TasksProofs

\* Where the memory of a space is found.
Where(s) ==
    IF s = tasks[current].space THEN attached
    ELSE IF s \in DOMAIN processMemory THEN processMemory[s]
    ELSE sharedMemory

\* Only the first space has no memory put aside under its name, and each has the memory
\* that was made for it.
Placed ==
    /\ First \notin DOMAIN processMemory
    /\ \A t \in DOMAIN tasks :
          /\ tasks[t].space \in DOMAIN processMemory \cup {First}
          /\ tasks[t].space < nextTid
          /\ Where(tasks[t].space)[1] = tasks[t].space

\* A process that has not exited has the memory it is to have; if that is not named after
\* it, no memory is.
Given ==
    \A t \in DOMAIN tasks :
        tasks[t].status = NoStatus =>
            /\ holds[t] = Where(tasks[t].space)
            /\ tasks[t].space # tasks[t].group =>
                  \A u \in DOMAIN tasks : tasks[u].space # tasks[t].group

Homes == Placed /\ Given

LEMMA HomesInit == SpacesInit => Homes
<1> SUFFICES ASSUME SpacesInit PROVE Homes
  OBVIOUS
<1>1. Placed
  BY DEF SpacesInit, Init, Placed, Where, First
<1>2. Given
  BY DEF SpacesInit, Init, Given, Where, First, NoStatus
<1> QED BY <1>1, <1>2 DEF Homes

\* Homes of the next state, with the space of each task named.
LEMMA HomesShown ==
    ASSUME First \notin DOMAIN processMemory',
           \A t \in DOMAIN tasks' : \A s :
              s = tasks'[t].space =>
                 /\ s \in DOMAIN processMemory' \cup {First}
                 /\ s < nextTid'
                 /\ Where(s)'[1] = s
                 /\ tasks'[t].status = NoStatus =>
                       /\ holds'[t] = Where(s)'
                       /\ s # tasks'[t].group => \A u \in DOMAIN tasks' : tasks'[u].space # tasks'[t].group
    PROVE  Homes'
<1>1. \A t \in DOMAIN tasks' : \A s : s = tasks'[t].space => (Where(tasks[t].space)' = Where(s)')
  BY DEF Where
<1>2. Placed'
  BY <1>1 DEF Placed
<1>3. Given'
  BY <1>1 DEF Given
<1> QED BY <1>2, <1>3 DEF Homes

-----------------------------------------------------------------------------
(* Steps that make no memory. *)

\* Memory stays with the spaces that a task is left in.
MemoryStays ==
    /\ First \notin DOMAIN processMemory'
    /\ \A t \in DOMAIN tasks' :
          /\ t \in DOMAIN tasks
          /\ tasks'[t].space = tasks[t].space
          /\ tasks[t].space \in DOMAIN processMemory' \cup {First}
          /\ \A s : s = tasks[t].space => Where(s)' = Where(s)

\* The tasks that are left are what they were, or have exited.
TasksStay ==
    /\ nextTid' = nextTid
    /\ \A t \in DOMAIN tasks' :
          /\ t \in DOMAIN tasks
          /\ tasks'[t].space = tasks[t].space
          /\ tasks'[t].group = tasks[t].group
          /\ tasks'[t].status = NoStatus => tasks[t].status = NoStatus
          /\ holds'[t] = holds[t]

LEMMA HomesStay ==
    ASSUME Homes, MemoryStays, TasksStay
    PROVE  Homes'
BY HomesShown DEF Homes, Placed, Given, MemoryStays, TasksStay

\* Where nothing of memory changes, nor the space that runs.
LEMMA MemoryUntouched ==
    ASSUME Core, Homes, UNCHANGED memories, UNCHANGED current, current \in DOMAIN tasks',
           \A t \in DOMAIN tasks' : t \in DOMAIN tasks /\ tasks'[t].space = tasks[t].space
    PROVE  MemoryStays
<1>1. tasks'[current'].space = tasks[current].space
  OBVIOUS
<1>2. UNCHANGED <<attached, processMemory, sharedMemory>>
  BY DEF memories
<1>3. \A s : Where(s)' = Where(s)
  BY <1>1, <1>2 DEF Where
<1> QED BY <1>2, <1>3 DEF Homes, Placed, MemoryStays

\* collectGone forgets only what no task is left in.
LEMMA KeptFact ==
    ASSUME NEW processes
    PROVE  /\ DOMAIN Kept(processes) \subseteq DOMAIN processes
           /\ \A s \in DOMAIN Kept(processes) : Kept(processes)[s] = processes[s]
           /\ \A t \in DOMAIN tasks' :
                 tasks'[t].space \in DOMAIN processes => tasks'[t].space \in DOMAIN Kept(processes)
BY DEF Kept

LEMMA MemoryForgotten ==
    ASSUME Core, Homes, UNCHANGED <<attached, sharedMemory, current>>, current \in DOMAIN tasks',
           processMemory' = Kept(processMemory),
           \A t \in DOMAIN tasks' : t \in DOMAIN tasks /\ tasks'[t].space = tasks[t].space
    PROVE  MemoryStays
<1>1. /\ DOMAIN processMemory' \subseteq DOMAIN processMemory
      /\ \A s \in DOMAIN processMemory' : processMemory'[s] = processMemory[s]
      /\ \A t \in DOMAIN tasks' :
            tasks[t].space \in DOMAIN processMemory => tasks[t].space \in DOMAIN processMemory'
  BY KeptFact
<1>2. tasks'[current'].space = tasks[current].space
  OBVIOUS
<1>3. ASSUME NEW t \in DOMAIN tasks', NEW s, s = tasks[t].space PROVE Where(s)' = Where(s)
  <2>1. s \in DOMAIN processMemory' <=> s \in DOMAIN processMemory
    BY <1>1, <1>3
  <2> QED BY <1>1, <1>2, <2>1 DEF Where
<1> QED BY <1>1, <1>3 DEF Homes, Placed, MemoryStays

\* A switch puts the memory of the thread that ran where it will be found, and takes that of
\* the next from where it is.
LEMMA MemorySwitched ==
    ASSUME Core, Homes, NEW collects \in BOOLEAN, switchNativeMemory(current', collects),
           current' \in DOMAIN tasks',
           \A t \in DOMAIN tasks' : t \in DOMAIN tasks /\ tasks'[t].space = tasks[t].space
    PROVE  MemoryStays
<1>1. PICK from, to : from = tasks[current].space /\ to = tasks[current'].space
  OBVIOUS
<1>2. /\ current \in DOMAIN tasks /\ current' \in DOMAIN tasks /\ tasks'[current'].space = to
      /\ spaceOf(current) = from /\ spaceOf(current') = to
  BY <1>1 DEF Core, TypeOK, spaceOf
<1> DEFINE own == from \in DOMAIN processMemory
           processes == IF from # to /\ own THEN [processMemory EXCEPT ![from] = attached]
                        ELSE processMemory
           shared == IF from # to /\ ~own THEN attached ELSE sharedMemory
<1>3. /\ processMemory' = IF collects THEN Kept(processes) ELSE processes
      /\ sharedMemory' = shared
      /\ attached' = IF from # to THEN nativeFor(processes, shared, to) ELSE attached
  BY <1>2 DEF switchNativeMemory
<1>4. /\ DOMAIN processes = DOMAIN processMemory
      /\ \A s \in DOMAIN processes :
            processes[s] = IF from # to /\ s = from THEN attached ELSE processMemory[s]
  OBVIOUS
<1>5. \A s : Where(s) = IF s = from THEN attached
                        ELSE IF s \in DOMAIN processes THEN processMemory[s] ELSE sharedMemory
  BY <1>1, <1>4 DEF Where
<1>6. /\ First \notin DOMAIN processes
      /\ \A t \in DOMAIN tasks : tasks[t].space \in DOMAIN processes \cup {First}
  BY <1>4 DEF Homes, Placed
<1>7. own <=> from \in DOMAIN processes
  BY <1>4
<1>8. attached' = IF from = to THEN attached
                  ELSE IF to \in DOMAIN processes THEN processes[to] ELSE shared
  BY <1>3 DEF nativeFor
<1>9. shared = IF from # to /\ from \notin DOMAIN processes THEN attached ELSE sharedMemory
  BY <1>7
<1> HIDE DEF processes, shared, own
<1>10. /\ DOMAIN processMemory' \subseteq DOMAIN processes
       /\ \A s \in DOMAIN processMemory' : processMemory'[s] = processes[s]
       /\ \A t \in DOMAIN tasks' :
             tasks[t].space \in DOMAIN processes => tasks[t].space \in DOMAIN processMemory'
  <2>1. CASE collects
    BY <1>3, <2>1, KeptFact
  <2>2. CASE ~collects
    BY <1>3, <2>2
  <2> QED BY <2>1, <2>2
<1>11. ASSUME NEW t \in DOMAIN tasks', NEW s, s = tasks[t].space
       PROVE  /\ Where(s)' = Where(s)
              /\ s \in DOMAIN processMemory' \cup {First}
  <2>1. /\ s \in DOMAIN processMemory' <=> s \in DOMAIN processes
        /\ s \in DOMAIN processes \cup {First}
    BY <1>6, <1>10, <1>11
  <2>2. from \in DOMAIN processes \cup {First} /\ to \in DOMAIN processes \cup {First}
    BY <1>1, <1>2, <1>6
  <2>3. Where(s)' = IF s = to THEN attached'
                    ELSE IF s \in DOMAIN processes THEN processes[s] ELSE shared
    BY <1>2, <1>3, <1>10, <2>1 DEF Where
  <2>4. Where(s) = IF s = from THEN attached
                   ELSE IF s \in DOMAIN processes THEN processMemory[s] ELSE sharedMemory
    BY <1>5
  <2>5. CASE from = to
    BY <1>4, <1>8, <1>9, <2>1, <2>3, <2>4, <2>5
  <2>6. CASE from # to
    BY <1>4, <1>6, <1>8, <1>9, <2>1, <2>2, <2>3, <2>4, <2>6
  <2> QED BY <2>1, <2>5, <2>6
<1> QED BY <1>6, <1>10, <1>11 DEF MemoryStays

-----------------------------------------------------------------------------
(* Steps that make memory. *)

LEMMA HomesClone ==
    ASSUME Core, Kin, Homes, NEW vm \in BOOLEAN, NEW thread \in BOOLEAN, NEW vfork \in BOOLEAN,
           cloneProcessMemory(vm, thread, vfork, NoWord)
    PROVE  Homes'
<1> DEFINE own == <<nextTid, tasks[current].selfExecId>>
<1>1. clone(vm, thread, vfork, NoWord) /\ TableCloned
  BY TableClone DEF cloneProcessMemory
<1>2. /\ current \in DOMAIN tasks /\ tasks[current].status = NoStatus /\ current' = current
      /\ nextTid \notin DOMAIN tasks /\ nextTid' = nextTid + 1 /\ nextTid \in Nat
      /\ nextTid # First
      /\ DOMAIN tasks' = DOMAIN tasks \cup {nextTid}
      /\ \A t \in DOMAIN tasks : tasks'[t] = tasks[t]
  BY <1>1, TasksAssumption DEF TableCloned, Live, clone, Core, TypeOK, First
<1>3. /\ tasks'[nextTid].space = IF vm THEN tasks[current].space ELSE nextTid
      /\ tasks'[nextTid].group = IF thread THEN tasks[current].group ELSE nextTid
      /\ tasks'[nextTid].status = NoStatus
      /\ thread => vm
  BY <1>1, <1>2 DEF clone, Me
<1>4. /\ UNCHANGED <<attached, sharedMemory>>
      /\ DOMAIN processMemory' = IF vm THEN DOMAIN processMemory ELSE DOMAIN processMemory \cup {nextTid}
      /\ \A s \in DOMAIN processMemory' :
            processMemory'[s] = IF ~vm /\ s = nextTid THEN own ELSE processMemory[s]
      /\ \A t \in DOMAIN tasks : holds'[t] = holds[t]
      /\ holds'[nextTid] = IF vm THEN holds[current] ELSE own
  BY <1>2 DEF cloneProcessMemory, Me
<1>5. own[1] = nextTid
  OBVIOUS
<1> HIDE DEF own
<1>6. \A t \in DOMAIN tasks : /\ tasks[t].space \in Nat /\ tasks[t].space # nextTid
                              /\ tasks[t].group # nextTid
                              /\ tasks[t].space < nextTid + 1
  <2>1. \A t \in DOMAIN tasks : tasks[t].space \in Nat /\ tasks[t].group \in DOMAIN tasks
    BY IdsFact DEF Core, TypeOK, Entry, LeaderPresent
  <2> QED BY <1>2, <2>1 DEF Homes, Placed
<1>7. tasks'[current'].space = tasks[current].space
  BY <1>2
<1>8. \A s : s # nextTid => Where(s)' = Where(s)
  BY <1>4, <1>7 DEF Where
<1>9. \A s : ~vm /\ s = nextTid => (Where(s)' = own)
  BY <1>2, <1>4, <1>6, <1>7 DEF Where
<1>10. ASSUME NEW t \in DOMAIN tasks, NEW s, s = tasks'[t].space
       PROVE  /\ s \in DOMAIN processMemory' \cup {First}
              /\ s < nextTid'
              /\ Where(s)'[1] = s
              /\ tasks'[t].status = NoStatus =>
                    /\ holds'[t] = Where(s)'
                    /\ s # tasks'[t].group => \A u \in DOMAIN tasks' : tasks'[u].space # tasks'[t].group
  <2>1. s = tasks[t].space /\ s # nextTid /\ Where(s)' = Where(s)
    BY <1>2, <1>6, <1>8, <1>10
  <2>2. s \in DOMAIN processMemory' \cup {First} /\ s < nextTid' /\ Where(s)[1] = s
    BY <1>2, <1>4, <1>6, <2>1 DEF Homes, Placed
  <2>3. ASSUME tasks[t].status = NoStatus
        PROVE  /\ holds[t] = Where(s)
               /\ s # tasks[t].group => \A u \in DOMAIN tasks : tasks[u].space # tasks[t].group
    BY <2>1, <2>3 DEF Homes, Given
  <2> QED BY <1>2, <1>3, <1>4, <1>6, <2>1, <2>2, <2>3
<1>11. ASSUME NEW s, s = tasks'[nextTid].space
       PROVE  /\ s \in DOMAIN processMemory' \cup {First}
              /\ s < nextTid'
              /\ Where(s)'[1] = s
              /\ holds'[nextTid] = Where(s)'
              /\ s # tasks'[nextTid].group => \A u \in DOMAIN tasks' : tasks'[u].space # tasks'[nextTid].group
  <2>1. CASE ~vm
    BY <1>2, <1>3, <1>4, <1>5, <1>9, <1>11, <2>1
  <2>2. CASE vm
    <3>1. s = tasks[current].space /\ s # nextTid /\ Where(s)' = Where(s)
      BY <1>2, <1>3, <1>6, <1>8, <1>11, <2>2
    <3>2. s \in DOMAIN processMemory' \cup {First} /\ s < nextTid' /\ Where(s)[1] = s
      BY <1>2, <1>4, <1>6, <3>1 DEF Homes, Placed
    <3>3. /\ holds[current] = Where(s)
          /\ s # tasks[current].group => \A u \in DOMAIN tasks : tasks[u].space # tasks[current].group
      BY <1>2, <3>1 DEF Homes, Given
    <3> QED BY <1>2, <1>3, <1>4, <1>6, <2>2, <3>1, <3>2, <3>3
  <2> QED BY <2>1, <2>2
<1>12. First \notin DOMAIN processMemory'
  BY <1>2, <1>4 DEF Homes, Placed
<1> QED BY <1>2, <1>10, <1>11, <1>12, HomesShown

\* What is to be shared is what is shared: memory is named after its space.
LEMMA SharesTruly ==
    ASSUME Core, Homes, Runs
    PROVE  TrulyShared <=> Shares
<1>1. current \in DOMAIN tasks /\ tasks[current].status = NoStatus /\ Me = tasks[current]
  BY RunsFact DEF Me
<1>2. ASSUME NEW t \in DOMAIN tasks, tasks[t].status = NoStatus
      PROVE  holds[t] = holds[current] <=> tasks[t].space = tasks[current].space
  BY <1>1, <1>2 DEF Homes, Placed, Given
<1> QED BY <1>1, <1>2 DEF TrulyShared, Shares, Live

LEMMA HomesLeave ==
    ASSUME Leaves \subseteq {"first"}, Core, Kin, Homes, leaveSharedMemory
    PROVE  Homes'
<1>1. PICK group, space : group = tasks[current].group /\ space = tasks[current].space
  OBVIOUS
<1>2. /\ Runs /\ execute /\ TableExec(current) /\ current \in DOMAIN tasks /\ Me = tasks[current]
      /\ tasks'[group].space = IF Shares THEN group ELSE space
      /\ tasks[current].status = NoStatus
      /\ current' = group
  BY <1>1, TableExecute, GroupPlainly, RunsFact DEF leaveSharedMemory, Kin, execute, Me
<1>3. group \in DOMAIN tasks /\ tasks[group].group = group /\ group \in DOMAIN tasks'
  BY <1>1, <1>2 DEF TableExec, Core, LeaderPresent
<1>4. /\ nextTid' = nextTid
      /\ \A t \in DOMAIN tasks' :
            /\ t \in DOMAIN tasks
            /\ tasks'[t].group = tasks[t].group
            /\ t # group => tasks'[t].space = tasks[t].space
            /\ t # group /\ tasks'[t].status = NoStatus =>
                  tasks[t].status = NoStatus /\ tasks[t].group # group
  BY <1>1, <1>2 DEF TableExec
<1>5. /\ holds[current] = Where(space)
      /\ space # group => \A u \in DOMAIN tasks : tasks[u].space # group
      /\ space \in DOMAIN processMemory \cup {First} /\ space < nextTid /\ Where(space)[1] = space
      /\ Where(space) = attached
  BY <1>1, <1>2 DEF Homes, Placed, Given, Where
<1>6. CASE ~Shares
  <2>1. ~TrulyShared
    BY <1>2, <1>6, SharesTruly
  <2>2. /\ UNCHANGED <<attached, sharedMemory, processMemory>>
        /\ \A t \in DOMAIN tasks' : holds'[t] = IF t # group THEN holds[t] ELSE holds[current]
    BY <1>1, <1>2, <1>6, <2>1 DEF leaveSharedMemory
  <2>3. \A s : Where(s)' = Where(s)
    BY <1>1, <1>2, <1>6, <2>2 DEF Where
  <2>4. ASSUME NEW t \in DOMAIN tasks', NEW s, s = tasks'[t].space
        PROVE  /\ s \in DOMAIN processMemory' \cup {First}
               /\ s < nextTid'
               /\ Where(s)'[1] = s
               /\ tasks'[t].status = NoStatus =>
                     /\ holds'[t] = Where(s)'
                     /\ s # tasks'[t].group => \A u \in DOMAIN tasks' : tasks'[u].space # tasks'[t].group
    <3>1. CASE t = group
      BY <1>1, <1>2, <1>3, <1>4, <1>5, <1>6, <2>2, <2>3, <2>4, <3>1
    <3>2. CASE t # group
      <4>1. s = tasks[t].space
        BY <1>4, <2>4, <3>2
      <4>2. s \in DOMAIN processMemory \cup {First} /\ s < nextTid /\ Where(s)[1] = s
        BY <1>4, <4>1 DEF Homes, Placed
      <4>3. ASSUME tasks[t].status = NoStatus
            PROVE  /\ holds[t] = Where(s)
                   /\ s # tasks[t].group => \A u \in DOMAIN tasks : tasks[u].space # tasks[t].group
        BY <1>4, <4>1, <4>3 DEF Homes, Given
      <4>4. \A u \in DOMAIN tasks' : \E v \in DOMAIN tasks : tasks'[u].space = tasks[v].space
        BY <1>1, <1>2, <1>4, <1>6
      <4> QED BY <1>4, <2>2, <2>3, <3>2, <4>1, <4>2, <4>3, <4>4
    <3> QED BY <3>1, <3>2
  <2>5. First \notin DOMAIN processMemory'
    BY <2>2 DEF Homes, Placed
  <2> QED BY <2>4, <2>5, HomesShown
<1>7. CASE Shares
  <2>1. TrulyShared /\ space = First /\ group # First
    BY <1>1, <1>2, <1>7, SharesTruly DEF leaveSharedMemory, Left
  <2>2. PICK own : own = <<group, tasks[current].selfExecId + 1>>
    OBVIOUS
  <2>3. /\ attached' = own /\ sharedMemory' = attached
        /\ DOMAIN processMemory' = DOMAIN processMemory \cup {group}
        /\ \A s \in DOMAIN processMemory' : processMemory'[s] = IF s = group THEN own ELSE processMemory[s]
        /\ \A t \in DOMAIN tasks' : holds'[t] = IF t # group THEN holds[t] ELSE own
    BY <1>1, <1>2, <1>7, <2>1, <2>2 DEF leaveSharedMemory
  <2>4. First \notin DOMAIN processMemory'
    BY <2>1, <2>3 DEF Homes, Placed
  <2>5. \A s \in DOMAIN processMemory \cup {First, group} :
           Where(s)' = IF s = group THEN own ELSE Where(s)
    BY <1>1, <1>2, <1>7, <2>1, <2>3, <2>4 DEF Where
  <2>6. \A t \in DOMAIN tasks : tasks[t].space # group
    BY <1>5, <2>1
  <2>7. group < nextTid
    BY <1>3 DEF Core, TypeOK
  <2>8. ASSUME NEW t \in DOMAIN tasks', NEW s, s = tasks'[t].space
        PROVE  /\ s \in DOMAIN processMemory' \cup {First}
               /\ s < nextTid'
               /\ Where(s)'[1] = s
               /\ tasks'[t].status = NoStatus =>
                     /\ holds'[t] = Where(s)'
                     /\ s # tasks'[t].group => \A u \in DOMAIN tasks' : tasks'[u].space # tasks'[t].group
    <3>1. CASE t = group
      BY <1>2, <1>3, <1>4, <1>7, <2>2, <2>3, <2>5, <2>7, <2>8, <3>1
    <3>2. CASE t # group
      <4>1. s = tasks[t].space /\ s # group
        BY <1>4, <2>6, <2>8, <3>2
      <4>2. s \in DOMAIN processMemory \cup {First} /\ s < nextTid /\ Where(s)[1] = s
        BY <1>4, <4>1 DEF Homes, Placed
      <4>3. ASSUME tasks[t].status = NoStatus
            PROVE  /\ holds[t] = Where(s)
                   /\ s # tasks[t].group => \A u \in DOMAIN tasks : tasks[u].space # tasks[t].group
        BY <1>4, <4>1, <4>3 DEF Homes, Given
      <4>4. \A u \in DOMAIN tasks' : tasks'[u].space = IF u = group THEN group ELSE tasks[u].space
        BY <1>2, <1>4, <1>7
      <4> QED BY <1>4, <2>3, <2>5, <3>2, <4>1, <4>2, <4>3, <4>4
    <3> QED BY <3>1, <3>2
  <2> QED BY <2>4, <2>8, HomesShown
<1> QED BY <1>6, <1>7

-----------------------------------------------------------------------------
(* Each step, and the theorem. *)

\* A step that takes tasks from the table, or none.
LEMMA LessStays ==
    ASSUME Homes, NEW p, TableLess(p) \/ UNCHANGED <<tasks, nextTid>>, StillHeld
    PROVE  TasksStay
BY DEF TableLess, StillHeld, TasksStay

LEMMA HomesWait ==
    ASSUME Core, Homes, NEW target \in Tids \cup {None}, waitMemory(target)
    PROVE  Homes'
<1>1. /\ serveWait(target) /\ StillHeld /\ UNCHANGED <<attached, sharedMemory, current>>
      /\ processMemory' = IF DOMAIN tasks' = DOMAIN tasks THEN processMemory ELSE Kept(processMemory)
      /\ current \in DOMAIN tasks
  BY DEF waitMemory, serveWait, Core, TypeOK
<1>2. PICK p : TableLess(p) \/ UNCHANGED <<tasks, nextTid>>
  BY <1>1, TableServeWait
<1>3. TasksStay
  BY <1>1, <1>2, LessStays
<1>4. current \in DOMAIN tasks'
  BY <1>1, RunsFact, TableServeWait DEF serveWait, TableLess, Told, Me
<1>5. \A t \in DOMAIN tasks' : t \in DOMAIN tasks /\ tasks'[t].space = tasks[t].space
  BY <1>3 DEF TasksStay
<1>6. CASE DOMAIN tasks' # DOMAIN tasks
  <2>1. MemoryStays
    BY <1>1, <1>4, <1>5, <1>6, MemoryForgotten
  <2> QED BY <1>3, <2>1, HomesStay
<1>7. CASE processMemory' = processMemory
  <2>1. tasks'[current'].space = tasks[current].space
    BY <1>1, <1>4, <1>5
  <2>2. \A s : Where(s)' = Where(s)
    BY <1>1, <1>7, <2>1 DEF Where
  <2>3. MemoryStays
    BY <1>5, <1>7, <2>2 DEF MemoryStays, Homes, Placed
  <2> QED BY <1>3, <2>3, HomesStay
<1> QED BY <1>1, <1>6, <1>7

LEMMA HomesSwitch ==
    ASSUME Core, Homes, switchMemory
    PROVE  Homes'
<1>1. switchNextThread /\ switchNativeMemory(current', FALSE) /\ UNCHANGED holds
  BY DEF switchMemory
<1>2. UNCHANGED <<tasks, nextTid>> /\ current' \in DOMAIN tasks
  BY <1>1, PickFact DEF switchNextThread, table, Core
<1>3. MemoryStays
  BY <1>1, <1>2, MemorySwitched
<1>4. TasksStay
  BY <1>1, <1>2 DEF TasksStay
<1> QED BY <1>3, <1>4, HomesStay

LEMMA HomesSchedule ==
    ASSUME Core, Core', Homes, scheduleMemory
    PROVE  Homes'
<1>1. scheduleSwitch /\ switchNativeMemory(current', TRUE) /\ StillHeld
  BY DEF scheduleMemory
<1>2. TableLess(None) /\ current' \in DOMAIN tasks'
  BY <1>1, TableScheduleSwitch DEF Core, TypeOK
<1>3. MemoryStays
  BY <1>1, <1>2, MemorySwitched DEF TableLess
<1>4. TasksStay
  BY <1>1, <1>2, LessStays
<1> QED BY <1>3, <1>4, HomesStay

LEMMA HomesSettle ==
    ASSUME Core, Core', Homes, NEW w \in Tids, settleMemory(w)
    PROVE  Homes'
<1>1. settleOne(w) /\ StillHeld /\ w \in DOMAIN waiters /\ current \in DOMAIN tasks
  BY DEF settleMemory, settleOne, Foremost, Core, TypeOK
<1>2. PICK p : TableLess(p) \/ UNCHANGED <<tasks, nextTid>>
  BY <1>1, TableSettleOne
<1>3. TasksStay
  BY <1>1, <1>2, LessStays
<1>4. \A t \in DOMAIN tasks' : t \in DOMAIN tasks /\ tasks'[t].space = tasks[t].space
  BY <1>3 DEF TasksStay
<1>5. current' \in DOMAIN tasks'
  BY DEF Core, TypeOK
<1>6. CASE w \notin DOMAIN waiters'
  <2>1. switchNativeMemory(current', TRUE)
    BY <1>6 DEF settleMemory
  <2>2. MemoryStays
    BY <1>4, <1>5, <2>1, MemorySwitched
  <2> QED BY <1>3, <2>2, HomesStay
<1>7. CASE w \in DOMAIN waiters'
  <2>1. UNCHANGED <<tasks, current>>
    BY <1>1, <1>7 DEF settleOne, Leave
  <2>2. UNCHANGED <<attached, processMemory, sharedMemory>>
    BY <1>7 DEF settleMemory
  <2>3. \A s : Where(s)' = Where(s)
    BY <2>1, <2>2 DEF Where
  <2>4. MemoryStays
    BY <1>4, <2>1, <2>2, <2>3 DEF MemoryStays, Homes, Placed
  <2> QED BY <1>3, <2>4, HomesStay
<1> QED BY <1>6, <1>7

LEMMA HomesElsewhere ==
    ASSUME Core, Homes, Elsewhere, UNCHANGED memories
    PROVE  Homes'
<1>1. UNCHANGED current /\ nextTid' = nextTid
  BY DEF Elsewhere, exitThread, exitProcess, tgkill, fault, markExited, TurnEnds, Settled, scheduleRun,
         scheduleDone
<1>2. /\ DOMAIN tasks' = DOMAIN tasks
      /\ \A t \in DOMAIN tasks :
            /\ tasks'[t].space = tasks[t].space
            /\ tasks'[t].group = tasks[t].group
            /\ tasks'[t].status = NoStatus => tasks[t].status = NoStatus
  <2>1. CASE \E code \in Codes : exitThread(code)
    <3>1. TableOut(current)
      BY <2>1, TableExitThread
    <3> QED BY <3>1 DEF TableOut, Live
  <2>2. CASE \/ \E code \in Codes : exitProcess(code)
             \/ \E target \in Tids, signal \in Signals : tgkill(target, signal)
             \/ fault
    <3>1. UNCHANGED <<table, nextTid>> \/ \E group \in Tids : TableEnd(group)
      BY <2>2, TableEnds
    <3>2. CASE UNCHANGED <<table, nextTid>>
      BY <3>2 DEF table
    <3>3. CASE \E group \in Tids : TableEnd(group)
      BY <3>3 DEF TableEnd
    <3> QED BY <3>1, <3>2, <3>3
  <2>3. CASE TurnEnds \/ Settled \/ scheduleRun \/ scheduleDone
    BY <2>3 DEF TurnEnds, Settled, scheduleRun, scheduleDone, table
  <2> QED BY <2>1, <2>2, <2>3 DEF Elsewhere
<1>3. current \in DOMAIN tasks /\ UNCHANGED holds
  BY DEF Core, TypeOK, memories
<1>4. MemoryStays
  BY <1>1, <1>2, <1>3, MemoryUntouched
<1>5. TasksStay
  BY <1>1, <1>2, <1>3 DEF TasksStay
<1> QED BY <1>4, <1>5, HomesStay

\* What Spaces adds to Tasks takes nothing from it.
LEMMA SpacesStep == [SpacesNext]_spaceVars => [Next]_vars
<1>1. ASSUME SpacesNext PROVE Next
  BY <1>1 DEF SpacesNext, cloneProcessMemory, leaveSharedMemory, waitMemory, switchMemory, scheduleMemory,
              settleMemory, Elsewhere, Next, Call, Scheduler
<1>2. ASSUME UNCHANGED spaceVars PROVE UNCHANGED vars
  BY <1>2 DEF spaceVars
<1> QED BY <1>1, <1>2

LEMMA HomesNext ==
    ASSUME Leaves \subseteq {"first"}, Core, Core', Kin, Homes, [SpacesNext]_spaceVars
    PROVE  Homes'
<1>1. CASE \E vm, thread, vfork \in BOOLEAN : cloneProcessMemory(vm, thread, vfork, NoWord)
  BY <1>1, HomesClone
<1>2. CASE leaveSharedMemory
  BY <1>2, HomesLeave
<1>3. CASE \E target \in Tids \cup {None} : waitMemory(target)
  BY <1>3, HomesWait
<1>4. CASE \E w \in Tids : settleMemory(w)
  BY <1>4, HomesSettle
<1>5. CASE UNCHANGED spaceVars
  BY <1>5 DEF spaceVars, vars, memories, Homes, Placed, Given, Where
<1> QED
  BY <1>1, <1>2, <1>3, <1>4, <1>5, HomesSwitch, HomesSchedule, HomesElsewhere DEF SpacesNext

\* Every task that has not exited has the memory that clone and execve gave it, for any number
\* of tasks, provided that execve leaves memory that another process has only where that is
\* the first process's: leaveSharedMemory puts what it leaves aside as that of the threads
\* without their own, which is right for that memory only.
THEOREM OwnMemoryAlways ==
    ASSUME Leaves \subseteq {"first"}
    PROVE  SpacesSpec => []OwnMemory
<1>1. SpacesSpec => Spec
  <2>1. SpacesInit => Init
    BY DEF SpacesInit
  <2> QED BY <2>1, SpacesStep, PTL DEF SpacesSpec, Spec
<1>2. Core /\ Core' /\ Kin /\ Homes /\ [SpacesNext]_spaceVars => Homes'
  BY HomesNext
<1>3. Core /\ Homes => OwnMemory
  BY DEF Core, TypeOK, Homes, Given, Where, OwnMemory, MemoryOf, spaceOf, nativeFor, Live
<1> QED BY <1>1, <1>2, <1>3, HomesInit, CoreAlways, KinAlways, PTL DEF SpacesSpec
=========================

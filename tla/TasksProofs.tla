---------------------------- MODULE TasksProofs ----------------------------
(***************************************************************************)
(* Proofs about Tasks, for any number of tasks, words and programs.        *)
(***************************************************************************)
EXTENDS Tasks, TLAPS, WellFoundedInduction, FiniteSetTheorems

-----------------------------------------------------------------------------
(* Lemmas about the operators of the table. *)

\* A set of ids that is not empty has a lowest, which `pickNext', `poll' and `initTask'
\* take.
LEMMA MinFact ==
    ASSUME NEW S \in SUBSET Nat, S # {}
    PROVE  Min(S) \in S /\ \A y \in S : Min(S) <= y
<1> DEFINE Less == {ss \in Nat \X Nat : ss[1] < ss[2]}
<1>1. IsWellFoundedOn(Less, Nat)
  BY NatLessThanWellFounded, Zenon DEF OpToRel
<1>2. \E x \in S : \A y \in S : ~(<<y, x>> \in Less)
  <2> HIDE DEF Less
  <2> QED BY <1>1, WFMin, Zenon
<1>3. PICK x \in S : \A y \in S : ~(<<y, x>> \in Less)
  BY <1>2
<1>4. ASSUME NEW y \in S PROVE x <= y
  <2>1. <<y, x>> \in Nat \X Nat
    OBVIOUS
  <2>2. ~(<<y, x>>[1] < <<y, x>>[2])
    BY <1>3, <2>1
  <2> QED BY <2>2
<1> QED
  BY <1>4 DEF Min

\* What leaving a queue does to those that stay.
LEMMA LeaveWaiters ==
    ASSUME NEW Q, Q \in [DOMAIN Q -> Waiter], NEW gone
    PROVE  /\ Leave(Q, gone) \in [DOMAIN Q \ gone -> Waiter]
           /\ DOMAIN Leave(Q, gone) = DOMAIN Q \ gone
           /\ \A t \in DOMAIN Q \ gone : Leave(Q, gone)[t].target = Q[t].target
BY DEF Leave, Waiter

LEMMA LeaveFutexes ==
    ASSUME NEW Q, Q \in [DOMAIN Q -> FutexWaiter], NEW gone
    PROVE  /\ Leave(Q, gone) \in [DOMAIN Q \ gone -> FutexWaiter]
           /\ DOMAIN Leave(Q, gone) = DOMAIN Q \ gone
           /\ \A t \in DOMAIN Q \ gone :
                 /\ Leave(Q, gone)[t].space = Q[t].space
                 /\ Leave(Q, gone)[t].address = Q[t].address
                 /\ Leave(Q, gone)[t].timed = Q[t].timed
BY DEF Leave, FutexWaiter

\* Statuses are never what stands for a task that has not exited.
LEMMA Statuses ==
    /\ \A code \in Codes : exitedStatus(code) \in Nat /\ exitedStatus(code) # NoStatus
    /\ \A signal \in Signals : signaledStatus(signal) \in Nat /\ signaledStatus(signal) # NoStatus
    /\ signaledStatus(11) \in Nat /\ signaledStatus(11) # NoStatus
BY TasksAssumption DEF exitedStatus, signaledStatus, NoStatus

-----------------------------------------------------------------------------
(* The inductive invariant. *)

\* A process is in the table by its leader, which names it.
LeaderPresent ==
    \A t \in DOMAIN tasks :
        /\ tasks[t].group \in DOMAIN tasks
        /\ tasks[tasks[t].group].group = tasks[t].group

\* While settling, the waiter that would run next has not exited.
WokeLive == woke # None => Live(tasks, woke)

\* Nothing is left of settling once it is done.
Idle == phase # "settle" => todo = {} /\ woke = None

Core == TypeOK /\ StoppedIffWaiting /\ LeaderPresent /\ WokeLive /\ Idle

LEMMA CoreInit == Init => Core
<1> SUFFICES ASSUME Init PROVE Core
  OBVIOUS
<1> USE TasksAssumption DEF Init, First, None, NoStatus, Tids
<1>1. TypeOK
  BY DEF TypeOK, Entry
<1>2. StoppedIffWaiting
  BY DEF StoppedIffWaiting, blocked
<1>3. LeaderPresent
  BY DEF LeaderPresent
<1>4. WokeLive
  BY DEF WokeLive
<1>5. Idle
  BY DEF Idle
<1> QED
  BY <1>1, <1>2, <1>3, <1>4, <1>5 DEF Core

\* The thread that runs has not exited and is in no queue.
LEMMA RunsFact ==
    ASSUME Core, Runs
    PROVE  /\ current \in DOMAIN tasks
           /\ Me \in Entry
           /\ Me.status = NoStatus
           /\ current \notin DOMAIN waiters
           /\ current \notin DOMAIN futexes
BY DEF Core, TypeOK, StoppedIffWaiting, blocked, Runs, Me

\* Every id in the state is one.
LEMMA IdsFact ==
    ASSUME TypeOK
    PROVE  /\ Tids \subseteq Nat
           /\ DOMAIN tasks \subseteq Tids
           /\ DOMAIN waiters \subseteq Tids
           /\ DOMAIN futexes \subseteq Tids
           /\ None \notin DOMAIN tasks
BY TasksAssumption DEF TypeOK, Tids, None

LEMMA CoreClone ==
    ASSUME Core, NEW vm \in BOOLEAN, NEW thread \in BOOLEAN, NEW vfork \in BOOLEAN,
           NEW word \in Words \cup {NoWord}, clone(vm, thread, vfork, word)
    PROVE  Core'
<1> USE DEF Core
<1>1. Runs /\ nextTid \in Tids /\ nextTid \notin DOMAIN tasks /\ nextTid # current
  BY IdsFact, TasksAssumption DEF clone, TypeOK, Tids
<1>2. TypeOK'
  <2>1. tasks' \in [DOMAIN tasks' -> Entry] /\ DOMAIN tasks' = DOMAIN tasks \cup {nextTid}
    BY <1>1, RunsFact DEF clone, TypeOK, Entry, Tids, None
  <2>2. futexes' \in [DOMAIN futexes' -> FutexWaiter] /\ DOMAIN futexes' \subseteq DOMAIN futexes \cup {current}
    <3>1. CASE ~vfork
      BY <3>1 DEF clone, TypeOK
    <3>2. CASE vfork
      <4> DEFINE V == [space |-> VforkSpace, address |-> nextTid, bitset |-> Bits,
                       timed |-> FALSE, ahead |-> DOMAIN futexes]
      <4>1. V \in FutexWaiter
        BY <1>1, IdsFact DEF FutexWaiter
      <4>2. futexes' = Join(futexes, current, V)
        BY <3>2 DEF clone
      <4> HIDE DEF V
      <4>3. futexes \in [DOMAIN futexes -> FutexWaiter]
        BY DEF TypeOK
      <4>4. /\ Join(futexes, current, V) \in [DOMAIN futexes \cup {current} -> FutexWaiter]
            /\ DOMAIN Join(futexes, current, V) = DOMAIN futexes \cup {current}
        BY <4>1, <4>3 DEF Join
      <4> QED BY <4>2, <4>4
    <3> QED BY <3>1, <3>2
  <2>3. stopped' \in [DOMAIN tasks' -> BOOLEAN]
    BY <2>1 DEF clone, TypeOK
  <2>4. nextTid' \in 2 .. MaxTid + 1 /\ DOMAIN tasks' \subseteq 1 .. nextTid' - 1
    BY <2>1, TasksAssumption DEF clone, TypeOK
  <2> QED
    BY <2>1, <2>2, <2>3, <2>4 DEF clone, TypeOK, sched
<1>3. StoppedIffWaiting'
  <2>1. /\ DOMAIN tasks' = DOMAIN tasks \cup {nextTid}
        /\ \A t \in DOMAIN tasks : tasks'[t] = tasks[t]
        /\ tasks'[nextTid].status = NoStatus
    BY <1>1 DEF clone
  <2>2. /\ \A t \in DOMAIN tasks : stopped'[t] = (stopped[t] \/ (vfork /\ t = current))
        /\ stopped'[nextTid] = FALSE
    BY <1>1 DEF clone, TypeOK
  <2>3. DOMAIN waiters' = DOMAIN waiters
    BY DEF clone
  <2>4. DOMAIN futexes' = DOMAIN futexes \cup (IF vfork THEN {current} ELSE {})
    BY DEF clone, Join
  <2>5. nextTid \notin DOMAIN waiters /\ nextTid \notin DOMAIN futexes
    BY <1>1 DEF TypeOK
  <2> QED
    BY <1>1, RunsFact, <2>1, <2>2, <2>3, <2>4, <2>5 DEF StoppedIffWaiting, blocked, Me
<1>4. LeaderPresent'
  BY <1>1, RunsFact DEF clone, LeaderPresent, TypeOK, Me
<1>5. WokeLive'
  BY <1>1 DEF clone, WokeLive, Live, sched
<1>6. Idle'
  BY DEF clone, Idle, sched
<1> QED BY <1>2, <1>3, <1>4, <1>5, <1>6

-----------------------------------------------------------------------------
(* What reaping and collecting leave. *)

\* Nothing that runs is of a process that can be reported.
LEMMA ReportedOver ==
    ASSUME NEW T, NEW children, NEW p \in report(T, children)
    PROVE  /\ p \in children
           /\ \A t \in DOMAIN T : T[t].status = NoStatus => T[t].group # p
BY DEF report, alone

LEMMA CollectFact ==
    ASSUME TypeOK, LeaderPresent,
           NEW D \in SUBSET DOMAIN tasks, NEW S \in [DOMAIN tasks -> BOOLEAN], NEW running \in D,
           \A t \in D : tasks[t].group \in D,
           collectGone(Only(tasks, D), S, running)
    PROVE  /\ tasks' \in [DOMAIN tasks' -> Entry]
           /\ DOMAIN tasks' \subseteq D
           /\ \A t \in DOMAIN tasks' : tasks'[t] = tasks[t]
           /\ stopped' \in [DOMAIN tasks' -> BOOLEAN]
           /\ \A t \in DOMAIN tasks' : stopped'[t] = S[t]
           /\ \A t \in D : tasks[t].status = NoStatus => t \in DOMAIN tasks'
           /\ \A t \in D : tasks[t].group = t => t \in DOMAIN tasks'
           /\ running \in DOMAIN tasks'
           /\ LeaderPresent'
<1> DEFINE E == {t \in D : t = tasks[t].group \/ tasks[t].status = NoStatus \/ t = running}
<1>1. DOMAIN Only(tasks, D) = D /\ \A t \in D : Only(tasks, D)[t] = tasks[t]
  BY DEF Only
<1>2. sweep(Only(tasks, D), running) = [t \in E |-> tasks[t]]
  BY <1>1 DEF sweep, Only
<1>3. tasks' = [t \in E |-> tasks[t]]
  BY <1>2 DEF collectGone
<1>4. stopped' = [t \in {u \in DOMAIN S : u = running \/ u \in E} |-> S[t]]
  BY <1>2 DEF collectGone, KeptContexts, Only
<1>5. {u \in DOMAIN S : u = running \/ u \in E} = E
  OBVIOUS
<1>6. LeaderPresent'
  <2> SUFFICES ASSUME NEW t \in E
               PROVE  tasks[t].group \in E /\ tasks[tasks[t].group].group = tasks[t].group
    BY <1>3 DEF LeaderPresent
  <2> QED BY DEF LeaderPresent
<1> QED
  BY <1>3, <1>4, <1>5, <1>6 DEF TypeOK

\* Reaping a process that is over takes all of it and nothing that runs.
LEMMA ReapFact ==
    ASSUME TypeOK, LeaderPresent, NEW children, NEW p \in report(tasks, children)
    PROVE  \E D \in SUBSET DOMAIN tasks :
              /\ reap(tasks, p) = Only(tasks, D)
              /\ D = {t \in DOMAIN tasks : tasks[t].group # p}
              /\ \A t \in D : tasks[t].group \in D
              /\ \A t \in DOMAIN tasks : tasks[t].status = NoStatus => t \in D
<1> DEFINE D == DOMAIN tasks \ Members(tasks, p)
<1>1. reap(tasks, p) = Only(tasks, D)
  BY DEF reap
<1>2. D = {t \in DOMAIN tasks : tasks[t].group # p}
  BY DEF Members
<1>3. \A t \in DOMAIN tasks : tasks[t].status = NoStatus => t \in D
  BY <1>2, ReportedOver
<1>4. \A t \in D : tasks[t].group \in D
  BY <1>2 DEF LeaderPresent
<1> QED
  BY <1>1, <1>2, <1>3, <1>4

LEMMA OnlyAll ==
    ASSUME TypeOK
    PROVE  tasks = Only(tasks, DOMAIN tasks)
BY DEF TypeOK, Only

-----------------------------------------------------------------------------
(* Each action preserves the core of the invariant. *)

LEMMA CoreServeWait ==
    ASSUME Core, NEW target \in Tids \cup {None}, serveWait(target)
    PROVE  Core'
<1> USE DEF Core
<1> DEFINE children == asked(tasks, Me.group, target)
           over == report(tasks, children)
<1>1. Runs
  BY DEF serveWait
<1>2. CASE over # {} /\ collectGone(reap(tasks, Min(over)), stopped, current) /\ UNCHANGED waiters
  <2>1. over \in SUBSET Nat
    BY IdsFact DEF report, asked
  <2>2. Min(over) \in report(tasks, children)
    BY <2>1, <1>2, MinFact
  <2>3. PICK D \in SUBSET DOMAIN tasks :
              /\ reap(tasks, Min(over)) = Only(tasks, D)
              /\ \A t \in D : tasks[t].group \in D
              /\ \A t \in DOMAIN tasks : tasks[t].status = NoStatus => t \in D
    <3> HIDE DEF over
    <3> QED BY <2>2, ReapFact
  <2>4. current \in D
    BY <1>1, <2>3, RunsFact DEF Me
  <2>5. collectGone(Only(tasks, D), stopped, current)
    BY <1>2, <2>3
  <2>6. stopped \in [DOMAIN tasks -> BOOLEAN]
    BY DEF TypeOK
  <2> HIDE DEF over, children
  <2>7. /\ tasks' \in [DOMAIN tasks' -> Entry]
        /\ DOMAIN tasks' \subseteq D
        /\ \A t \in DOMAIN tasks' : tasks'[t] = tasks[t]
        /\ stopped' \in [DOMAIN tasks' -> BOOLEAN]
        /\ \A t \in DOMAIN tasks' : stopped'[t] = stopped[t]
        /\ \A t \in D : tasks[t].status = NoStatus => t \in DOMAIN tasks'
        /\ current \in DOMAIN tasks'
        /\ LeaderPresent'
    BY <2>3, <2>4, <2>5, <2>6, CollectFact
  <2>8. UNCHANGED <<waiters, futexes, current, nextTid, phase, todo, woke, outcome>>
    BY <1>2 DEF serveWait, sched
  <2>9. \A t \in DOMAIN tasks : tasks[t].status = NoStatus => t \in DOMAIN tasks'
    BY <2>3, <2>7
  <2>10. TypeOK'
    BY <2>7, <2>8, <2>9 DEF TypeOK, StoppedIffWaiting, blocked, WokeLive, Live
  <2>11. StoppedIffWaiting'
    BY <2>7, <2>8 DEF StoppedIffWaiting, blocked
  <2>12. WokeLive'
    BY <2>7, <2>8, <2>9 DEF WokeLive, Live
  <2> QED BY <2>7, <2>8, <2>10, <2>11, <2>12 DEF Idle
<1>3. CASE /\ waiters' = Join(waiters, current, [target |-> target, ahead |-> DOMAIN waiters])
           /\ stopped' = Halt(stopped, {current})
           /\ UNCHANGED tasks
  <2>1. [target |-> target, ahead |-> DOMAIN waiters] \in Waiter
    BY IdsFact DEF Waiter
  <2>2. waiters' \in [DOMAIN waiters' -> Waiter] /\ DOMAIN waiters' = DOMAIN waiters \cup {current}
    BY <1>3, <2>1 DEF Join, TypeOK
  <2>3. UNCHANGED <<tasks, futexes, current, nextTid, phase, todo, woke, outcome>>
    BY <1>3 DEF serveWait, sched
  <2>4. /\ stopped' \in [DOMAIN tasks -> BOOLEAN]
        /\ \A t \in DOMAIN tasks : stopped'[t] = (stopped[t] \/ t = current)
    BY <1>3 DEF Halt, TypeOK
  <2>5. TypeOK'
    BY <2>2, <2>3, <2>4 DEF TypeOK
  <2>6. StoppedIffWaiting'
    BY <1>1, RunsFact, <2>2, <2>3, <2>4 DEF StoppedIffWaiting, blocked, Me
  <2> QED BY <2>3, <2>5, <2>6 DEF LeaderPresent, WokeLive, Live, Idle
<1> QED
  BY <1>2, <1>3 DEF serveWait

\* Those that a wake or the end of a vfork lets go were in the queue.
LEMMA WokenFact ==
    /\ \A Q, space, address, bitset, count :
          futexWake(Q, space, address, bitset, count) \subseteq DOMAIN Q
    /\ \A Q, children : releaseVfork(Q, children) \subseteq DOMAIN Q
BY DEF futexWake, futexAsked, releaseVfork

LEMMA InitTaskFact ==
    ASSUME TypeOK
    PROVE  initTask(tasks) \in DOMAIN tasks
BY IdsFact, MinFact DEF initTask, TypeOK

\* What exit_group and a fatal signal make of the table.
LEMMA ExitGroupFact ==
    ASSUME TypeOK, NEW group, NEW status \in Nat, NEW init \in DOMAIN tasks
    PROVE  /\ exitGroup(tasks, group, status, init) \in [DOMAIN tasks -> Entry]
           /\ \A t \in DOMAIN tasks :
                 LET e == exitGroup(tasks, group, status, init)[t]
                 IN  /\ e.group = tasks[t].group
                     /\ e.space = tasks[t].space
                     /\ e.selfExecId = tasks[t].selfExecId
                     /\ e.status = IF tasks[t].group = group THEN status ELSE tasks[t].status
                     /\ e.parent = IF tasks[t].group # group /\ tasks[t].parent = group
                                   THEN init ELSE tasks[t].parent
BY IdsFact DEF exitGroup, TypeOK, Entry

\* The group of the task is over once it has exited.
LastOut(tid, status) ==
    LET left == [tasks EXCEPT ![tid].status = status]
    IN  /\ tasks[tid].group \in DOMAIN left
        /\ left[tasks[tid].group].status # NoStatus
        /\ alone(left, tasks[tid].group)

\* What exit makes of it.
LEMMA ExitTaskFact ==
    ASSUME TypeOK, NEW tid \in DOMAIN tasks, NEW status \in Nat, NEW init \in DOMAIN tasks
    PROVE  /\ exitTask(tasks, tid, status, init) \in [DOMAIN tasks -> Entry]
           /\ \A t \in DOMAIN tasks :
                 LET e == exitTask(tasks, tid, status, init)[t]
                 IN  /\ e.group = tasks[t].group
                     /\ e.space = tasks[t].space
                     /\ e.selfExecId = tasks[t].selfExecId
                     /\ e.status = IF t = tid THEN status ELSE tasks[t].status
                     /\ e.parent = IF LastOut(tid, status) /\ tasks[t].parent = tasks[tid].group
                                   THEN init ELSE tasks[t].parent
<1> DEFINE left == [tasks EXCEPT ![tid].status = status]
           group == tasks[tid].group
           T == exitTask(tasks, tid, status, init)
<1>1. /\ left \in [DOMAIN tasks -> Entry]
      /\ DOMAIN left = DOMAIN tasks
      /\ \A t \in DOMAIN tasks :
            /\ left[t].group = tasks[t].group
            /\ left[t].space = tasks[t].space
            /\ left[t].selfExecId = tasks[t].selfExecId
            /\ left[t].status = IF t = tid THEN status ELSE tasks[t].status
            /\ left[t].parent = tasks[t].parent
  BY DEF TypeOK, Entry
<1>2. T = IF LastOut(tid, status) THEN reparent(left, group, init) ELSE left
  BY DEF exitTask, LastOut
<1> HIDE DEF left, T
<1>3. CASE LastOut(tid, status)
  <2>1. T = reparent(left, group, init)
    BY <1>2, <1>3
  <2>2. /\ T \in [DOMAIN tasks -> Entry]
        /\ \A t \in DOMAIN tasks :
              /\ T[t].group = left[t].group
              /\ T[t].space = left[t].space
              /\ T[t].selfExecId = left[t].selfExecId
              /\ T[t].status = left[t].status
              /\ T[t].parent = IF left[t].parent = group THEN init ELSE left[t].parent
    BY <1>1, <2>1, IdsFact DEF reparent, Entry
  <2> QED BY <1>1, <1>3, <2>2 DEF T
<1>4. CASE ~LastOut(tid, status)
  BY <1>1, <1>2, <1>4 DEF T
<1> QED BY <1>3, <1>4

\* Who is let go and is in no queue now goes on, and nobody else.
LEMMA ResumeFact ==
    ASSUME NEW D, NEW S \in [D -> BOOLEAN], NEW woken,
           \A t \in woken : t \notin DOMAIN waiters' /\ t \notin DOMAIN futexes'
    PROVE  /\ Resume(S, woken) \in [D -> BOOLEAN]
           /\ \A t \in D : Resume(S, woken)[t] = (S[t] /\ t \notin woken)
  BY DEF Resume, blocked

\* None who waits on a futex waits in wait4 too.
LEMMA QueuesApart ==
    ASSUME Core
    PROVE  \A t \in DOMAIN futexes : t \notin DOMAIN waiters
  BY DEF Core, TypeOK, StoppedIffWaiting

LEMMA CoreMarkExited ==
    ASSUME Core, Runs, NEW group, NEW status \in Nat, markExited(group, status)
    PROVE  Core'
<1> USE DEF Core
<1> DEFINE over == Members(tasks, group)
           left == Leave(futexes, over)
           freed == releaseVfork(left, over)
<1>1. /\ tasks' \in [DOMAIN tasks -> Entry]
      /\ DOMAIN tasks' = DOMAIN tasks
      /\ \A t \in DOMAIN tasks :
            /\ tasks'[t].group = tasks[t].group
            /\ tasks'[t].status = IF tasks[t].group = group THEN status ELSE tasks[t].status
  <2>1. tasks' = exitGroup(tasks, group, status, initTask(tasks))
    BY DEF markExited
  <2>2. initTask(tasks) \in DOMAIN tasks
    BY InitTaskFact
  <2>3. exitGroup(tasks, group, status, initTask(tasks)) \in [DOMAIN tasks -> Entry]
    BY <2>2, ExitGroupFact
  <2>4. tasks' \in [DOMAIN tasks -> Entry]
    BY <2>1, <2>3
  <2>5. DOMAIN tasks' = DOMAIN tasks
    BY <2>4
  <2> QED BY <2>1, <2>2, <2>4, <2>5, ExitGroupFact
<1>2. over = {t \in DOMAIN tasks : tasks[t].group = group}
  BY DEF Members
<1>3. waiters' \in [DOMAIN waiters' -> Waiter] /\ DOMAIN waiters' = DOMAIN waiters \ over
  BY LeaveWaiters DEF markExited, TypeOK
<1>4. left \in [DOMAIN left -> FutexWaiter] /\ DOMAIN left = DOMAIN futexes \ over
  BY LeaveFutexes DEF TypeOK
<1>5. freed \subseteq DOMAIN futexes \ over
  BY <1>4, WokenFact
<1>6. futexes' \in [DOMAIN futexes' -> FutexWaiter] /\ DOMAIN futexes' = (DOMAIN futexes \ over) \ freed
  <2>1. futexes' = Leave(left, freed)
    BY DEF markExited
  <2> HIDE DEF left, freed
  <2> QED BY <1>4, <2>1, LeaveFutexes
<1>7. /\ stopped' \in [DOMAIN tasks -> BOOLEAN]
      /\ \A t \in DOMAIN tasks : stopped'[t] = ((stopped[t] /\ t \notin freed) \/ t \in over)
  <2>1. stopped' = Halt(Resume(stopped, freed), over) /\ stopped \in [DOMAIN tasks -> BOOLEAN]
    BY DEF markExited, TypeOK
  <2>2. \A t \in freed : t \notin DOMAIN waiters' /\ t \notin DOMAIN futexes'
    <3> HIDE DEF over, left, freed
    <3> QED BY <1>3, <1>5, <1>6, QueuesApart
  <2> HIDE DEF over, left, freed
  <2> QED BY <2>1, <2>2, ResumeFact DEF Halt
<1>8. UNCHANGED <<current, nextTid, phase, todo, woke, outcome>>
  BY DEF markExited, sched
<1>9. Runs => todo = {} /\ woke = None
  BY DEF Idle, Runs
<1>10. TypeOK' /\ Idle'
  BY <1>1, <1>3, <1>6, <1>7, <1>8, <1>9 DEF TypeOK, Idle
<1>11. StoppedIffWaiting'
  <2> SUFFICES ASSUME NEW t \in DOMAIN tasks
               PROVE  /\ stopped'[t] <=> (blocked(t)' \/ tasks'[t].status # NoStatus)
                      /\ blocked(t)' => tasks'[t].status = NoStatus
                      /\ ~(t \in DOMAIN waiters' /\ t \in DOMAIN futexes')
    BY <1>1 DEF StoppedIffWaiting
  <2>1. blocked(t)' <=> t \in DOMAIN waiters \ over \/ t \in (DOMAIN futexes \ over) \ freed
    BY <1>3, <1>6 DEF blocked
  <2>2. status # NoStatus
    BY DEF NoStatus
  <2> HIDE DEF over, freed, left
  <2> QED BY <1>1, <1>2, <1>3, <1>5, <1>6, <1>7, <2>1, <2>2 DEF StoppedIffWaiting, blocked
<1>12. LeaderPresent'
  BY <1>1 DEF LeaderPresent
<1> QED
  BY <1>8, <1>10, <1>11, <1>12, <1>9 DEF WokeLive

LEMMA CoreExitThread ==
    ASSUME Core, NEW code \in Codes, exitThread(code)
    PROVE  Core'
<1> USE DEF Core
<1> DEFINE joined == IF Me.clearTid = NoWord THEN {}
                     ELSE futexWake(futexes, Me.space, Me.clearTid, Bits, 1)
           left == Leave(futexes, joined \cup {current})
           freed == releaseVfork(left, {current})
<1>1. Runs /\ current \in DOMAIN tasks /\ exitedStatus(code) \in Nat /\ exitedStatus(code) # NoStatus
  BY Statuses DEF exitThread, TypeOK
<1>2. /\ tasks' \in [DOMAIN tasks -> Entry]
      /\ DOMAIN tasks' = DOMAIN tasks
      /\ \A t \in DOMAIN tasks :
            /\ tasks'[t].group = tasks[t].group
            /\ tasks'[t].status = IF t = current THEN exitedStatus(code) ELSE tasks[t].status
  <2>1. tasks' = exitTask(tasks, current, exitedStatus(code), initTask(tasks))
    BY DEF exitThread
  <2>2. initTask(tasks) \in DOMAIN tasks
    BY InitTaskFact
  <2>3. exitTask(tasks, current, exitedStatus(code), initTask(tasks)) \in [DOMAIN tasks -> Entry]
    BY <1>1, <2>2, ExitTaskFact
  <2>4. tasks' \in [DOMAIN tasks -> Entry]
    BY <2>1, <2>3
  <2>5. DOMAIN tasks' = DOMAIN tasks
    BY <2>4
  <2> QED BY <1>1, <2>1, <2>2, <2>4, <2>5, ExitTaskFact
<1>3. joined \subseteq DOMAIN futexes
  BY WokenFact
<1>4. left \in [DOMAIN left -> FutexWaiter] /\ DOMAIN left = DOMAIN futexes \ (joined \cup {current})
  <2> HIDE DEF joined
  <2> QED BY LeaveFutexes DEF TypeOK
<1>5. freed \subseteq DOMAIN left
  BY WokenFact
<1>6. futexes' \in [DOMAIN futexes' -> FutexWaiter] /\ DOMAIN futexes' = DOMAIN left \ freed
  <2>1. futexes' = Leave(left, freed)
    BY DEF exitThread
  <2> HIDE DEF left, freed
  <2> QED BY <1>4, <2>1, LeaveFutexes
<1>7. waiters' \in [DOMAIN waiters' -> Waiter] /\ DOMAIN waiters' = DOMAIN waiters \ {current}
  BY LeaveWaiters DEF exitThread, TypeOK
<1>8. /\ stopped' \in [DOMAIN tasks -> BOOLEAN]
      /\ \A t \in DOMAIN tasks :
            stopped'[t] = ((stopped[t] /\ t \notin joined \cup freed) \/ t = current)
  <2>1. /\ stopped' = Halt(Resume(stopped, joined \cup freed), {current})
        /\ stopped \in [DOMAIN tasks -> BOOLEAN]
    BY DEF exitThread, TypeOK
  <2> HIDE DEF joined, left, freed
  <2>2. \A t \in joined \cup freed : t \notin DOMAIN waiters' /\ t \notin DOMAIN futexes'
    BY <1>3, <1>4, <1>5, <1>6, <1>7, QueuesApart
  <2> QED BY <2>1, <2>2, ResumeFact DEF Halt
<1>9. UNCHANGED <<current, nextTid, phase, todo, woke, outcome>> /\ todo = {} /\ woke = None
  BY <1>1 DEF exitThread, sched, Idle, Runs
<1> HIDE DEF joined, left, freed
<1>10. TypeOK' /\ Idle'
  BY <1>2, <1>4, <1>6, <1>7, <1>8, <1>9 DEF TypeOK, Idle
<1>11. StoppedIffWaiting'
  <2> SUFFICES ASSUME NEW t \in DOMAIN tasks
               PROVE  /\ stopped'[t] <=> (blocked(t)' \/ tasks'[t].status # NoStatus)
                      /\ blocked(t)' => tasks'[t].status = NoStatus
                      /\ ~(t \in DOMAIN waiters' /\ t \in DOMAIN futexes')
    BY <1>2 DEF StoppedIffWaiting
  <2>1. blocked(t)' <=> t \in DOMAIN waiters \ {current} \/ t \in DOMAIN left \ freed
    BY <1>6, <1>7 DEF blocked
  <2> QED
    BY <1>1, <1>2, <1>3, <1>4, <1>5, <1>6, <1>7, <1>8, <2>1 DEF StoppedIffWaiting, blocked
<1>12. LeaderPresent'
  BY <1>2 DEF LeaderPresent
<1> QED
  BY <1>9, <1>10, <1>11, <1>12 DEF WokeLive

LEMMA CoreFutexWait ==
    ASSUME Core, NEW word \in Words, NEW bitset \in Mask, NEW timed \in BOOLEAN,
           futexWait(word, bitset, timed)
    PROVE  Core'
<1> USE DEF Core
<1> DEFINE V == [space |-> Me.space, address |-> word, bitset |-> bitset, timed |-> timed,
                 ahead |-> DOMAIN futexes]
<1>1. Runs
  BY DEF futexWait
<1>2. V \in FutexWaiter
  BY <1>1, RunsFact, IdsFact DEF FutexWaiter, Mask, Entry
<1>3. futexes' = Join(futexes, current, V)
  BY DEF futexWait
<1> HIDE DEF V
<1>4. futexes' \in [DOMAIN futexes' -> FutexWaiter] /\ DOMAIN futexes' = DOMAIN futexes \cup {current}
  BY <1>2, <1>3 DEF Join, TypeOK
<1>5. /\ stopped' \in [DOMAIN tasks -> BOOLEAN]
      /\ \A t \in DOMAIN tasks : stopped'[t] = (stopped[t] \/ t = current)
  BY DEF futexWait, Halt, TypeOK
<1>6. UNCHANGED <<tasks, waiters, current, nextTid, phase, todo, woke, outcome>>
  BY DEF futexWait, sched
<1>7. TypeOK'
  BY <1>4, <1>5, <1>6 DEF TypeOK
<1>8. StoppedIffWaiting'
  BY <1>1, RunsFact, <1>4, <1>5, <1>6 DEF StoppedIffWaiting, blocked, Me
<1> QED
  BY <1>6, <1>7, <1>8 DEF LeaderPresent, WokeLive, Live, Idle

\* A set of those that wait on futexes is let go.
LEMMA CoreWoken ==
    ASSUME Core, NEW woken \in SUBSET DOMAIN futexes,
           futexes' \in [DOMAIN futexes \ woken -> FutexWaiter],
           stopped' = Resume(stopped, woken),
           UNCHANGED <<tasks, waiters, current, nextTid, woke>>,
           TypeOK => /\ phase' \in {"turn", "settle", "pick", "done"}
                     /\ todo' \subseteq DOMAIN waiters
                     /\ outcome' = outcome,
           Idle => Idle'
    PROVE  Core'
<1> USE DEF Core
<1>1. DOMAIN futexes' = DOMAIN futexes \ woken
  OBVIOUS
<1>2. /\ stopped' \in [DOMAIN tasks -> BOOLEAN]
      /\ \A t \in DOMAIN tasks : stopped'[t] = (stopped[t] /\ t \notin woken)
  <2>1. \A t \in woken : t \notin DOMAIN waiters' /\ t \notin DOMAIN futexes'
    BY <1>1, QueuesApart
  <2> QED BY <2>1, ResumeFact DEF TypeOK
<1>3. TypeOK'
  BY <1>1, <1>2 DEF TypeOK
<1>4. StoppedIffWaiting'
  BY <1>1, <1>2 DEF StoppedIffWaiting, blocked
<1> QED
  BY <1>3, <1>4 DEF LeaderPresent, WokeLive, Live

LEMMA CoreServeWake ==
    ASSUME Core, NEW word, NEW bitset, NEW count, serveWake(word, bitset, count)
    PROVE  Core'
<1> DEFINE woken == futexWake(futexes, Me.space, word, bitset, count)
<1>1. woken \in SUBSET DOMAIN futexes
  BY WokenFact
<1>2. futexes' \in [DOMAIN futexes \ woken -> FutexWaiter]
  BY LeaveFutexes DEF serveWake, Core, TypeOK
<1>3. /\ stopped' = Resume(stopped, woken)
      /\ UNCHANGED <<tasks, waiters, current, nextTid, phase, todo, woke, outcome>>
  BY DEF serveWake, sched
<1> HIDE DEF woken
<1> QED
  BY <1>1, <1>2, <1>3, CoreWoken DEF TypeOK, Idle

LEMMA CoreFutexRequeue ==
    ASSUME Core, NEW source, NEW target \in Words, NEW wake, NEW move,
           futexRequeue(source, target, wake, move)
    PROVE  Core'
<1> DEFINE woken == futexWake(futexes, Me.space, source, Bits, wake)
           left == Leave(futexes, woken)
           moved == futexWake(left, Me.space, source, Bits, move)
<1>1. woken \in SUBSET DOMAIN futexes
  BY WokenFact
<1>2. left \in [DOMAIN futexes \ woken -> FutexWaiter]
  BY LeaveFutexes DEF Core, TypeOK
<1>3. /\ futexes' = [t \in DOMAIN left |->
                        IF t \in moved THEN [left[t] EXCEPT !.address = target] ELSE left[t]]
      /\ stopped' = Resume(stopped, woken)
      /\ UNCHANGED <<tasks, waiters, current, nextTid, phase, todo, woke, outcome>>
  BY DEF futexRequeue, sched
<1> HIDE DEF woken, left, moved
<1>4. futexes' \in [DOMAIN futexes \ woken -> FutexWaiter]
  BY <1>2, <1>3 DEF FutexWaiter
<1> QED
  BY <1>1, <1>3, <1>4, CoreWoken DEF TypeOK, Idle

LEMMA CoreTimedOut ==
    ASSUME Core, timedOut
    PROVE  Core'
<1>1. Timed \in SUBSET DOMAIN futexes
  BY DEF Timed
<1>2. futexes' \in [DOMAIN futexes \ Timed -> FutexWaiter]
  BY LeaveFutexes DEF timedOut, Core, TypeOK
<1> QED
  BY <1>1, <1>2, CoreWoken DEF timedOut, TypeOK, Idle

LEMMA CoreSetClearTid ==
    ASSUME Core, NEW word \in Words, setClearTid(word)
    PROVE  Core'
<1> USE DEF Core
<1>1. /\ tasks' \in [DOMAIN tasks -> Entry]
      /\ DOMAIN tasks' = DOMAIN tasks
      /\ \A t \in DOMAIN tasks : tasks'[t].group = tasks[t].group /\ tasks'[t].status = tasks[t].status
  BY DEF setClearTid, TypeOK, Entry
<1>2. UNCHANGED <<waiters, futexes, stopped, current, nextTid, phase, todo, woke, outcome>>
  BY DEF setClearTid, sched
<1>3. TypeOK' /\ LeaderPresent' /\ WokeLive' /\ Idle'
  BY <1>1, <1>2 DEF TypeOK, LeaderPresent, WokeLive, Live, Idle
<1> QED
  BY <1>1, <1>2, <1>3 DEF StoppedIffWaiting, blocked

\* The group of the thread that runs execve is led by one of its tasks.
LEMMA CoreExecute ==
    ASSUME Core, execute
    PROVE  Core'
<1> USE DEF Core
<1> DEFINE group == Me.group
           others == {t \in Members(tasks, group) : t # current /\ tasks[t].status = NoStatus}
           gone == {current} \ {group}
           left == Leave(futexes, others)
           freed == releaseVfork(left, {group})
<1>1. /\ Runs /\ group \in DOMAIN tasks /\ tasks[group].group = group
      /\ current \in DOMAIN tasks /\ Me = tasks[current] /\ Me \in Entry /\ Me.status = NoStatus
      /\ tasks[group] \in Entry
      /\ current \notin DOMAIN waiters /\ current \notin DOMAIN futexes
  BY RunsFact DEF execute, LeaderPresent, Me, TypeOK
<1>2. /\ tasks' = [t \in DOMAIN tasks' |-> tasks'[t]]
      /\ DOMAIN tasks' = DOMAIN tasks \ gone
      /\ \A t \in DOMAIN tasks' :
            /\ tasks'[t] \in Entry
            /\ tasks'[t].group = tasks[t].group
            /\ tasks'[t].status = IF t = group THEN NoStatus
                                  ELSE IF t \in others THEN 0 ELSE tasks[t].status
  <2> DEFINE heir == [Me EXCEPT !.parent = tasks[group].parent, !.clearTid = NoWord,
                               !.selfExecId = @ + 1]
             leader == IF Shares THEN [heir EXCEPT !.space = group] ELSE heir
             ended == [t \in DOMAIN tasks |->
                         IF t \in others THEN [tasks[t] EXCEPT !.status = 0] ELSE tasks[t]]
             leads == [t \in DOMAIN tasks \ gone |-> IF t = group THEN heir ELSE ended[t]]
  <2>1. tasks' = [t \in DOMAIN tasks \ gone |-> IF t = group THEN leader ELSE ended[t]]
    <3>1. ended[current] = Me /\ ended[group].parent = tasks[group].parent /\ DOMAIN ended = DOMAIN tasks
      BY <1>1 DEF Entry
    <3>2. executed(ended, current) = leads
      <4> HIDE DEF ended
      <4> QED BY <3>1 DEF executed
    <3>3. tasks' = IF Shares THEN [leads EXCEPT ![group].space = group] ELSE leads
      <4>1. tasks' = IF Shares THEN [executed(ended, current) EXCEPT ![group].space = group]
                     ELSE executed(ended, current)
        BY DEF execute
      <4> HIDE DEF leads, ended
      <4> QED BY <3>2, <4>1
    <3>4. group \in DOMAIN tasks \ gone
      BY <1>1
    <3> HIDE DEF heir, ended, gone, group
    <3> QED BY <3>3, <3>4
  <2>2. leader \in Entry /\ leader.group = group /\ leader.status = NoStatus
    <3>1. /\ group \in Tids
          /\ tasks[group].parent \in Tids \cup {None}
          /\ Me.selfExecId \in Nat /\ Me.selfExecId + 1 \in Nat
      BY <1>1 DEF Entry
    <3>2. heir \in Entry /\ heir.group = group /\ heir.status = NoStatus
      BY <1>1, <3>1 DEF Entry
    <3> HIDE DEF heir
    <3> QED BY <3>1, <3>2 DEF Entry
  <2>3. \A t \in DOMAIN tasks :
            /\ ended[t] \in Entry
            /\ ended[t].group = tasks[t].group
            /\ ended[t].status = IF t \in others THEN 0 ELSE tasks[t].status
    BY DEF TypeOK, Entry
  <2> HIDE DEF leader, ended, gone, others
  <2> QED BY <1>1, <2>1, <2>2, <2>3
<1>3. tasks' \in [DOMAIN tasks' -> Entry]
  <2>1. \A t \in DOMAIN tasks' : tasks'[t] \in Entry
    BY <1>2
  <2> QED BY <1>2, <2>1
<1>4. waiters' \in [DOMAIN waiters' -> Waiter] /\ DOMAIN waiters' = DOMAIN waiters \ others
  <2>1. waiters' = Leave(waiters, others)
    BY DEF execute
  <2> HIDE DEF others
  <2> QED BY <2>1, LeaveWaiters DEF TypeOK
<1>5. left \in [DOMAIN left -> FutexWaiter] /\ DOMAIN left = DOMAIN futexes \ others
  <2> HIDE DEF others
  <2> QED BY LeaveFutexes DEF TypeOK
<1>6. freed \subseteq DOMAIN left
  BY WokenFact
<1>7. futexes' \in [DOMAIN futexes' -> FutexWaiter] /\ DOMAIN futexes' = DOMAIN left \ freed
  <2>1. futexes' = Leave(left, freed)
    BY DEF execute
  <2> HIDE DEF left, freed
  <2> QED BY <1>5, <2>1, LeaveFutexes
<1>8. /\ stopped' \in [DOMAIN tasks' -> BOOLEAN]
      /\ \A t \in DOMAIN tasks' :
            stopped'[t] = IF t = group THEN FALSE
                          ELSE (stopped[t] \/ t \in others) /\ t \notin freed
  <2> DEFINE S == [t \in DOMAIN stopped \ gone |-> t # group /\ (stopped[t] \/ t \in others)]
  <2>1. stopped' = Resume(S, freed)
    BY DEF execute
  <2> HIDE DEF others, freed, group, gone, left
  <2>2. \A t \in freed : t \notin DOMAIN waiters' /\ t \notin DOMAIN futexes'
    BY <1>4, <1>5, <1>6, <1>7, QueuesApart
  <2>3. /\ S \in [DOMAIN tasks' -> BOOLEAN]
        /\ \A t \in DOMAIN tasks' : S[t] = (t # group /\ (stopped[t] \/ t \in others))
    BY <1>2 DEF TypeOK
  <2>4. /\ Resume(S, freed) \in [DOMAIN tasks' -> BOOLEAN]
        /\ \A t \in DOMAIN tasks' : Resume(S, freed)[t] = (S[t] /\ t \notin freed)
    <3> HIDE DEF S
    <3> QED BY <2>2, <2>3, ResumeFact
  <2> HIDE DEF S
  <2>5. ASSUME NEW t \in DOMAIN tasks'
        PROVE  stopped'[t] = IF t = group THEN FALSE
                             ELSE (stopped[t] \/ t \in others) /\ t \notin freed
    <3>1. stopped'[t] = (S[t] /\ t \notin freed)
      BY <2>1, <2>4
    <3>2. S[t] = (t # group /\ (stopped[t] \/ t \in others))
      BY <2>3
    <3> QED BY <3>1, <3>2
  <2> QED BY <2>1, <2>4, <2>5
<1>9. /\ current' = group
      /\ UNCHANGED <<nextTid, phase, todo, woke, outcome>> /\ todo = {} /\ woke = None
  BY <1>1 DEF execute, sched, Idle, Runs
<1>10. \A t \in DOMAIN tasks : t \in others <=> /\ tasks[t].group = group /\ t # current
                                               /\ tasks[t].status = NoStatus
  BY DEF Members
<1>11. group \in DOMAIN tasks'
  BY <1>1, <1>2
<1> HIDE DEF group, others, gone, left, freed
<1>12. DOMAIN waiters' \subseteq DOMAIN tasks' /\ DOMAIN futexes' \subseteq DOMAIN tasks'
  BY <1>1, <1>2, <1>4, <1>5, <1>7 DEF TypeOK, gone
<1>13. TypeOK' /\ Idle'
  BY <1>2, <1>3, <1>4, <1>7, <1>8, <1>9, <1>11, <1>12 DEF TypeOK, Idle, gone
<1>14. StoppedIffWaiting'
  <2> SUFFICES ASSUME NEW t \in DOMAIN tasks'
               PROVE  /\ stopped'[t] <=> (blocked(t)' \/ tasks'[t].status # NoStatus)
                      /\ blocked(t)' => tasks'[t].status = NoStatus
                      /\ ~(t \in DOMAIN waiters' /\ t \in DOMAIN futexes')
    BY DEF StoppedIffWaiting
  <2>1. t \in DOMAIN tasks /\ (t = current => t = group)
    BY <1>2 DEF gone
  <2>2. blocked(t)' <=> t \in DOMAIN waiters \ others \/ t \in (DOMAIN futexes \ others) \ freed
    BY <1>4, <1>5, <1>7 DEF blocked
  <2>3. CASE t = group
    <3>1. ~blocked(t)'
      BY <2>1, <2>2, <2>3, <1>1, <1>10 DEF StoppedIffWaiting, blocked
    <3> QED BY <2>3, <3>1, <1>2, <1>8 DEF blocked
  <2>4. CASE t # group
    <3>1. 0 # NoStatus
      BY DEF NoStatus
    <3> QED
      BY <2>1, <2>2, <2>4, <3>1, <1>2, <1>4, <1>5, <1>6, <1>7, <1>8, <1>10 DEF StoppedIffWaiting, blocked
  <2> QED BY <2>3, <2>4
<1>15. LeaderPresent'
  <2> SUFFICES ASSUME NEW t \in DOMAIN tasks'
               PROVE  tasks[t].group \in DOMAIN tasks' /\ tasks[tasks[t].group].group = tasks[t].group
    BY <1>2 DEF LeaderPresent
  <2>1. t \in DOMAIN tasks /\ tasks[t].group \in DOMAIN tasks /\ tasks[tasks[t].group].group = tasks[t].group
    BY <1>2 DEF LeaderPresent
  <2>2. tasks[t].group \notin gone
    BY <1>1, <2>1 DEF gone, group
  <2> QED BY <2>1, <2>2, <1>2
<1> QED
  BY <1>9, <1>13, <1>14, <1>15 DEF WokeLive

-----------------------------------------------------------------------------
(* The steps of the scheduler. *)

\* The next thread is one that can run.
LEMMA PickFact ==
    ASSUME TypeOK, pickNext # {}
    PROVE  Min(pickNext) \in DOMAIN tasks /\ ~stopped[Min(pickNext)]
<1>1. pickNext \subseteq {t \in DOMAIN tasks : ~stopped[t]}
  BY DEF pickNext, Runnable, TypeOK
<1>2. pickNext \in SUBSET Nat
  BY <1>1, IdsFact
<1> QED
  BY <1>1, <1>2, MinFact

\* What only the thread that runs and the scheduler's own state change.
LEMMA CoreSame ==
    ASSUME Core, UNCHANGED <<tasks, waiters, futexes, stopped, nextTid>>,
           current' \in DOMAIN tasks,
           phase' \in {"turn", "settle", "pick", "done"},
           todo' \subseteq DOMAIN waiters,
           woke' \in {woke, None},
           outcome' \in {"none", "thrown", "stopped", "deadlock", "finished"},
           phase' # "settle" => todo' = {} /\ woke' = None
    PROVE  Core'
<1> USE DEF Core
<1>1. TypeOK'
  BY DEF TypeOK
<1>2. StoppedIffWaiting' /\ LeaderPresent' /\ WokeLive' /\ Idle'
  BY DEF StoppedIffWaiting, blocked, LeaderPresent, WokeLive, Live, Idle
<1> QED BY <1>1, <1>2

LEMMA CoreScheduler ==
    ASSUME Core,
           switchNextThread \/ TurnEnds \/ Settled \/ scheduleRun \/ scheduleDone
    PROVE  Core'
<1>0. /\ current \in DOMAIN tasks
      /\ phase \in {"turn", "settle", "pick", "done"}
      /\ todo \subseteq DOMAIN waiters
      /\ outcome \in {"none", "thrown", "stopped", "deadlock", "finished"}
      /\ phase # "settle" => todo = {} /\ woke = None
  BY DEF Core, TypeOK, Idle
<1>1. CASE switchNextThread
  <2>1. Min(pickNext) \in DOMAIN tasks
    BY <1>1, PickFact DEF Core, switchNextThread
  <2> QED BY <1>0, <1>1, <2>1, CoreSame DEF switchNextThread, table, sched, Runs
<1>2. CASE TurnEnds
  BY <1>0, <1>2, CoreSame DEF TurnEnds, table
<1>3. CASE Settled
  BY <1>0, <1>3, CoreSame DEF Settled, AllSeen, table
<1>4. CASE scheduleRun
  BY <1>0, <1>4, CoreSame DEF scheduleRun, table
<1>5. CASE scheduleDone
  BY <1>0, <1>5, CoreSame DEF scheduleDone, table
<1> QED BY <1>1, <1>2, <1>3, <1>4, <1>5

LEMMA CoreScheduleSwitch ==
    ASSUME Core, scheduleSwitch
    PROVE  Core'
<1> USE DEF Core
<1>1. current' \in DOMAIN tasks /\ ~stopped[current']
  BY PickFact DEF scheduleSwitch
<1>2. collectGone(Only(tasks, DOMAIN tasks), stopped, current')
  BY OnlyAll DEF scheduleSwitch
<1>3. \A t \in DOMAIN tasks : tasks[t].group \in DOMAIN tasks
  BY DEF LeaderPresent
<1>4. stopped \in [DOMAIN tasks -> BOOLEAN]
  BY DEF TypeOK
<1>5. /\ tasks' \in [DOMAIN tasks' -> Entry]
      /\ DOMAIN tasks' \subseteq DOMAIN tasks
      /\ \A t \in DOMAIN tasks' : tasks'[t] = tasks[t]
      /\ stopped' \in [DOMAIN tasks' -> BOOLEAN]
      /\ \A t \in DOMAIN tasks' : stopped'[t] = stopped[t]
      /\ \A t \in DOMAIN tasks : tasks[t].status = NoStatus => t \in DOMAIN tasks'
      /\ current' \in DOMAIN tasks'
      /\ LeaderPresent'
  BY <1>1, <1>2, <1>3, <1>4, CollectFact
<1>6. /\ UNCHANGED <<waiters, futexes, nextTid, woke, outcome>>
      /\ phase' = "settle" /\ todo' = DOMAIN waiters
      /\ woke = None
  BY DEF scheduleSwitch, Idle
<1>7. TypeOK'
  BY <1>5, <1>6 DEF TypeOK, StoppedIffWaiting, blocked
<1>8. StoppedIffWaiting'
  BY <1>5, <1>6 DEF StoppedIffWaiting, blocked
<1> QED
  BY <1>5, <1>6, <1>7, <1>8 DEF WokeLive, Idle

LEMMA CoreSettleOne ==
    ASSUME Core, NEW w \in Tids, settleOne(w)
    PROVE  Core'
<1> USE DEF Core
<1> DEFINE children == asked(tasks, tasks[w].group, waiters[w].target)
           over == report(tasks, children)
           left == IF over # {} THEN reap(tasks, Min(over)) ELSE tasks
           first == IF woke = None THEN w ELSE woke
           running == IF current \in DOMAIN left THEN current ELSE first
<1>1. /\ w \in DOMAIN waiters /\ w \in DOMAIN tasks /\ tasks[w].status = NoStatus
      /\ todo' = todo \ {w} /\ todo \subseteq DOMAIN waiters
      /\ UNCHANGED <<futexes, nextTid, phase, outcome>>
      /\ phase = "settle"
  BY DEF settleOne, Foremost, TypeOK, StoppedIffWaiting, blocked
<1>2. CASE UNCHANGED <<tasks, waiters, stopped, current, woke>>
  <2>1. current' \in DOMAIN tasks /\ outcome' \in {"none", "thrown", "stopped", "deadlock", "finished"}
    BY <1>1, <1>2 DEF TypeOK
  <2> QED BY <1>1, <1>2, <2>1, CoreSame
<1>3. CASE /\ woke' = first
           /\ waiters' = Leave(waiters, {w})
           /\ current' = running
           /\ collectGone(left, Resume(stopped, {w}), running)
  <2>1. \E D \in SUBSET DOMAIN tasks :
              /\ left = Only(tasks, D)
              /\ \A t \in D : tasks[t].group \in D
              /\ \A t \in DOMAIN tasks : tasks[t].status = NoStatus => t \in D
    <3>1. CASE over = {}
      <4>1. left = Only(tasks, DOMAIN tasks)
        BY <3>1, OnlyAll
      <4> QED BY <4>1 DEF LeaderPresent
    <3>2. CASE over # {}
      <4>1. over \in SUBSET Nat
        BY IdsFact DEF report, asked
      <4>2. Min(over) \in report(tasks, children)
        BY <4>1, <3>2, MinFact
      <4>3. left = reap(tasks, Min(over))
        BY <3>2
      <4> HIDE DEF over, left
      <4> QED BY <4>2, <4>3, ReapFact
    <3> QED BY <3>1, <3>2
  <2>2. PICK D \in SUBSET DOMAIN tasks :
              /\ left = Only(tasks, D)
              /\ \A t \in D : tasks[t].group \in D
              /\ \A t \in DOMAIN tasks : tasks[t].status = NoStatus => t \in D
    BY <2>1
  <2> HIDE DEF left, over, children
  <2>3. DOMAIN left = D
    BY <2>2 DEF Only
  <2>4. first \in DOMAIN tasks /\ tasks[first].status = NoStatus /\ first # None
    BY <1>1, IdsFact DEF WokeLive, Live
  <2> HIDE DEF first
  <2>5. running \in D
    BY <2>2, <2>3, <2>4
  <2> HIDE DEF running
  <2>6. /\ Resume(stopped, {w}) \in [DOMAIN tasks -> BOOLEAN]
        /\ \A t \in DOMAIN tasks : Resume(stopped, {w})[t] = (stopped[t] /\ t # w)
    <3>1. w \notin DOMAIN waiters' /\ w \notin DOMAIN futexes'
      BY <1>1, <1>3, QueuesApart DEF Leave
    <3>2. stopped \in [DOMAIN tasks -> BOOLEAN]
      BY DEF TypeOK
    <3> QED BY <3>1, <3>2, ResumeFact
  <2>7. collectGone(Only(tasks, D), Resume(stopped, {w}), running)
    BY <1>3, <2>2
  <2>8. /\ tasks' \in [DOMAIN tasks' -> Entry]
        /\ DOMAIN tasks' \subseteq D
        /\ \A t \in DOMAIN tasks' : tasks'[t] = tasks[t]
        /\ stopped' \in [DOMAIN tasks' -> BOOLEAN]
        /\ \A t \in DOMAIN tasks' : stopped'[t] = Resume(stopped, {w})[t]
        /\ \A t \in D : tasks[t].status = NoStatus => t \in DOMAIN tasks'
        /\ running \in DOMAIN tasks'
        /\ LeaderPresent'
    <3> DEFINE S == Resume(stopped, {w})
    <3>1. S \in [DOMAIN tasks -> BOOLEAN]
      BY <2>6
    <3> HIDE DEF S
    <3>2. collectGone(Only(tasks, D), S, running)
      BY <2>7 DEF S
    <3>3. /\ tasks' \in [DOMAIN tasks' -> Entry]
          /\ DOMAIN tasks' \subseteq D
          /\ \A t \in DOMAIN tasks' : tasks'[t] = tasks[t]
          /\ stopped' \in [DOMAIN tasks' -> BOOLEAN]
          /\ \A t \in DOMAIN tasks' : stopped'[t] = S[t]
          /\ \A t \in D : tasks[t].status = NoStatus => t \in DOMAIN tasks'
          /\ running \in DOMAIN tasks'
          /\ LeaderPresent'
      BY <3>1, <3>2, <2>2, <2>5, CollectFact
    <3> QED BY <3>3 DEF S
  <2>9. \A t \in DOMAIN tasks : tasks[t].status = NoStatus => t \in DOMAIN tasks'
    BY <2>2, <2>8
  <2>10. waiters' \in [DOMAIN waiters' -> Waiter] /\ DOMAIN waiters' = DOMAIN waiters \ {w}
    BY <1>3, LeaveWaiters DEF TypeOK
  <2>11. DOMAIN waiters' \subseteq DOMAIN tasks' /\ DOMAIN futexes' \subseteq DOMAIN tasks'
    BY <1>1, <2>9, <2>10 DEF TypeOK, StoppedIffWaiting, blocked
  <2>12. woke' \in DOMAIN tasks' /\ tasks'[woke'].status = NoStatus
    BY <1>3, <2>4, <2>8, <2>9
  <2>13. TypeOK'
    BY <1>1, <1>3, <2>8, <2>10, <2>11, <2>12 DEF TypeOK
  <2>14. StoppedIffWaiting'
    BY <1>1, <2>6, <2>8, <2>10 DEF StoppedIffWaiting, blocked
  <2> QED
    BY <1>1, <2>8, <2>12, <2>13, <2>14 DEF WokeLive, Live, Idle
<1> QED
  BY <1>2, <1>3 DEF settleOne

LEMMA CoreEnds ==
    ASSUME Core,
           \/ \E code \in Codes : exitProcess(code)
           \/ \E target \in Tids, signal \in Signals : tgkill(target, signal)
           \/ fault
    PROVE  Core'
<1>1. ASSUME NEW code \in Codes, exitProcess(code) PROVE Core'
  BY <1>1, Statuses, CoreMarkExited DEF exitProcess
<1>2. ASSUME NEW target \in Tids, NEW signal \in Signals, tgkill(target, signal) PROVE Core'
  <2>1. CASE markExited(tasks[target].group, signaledStatus(signal))
    BY <1>2, <2>1, Statuses, CoreMarkExited DEF tgkill
  <2>2. CASE /\ phase' = "done" /\ outcome' = "thrown"
             /\ UNCHANGED <<table, stopped, current, nextTid, todo, woke>>
    <3>1. current \in DOMAIN tasks /\ todo = {} /\ woke = None
      BY <1>2 DEF tgkill, Runs, Core, TypeOK, Idle
    <3> QED BY <2>2, <3>1, CoreSame DEF table
  <2> QED BY <1>2, <2>1, <2>2 DEF tgkill
<1>3. CASE fault
  BY <1>3, Statuses, CoreMarkExited DEF fault
<1> QED BY <1>1, <1>2, <1>3

LEMMA CoreStutter ==
    ASSUME Core, UNCHANGED vars
    PROVE  Core'
BY DEF Core, vars, TypeOK, StoppedIffWaiting, blocked, LeaderPresent, WokeLive, Live, Idle

LEMMA CoreNext == Core /\ [Next]_vars => Core'
<1> SUFFICES ASSUME Core, [Next]_vars PROVE Core'
  OBVIOUS
<1>1. CASE \E vm, thread, vfork \in BOOLEAN, word \in Words \cup {NoWord} : clone(vm, thread, vfork, word)
  BY <1>1, CoreClone
<1>2. CASE \E target \in Tids \cup {None} : serveWait(target)
  BY <1>2, CoreServeWait
<1>3. CASE \E code \in Codes : exitThread(code)
  BY <1>3, CoreExitThread
<1>4. CASE \E word \in Words, bitset \in Mask, timed \in BOOLEAN : futexWait(word, bitset, timed)
  BY <1>4, CoreFutexWait
<1>5. CASE \E word \in Words, bitset \in Mask, count \in Counts : serveWake(word, bitset, count)
  BY <1>5, CoreServeWake
<1>6. CASE \E source, target \in Words, wake, move \in Counts : futexRequeue(source, target, wake, move)
  BY <1>6, CoreFutexRequeue
<1>7. CASE \E word \in Words : setClearTid(word)
  BY <1>7, CoreSetClearTid
<1>8. CASE \E w \in Tids : settleOne(w)
  BY <1>8, CoreSettleOne
<1> QED
  BY <1>1, <1>2, <1>3, <1>4, <1>5, <1>6, <1>7, <1>8, CoreEnds, CoreExecute, CoreScheduler,
     CoreTimedOut, CoreScheduleSwitch, CoreStutter DEF Next, Call, Scheduler

LEMMA CoreAlways == Spec => []Core
BY CoreInit, CoreNext, PTL DEF Spec

\* The state of the table, the queues and the scheduler has its type: a thread that runs
\* has its task, and every context is of a task.
THEOREM TypeCorrect == Spec => []TypeOK
<1>1. Core => TypeOK
  BY DEF Core
<1> QED BY <1>1, CoreAlways, PTL

\* No wake-up is lost: a thread is stopped exactly while it waits or is over, however the
\* calls, the wake-ups, the ends of processes and the scheduler interleave.
THEOREM NoLostWakeup == Spec => []StoppedIffWaiting
<1>1. Core => StoppedIffWaiting
  BY DEF Core
<1> QED BY <1>1, CoreAlways, PTL

-----------------------------------------------------------------------------
(* What a step makes of the table.  Each action is one of six changes; what  *)
(* the table promises of processes is shown of those.                        *)

\* No task of the group is left running.
Ended(T, group) == \A t \in DOMAIN T : T[t].group = group => T[t].status # NoStatus

LEMMA OverEnded ==
    ASSUME NEW T, NEW g \in DOMAIN T, T[g].group = g
    PROVE  Over(T, g) <=> Ended(T, g)
BY DEF Over, Ended, alone

\* No entry changes, but for the words of set_tid_address.
TableSame ==
    /\ DOMAIN tasks' = DOMAIN tasks
    /\ \A t \in DOMAIN tasks :
          /\ tasks'[t].group = tasks[t].group
          /\ tasks'[t].parent = tasks[t].parent
          /\ tasks'[t].space = tasks[t].space
          /\ tasks'[t].status = tasks[t].status
          /\ tasks'[t].selfExecId = tasks[t].selfExecId
    /\ nextTid' = nextTid

\* The thread that runs has a thread, or a process, more.
TableCloned ==
    /\ Live(tasks, current)
    /\ nextTid \in Tids /\ nextTid \notin DOMAIN tasks
    /\ DOMAIN tasks' = DOMAIN tasks \cup {nextTid}
    /\ \A t \in DOMAIN tasks : tasks'[t] = tasks[t]
    /\ tasks'[nextTid].status = NoStatus
    /\ tasks'[nextTid].selfExecId = tasks[current].selfExecId
    /\ \/ /\ tasks'[nextTid].group = tasks[current].group
          /\ tasks'[nextTid].parent = tasks[current].parent
          /\ tasks'[nextTid].space = tasks[current].space
       \/ /\ tasks'[nextTid].group = nextTid
          /\ tasks'[nextTid].parent = tasks[current].group
    /\ nextTid' = nextTid + 1

\* Nothing that runs is gone, and no leader but p.
TableLess(p) ==
    /\ DOMAIN tasks' \subseteq DOMAIN tasks
    /\ \A t \in DOMAIN tasks' : tasks'[t] = tasks[t] /\ tasks[t].group # p
    /\ \A t \in DOMAIN tasks : tasks[t].status = NoStatus => t \in DOMAIN tasks'
    /\ \A t \in DOMAIN tasks : tasks[t].group = t /\ t # p => t \in DOMAIN tasks'
    /\ nextTid' = nextTid

\* The process p, of which a live task w is told, can be reported to it.
Told(p, w) ==
    /\ Live(tasks, w)
    /\ p \in DOMAIN tasks
    /\ tasks[p].group = p
    /\ tasks[p].parent = tasks[w].group
    /\ Ended(tasks, p)

\* The last of its group to run, if no other does.
Last(tid) ==
    \A t \in DOMAIN tasks : tasks[t].group = tasks[tid].group => t = tid \/ tasks[t].status # NoStatus

\* One task has exited.
TableOut(tid) ==
    /\ Live(tasks, tid)
    /\ DOMAIN tasks' = DOMAIN tasks
    /\ \A t \in DOMAIN tasks :
          /\ tasks'[t].group = tasks[t].group
          /\ tasks'[t].space = tasks[t].space
          /\ tasks'[t].selfExecId = tasks[t].selfExecId
          /\ t # tid => tasks'[t].status = tasks[t].status
          /\ tasks'[t].parent = IF Last(tid) /\ tasks[t].parent = tasks[tid].group
                                THEN Min(DOMAIN tasks) ELSE tasks[t].parent
    /\ tasks'[tid].status # NoStatus
    /\ nextTid' = nextTid

\* All of a group has exited.
TableEnd(group) ==
    /\ \E t \in DOMAIN tasks : tasks[t].group = group /\ tasks[t].status = NoStatus
    /\ DOMAIN tasks' = DOMAIN tasks
    /\ \A t \in DOMAIN tasks :
          /\ tasks'[t].group = tasks[t].group
          /\ tasks'[t].space = tasks[t].space
          /\ tasks'[t].selfExecId = tasks[t].selfExecId
          /\ tasks[t].group = group => tasks'[t].status # NoStatus
          /\ tasks[t].group # group => tasks'[t].status = tasks[t].status
          /\ tasks'[t].parent = IF tasks[t].group # group /\ tasks[t].parent = group
                                THEN Min(DOMAIN tasks) ELSE tasks[t].parent
    /\ nextTid' = nextTid

\* The task has a new program, and is what leads its group and all that runs of it.
TableExec(tid) ==
    /\ Live(tasks, tid)
    /\ DOMAIN tasks' = DOMAIN tasks \ ({tid} \ {tasks[tid].group})
    /\ \A t \in DOMAIN tasks' :
          /\ tasks'[t].group = tasks[t].group
          /\ tasks'[t].parent = tasks[t].parent
          /\ tasks[t].group # tasks[tid].group =>
                /\ tasks'[t].status = tasks[t].status
                /\ tasks'[t].space = tasks[t].space
                /\ tasks'[t].selfExecId = tasks[t].selfExecId
          /\ t = tasks[tid].group =>
                /\ tasks'[t].status = NoStatus
                /\ tasks'[t].selfExecId = tasks[tid].selfExecId + 1
          /\ tasks[t].group = tasks[tid].group /\ t # tasks[tid].group => tasks'[t].status # NoStatus
          /\ t # tasks[tid].group => tasks'[t].space = tasks[t].space
    /\ nextTid' = nextTid

TableStep ==
    \/ TableSame
    \/ TableCloned
    \/ TableLess(None)
    \/ \E p, w \in DOMAIN tasks : TableLess(p) /\ Told(p, w)
    \/ \E tid \in DOMAIN tasks : TableOut(tid)
    \/ \E group \in Tids : TableEnd(group)
    \/ \E tid \in DOMAIN tasks : TableExec(tid)

-----------------------------------------------------------------------------
(* What the table promises of processes. *)

\* The first process is never gone, and has no parent.
FirstThere ==
    /\ First \in DOMAIN tasks
    /\ tasks[First].group = First
    /\ tasks[First].parent = None

\* No process is its own child.
NotOwnParent == \A t \in DOMAIN tasks : tasks[t].parent # tasks[t].group

\* The threads of a process that run are of one program.
ExecCoherent ==
    \A t, u \in DOMAIN tasks :
        tasks[t].group = tasks[u].group /\ Live(tasks, t) /\ Live(tasks, u)
            => tasks[t].selfExecId = tasks[u].selfExecId

Kin == FirstThere /\ NotOwnParent /\ GroupCoherent /\ OrphansAdopted /\ ExecCoherent

\* What GroupCoherent says, without the names it uses.
GroupPlain ==
    /\ \A t \in DOMAIN tasks :
          /\ tasks[t].group \in DOMAIN tasks
          /\ tasks[tasks[t].group].group = tasks[t].group
          /\ tasks[tasks[t].group].parent = tasks[t].parent
    /\ \A t, u \in DOMAIN tasks :
          /\ tasks[t].group = tasks[u].group
          /\ tasks[t].status = NoStatus
          /\ tasks[u].status = NoStatus
          => tasks[t].space = tasks[u].space

LEMMA GroupPlainly == GroupCoherent <=> GroupPlain
<1>1. ASSUME GroupCoherent PROVE GroupPlain
  BY <1>1 DEF GroupCoherent, GroupPlain, Members, Live
<1>2. ASSUME GroupPlain PROVE GroupCoherent
  BY <1>2 DEF GroupCoherent, GroupPlain, Members, Live
<1> QED BY <1>1, <1>2

\* What OrphansAdopted says, likewise.
OrphansPlain ==
    \A t \in DOMAIN tasks :
        tasks[t].parent \notin {None, First} =>
            /\ tasks[t].parent \in DOMAIN tasks
            /\ tasks[tasks[t].parent].group = tasks[t].parent
            /\ \E u \in DOMAIN tasks : tasks[u].group = tasks[t].parent /\ tasks[u].status = NoStatus

LEMMA OrphansPlainly == OrphansAdopted <=> OrphansPlain
<1>1. \A t \in DOMAIN tasks :
          tasks[t].parent \in DOMAIN tasks /\ tasks[tasks[t].parent].group = tasks[t].parent =>
             (~Over(tasks, tasks[t].parent) <=>
                 \E u \in DOMAIN tasks : tasks[u].group = tasks[t].parent /\ tasks[u].status = NoStatus)
  BY OverEnded DEF Ended
<1> QED BY <1>1 DEF OrphansAdopted, OrphansPlain

KinPlain ==
    /\ FirstThere /\ NotOwnParent /\ GroupPlain /\ OrphansPlain
    /\ \A t, u \in DOMAIN tasks :
          /\ tasks[t].group = tasks[u].group
          /\ tasks[t].status = NoStatus
          /\ tasks[u].status = NoStatus
          => tasks[t].selfExecId = tasks[u].selfExecId

LEMMA KinPlainly == Kin <=> KinPlain
BY GroupPlainly, OrphansPlainly DEF Kin, KinPlain, ExecCoherent, Live

\* The lowest id is that of the first process, to which orphans go.
LEMMA InitIsFirst ==
    ASSUME TypeOK, FirstThere
    PROVE  Min(DOMAIN tasks) = First
<1>1. DOMAIN tasks \in SUBSET Nat /\ DOMAIN tasks # {} /\ \A t \in DOMAIN tasks : 1 <= t
  BY IdsFact DEF FirstThere, Tids
<1>2. Min(DOMAIN tasks) \in DOMAIN tasks /\ \A t \in DOMAIN tasks : Min(DOMAIN tasks) <= t
  BY <1>1, MinFact
<1> QED
  BY <1>1, <1>2 DEF FirstThere, First

LEMMA KinInit == Init => Kin
<1> SUFFICES ASSUME Init PROVE KinPlain
  BY KinPlainly
<1> QED
  BY DEF Init, KinPlain, FirstThere, NotOwnParent, GroupPlain, OrphansPlain, First, None, NoStatus

LEMMA KinSame ==
    ASSUME KinPlain, TableSame
    PROVE  KinPlain'
<1> USE DEF KinPlain, TableSame
<1>1. FirstThere' /\ NotOwnParent'
  BY DEF FirstThere, NotOwnParent
<1>2. GroupPlain'
  BY DEF GroupPlain
<1>3. OrphansPlain'
  BY DEF OrphansPlain
<1> QED BY <1>1, <1>2, <1>3

LEMMA KinCloned ==
    ASSUME TypeOK, KinPlain, TableCloned
    PROVE  KinPlain'
<1> USE DEF KinPlain
<1>1. /\ current \in DOMAIN tasks /\ tasks[current].status = NoStatus
      /\ nextTid \notin DOMAIN tasks
      /\ DOMAIN tasks' = DOMAIN tasks \cup {nextTid}
      /\ \A t \in DOMAIN tasks : tasks'[t] = tasks[t]
      /\ tasks'[nextTid].status = NoStatus
      /\ tasks'[nextTid].selfExecId = tasks[current].selfExecId
  BY DEF TableCloned, Live
<1>2. tasks[current].group \in DOMAIN tasks /\ tasks[tasks[current].group].group = tasks[current].group
  BY <1>1 DEF GroupPlain
<1>3. CASE /\ tasks'[nextTid].group = tasks[current].group
           /\ tasks'[nextTid].parent = tasks[current].parent
           /\ tasks'[nextTid].space = tasks[current].space
  <2>1. FirstThere' /\ NotOwnParent'
    BY <1>1, <1>3 DEF FirstThere, NotOwnParent
  <2>2. GroupPlain'
    BY <1>1, <1>2, <1>3 DEF GroupPlain
  <2>3. OrphansPlain'
    BY <1>1, <1>3 DEF OrphansPlain
  <2> QED BY <1>1, <1>3, <2>1, <2>2, <2>3
<1>4. CASE /\ tasks'[nextTid].group = nextTid
           /\ tasks'[nextTid].parent = tasks[current].group
  <2>1. FirstThere' /\ NotOwnParent'
    BY <1>1, <1>2, <1>4 DEF FirstThere, NotOwnParent
  <2>2. \A t \in DOMAIN tasks : tasks[t].group # nextTid
    BY <1>1 DEF GroupPlain
  <2>3. GroupPlain'
    BY <1>1, <1>2, <1>4, <2>2 DEF GroupPlain
  <2>4. OrphansPlain'
    BY <1>1, <1>2, <1>4 DEF OrphansPlain
  <2> QED BY <1>1, <1>4, <2>1, <2>2, <2>3, <2>4
<1> QED BY <1>3, <1>4 DEF TableCloned

LEMMA KinLess ==
    ASSUME TypeOK, KinPlain, NEW p, p # First, TableLess(p),
           \A t \in DOMAIN tasks : tasks[t].status = NoStatus => tasks[t].group # p
    PROVE  KinPlain'
<1> USE DEF KinPlain
<1>1. /\ DOMAIN tasks' \subseteq DOMAIN tasks
      /\ \A t \in DOMAIN tasks' : tasks'[t] = tasks[t] /\ tasks[t].group # p
      /\ \A t \in DOMAIN tasks : tasks[t].status = NoStatus => t \in DOMAIN tasks'
      /\ \A t \in DOMAIN tasks : tasks[t].group = t /\ t # p => t \in DOMAIN tasks'
  BY DEF TableLess
<1>2. FirstThere' /\ NotOwnParent'
  BY <1>1 DEF FirstThere, NotOwnParent
<1>3. GroupPlain'
  BY <1>1 DEF GroupPlain
<1>4. OrphansPlain'
  <2> SUFFICES ASSUME NEW t \in DOMAIN tasks', tasks'[t].parent \notin {None, First}
               PROVE  /\ tasks'[t].parent \in DOMAIN tasks'
                      /\ tasks'[tasks'[t].parent].group = tasks'[t].parent
                      /\ \E u \in DOMAIN tasks' : tasks'[u].group = tasks'[t].parent /\ tasks'[u].status = NoStatus
    BY DEF OrphansPlain
  <2>1. /\ tasks[t].parent \in DOMAIN tasks
        /\ tasks[tasks[t].parent].group = tasks[t].parent
    BY <1>1 DEF OrphansPlain
  <2>2. PICK u \in DOMAIN tasks : tasks[u].group = tasks[t].parent /\ tasks[u].status = NoStatus
    BY <1>1 DEF OrphansPlain
  <2>3. tasks[t].parent # p
    BY <2>2
  <2> QED BY <1>1, <2>1, <2>2, <2>3
<1> QED BY <1>1, <1>2, <1>3, <1>4

LEMMA KinOut ==
    ASSUME TypeOK, KinPlain, NEW tid \in DOMAIN tasks, TableOut(tid)
    PROVE  KinPlain'
<1> USE DEF KinPlain
<1> DEFINE group == tasks[tid].group
<1>1. /\ DOMAIN tasks' = DOMAIN tasks
      /\ \A t \in DOMAIN tasks :
            /\ tasks'[t].group = tasks[t].group
            /\ tasks'[t].space = tasks[t].space
            /\ tasks'[t].selfExecId = tasks[t].selfExecId
            /\ t # tid => tasks'[t].status = tasks[t].status
            /\ tasks'[t].parent = IF Last(tid) /\ tasks[t].parent = group THEN First ELSE tasks[t].parent
      /\ tasks'[tid].status # NoStatus
      /\ tasks[tid].status = NoStatus
  BY InitIsFirst DEF TableOut, Live
<1>2. group \in DOMAIN tasks /\ tasks[group].group = group /\ group # None
  BY IdsFact DEF GroupPlain
<1> HIDE DEF group
<1>3. FirstThere'
  BY <1>1, <1>2 DEF FirstThere
<1>4. \A t \in DOMAIN tasks : tasks[t].parent = group => tasks[t].group # First
  BY <1>2 DEF GroupPlain, FirstThere
<1>5. NotOwnParent'
  BY <1>1, <1>4 DEF NotOwnParent
<1>6. GroupPlain'
  BY <1>1 DEF GroupPlain
<1>7. OrphansPlain'
  <2> SUFFICES ASSUME NEW t \in DOMAIN tasks, tasks'[t].parent \notin {None, First}
               PROVE  /\ tasks'[t].parent \in DOMAIN tasks
                      /\ tasks'[tasks'[t].parent].group = tasks'[t].parent
                      /\ \E u \in DOMAIN tasks : tasks'[u].group = tasks'[t].parent /\ tasks'[u].status = NoStatus
    BY <1>1 DEF OrphansPlain
  <2>1. tasks'[t].parent = tasks[t].parent /\ (tasks[t].parent = group => ~Last(tid))
    BY <1>1
  <2>2. /\ tasks[t].parent \in DOMAIN tasks
        /\ tasks[tasks[t].parent].group = tasks[t].parent
    BY <2>1 DEF OrphansPlain
  <2>3. \E u \in DOMAIN tasks : tasks[u].group = tasks[t].parent /\ tasks[u].status = NoStatus /\ u # tid
    <3>1. CASE tasks[t].parent = group
      BY <2>1, <3>1 DEF Last, group
    <3>2. CASE tasks[t].parent # group
      BY <2>1, <3>2 DEF OrphansPlain, group
    <3> QED BY <3>1, <3>2
  <2> QED BY <1>1, <2>1, <2>2, <2>3
<1> QED BY <1>1, <1>3, <1>5, <1>6, <1>7

LEMMA KinEnd ==
    ASSUME TypeOK, KinPlain, NEW group \in Tids, TableEnd(group)
    PROVE  KinPlain'
<1> USE DEF KinPlain
<1>1. /\ DOMAIN tasks' = DOMAIN tasks
      /\ \A t \in DOMAIN tasks :
            /\ tasks'[t].group = tasks[t].group
            /\ tasks'[t].space = tasks[t].space
            /\ tasks'[t].selfExecId = tasks[t].selfExecId
            /\ tasks[t].group = group => tasks'[t].status # NoStatus
            /\ tasks[t].group # group => tasks'[t].status = tasks[t].status
            /\ tasks'[t].parent = IF tasks[t].group # group /\ tasks[t].parent = group
                                  THEN First ELSE tasks[t].parent
  BY InitIsFirst DEF TableEnd
<1>2. group # None
  BY DEF Tids, None
<1>3. FirstThere'
  BY <1>1, <1>2 DEF FirstThere
<1>4. \A t \in DOMAIN tasks : tasks[t].parent = group => tasks[t].group # First /\ tasks[t].group # group
  BY <1>2 DEF GroupPlain, FirstThere, NotOwnParent
<1>5. NotOwnParent'
  BY <1>1, <1>4 DEF NotOwnParent
<1>6. GroupPlain'
  BY <1>1 DEF GroupPlain
<1>7. OrphansPlain'
  <2> SUFFICES ASSUME NEW t \in DOMAIN tasks, tasks'[t].parent \notin {None, First}
               PROVE  /\ tasks'[t].parent \in DOMAIN tasks
                      /\ tasks'[tasks'[t].parent].group = tasks'[t].parent
                      /\ \E u \in DOMAIN tasks : tasks'[u].group = tasks'[t].parent /\ tasks'[u].status = NoStatus
    BY <1>1 DEF OrphansPlain
  <2>1. tasks'[t].parent = tasks[t].parent /\ tasks[t].parent # group
    BY <1>1, <1>4
  <2>2. /\ tasks[t].parent \in DOMAIN tasks
        /\ tasks[tasks[t].parent].group = tasks[t].parent
        /\ \E u \in DOMAIN tasks : tasks[u].group = tasks[t].parent /\ tasks[u].status = NoStatus
    BY <2>1 DEF OrphansPlain
  <2> QED BY <1>1, <2>1, <2>2
<1> QED BY <1>1, <1>3, <1>5, <1>6, <1>7

LEMMA KinExec ==
    ASSUME TypeOK, KinPlain, NEW tid \in DOMAIN tasks, TableExec(tid)
    PROVE  KinPlain'
<1> USE DEF KinPlain
<1> DEFINE group == tasks[tid].group
<1>1. /\ DOMAIN tasks' = DOMAIN tasks \ ({tid} \ {group})
      /\ \A t \in DOMAIN tasks' :
            /\ tasks'[t].group = tasks[t].group
            /\ tasks'[t].parent = tasks[t].parent
            /\ tasks[t].group # group =>
                  /\ tasks'[t].status = tasks[t].status
                  /\ tasks'[t].space = tasks[t].space
                  /\ tasks'[t].selfExecId = tasks[t].selfExecId
            /\ t = group => tasks'[t].status = NoStatus
            /\ tasks[t].group = group /\ t # group => tasks'[t].status # NoStatus
  BY DEF TableExec
<1>2. group \in DOMAIN tasks' /\ tasks[group].group = group
  BY <1>1 DEF GroupPlain
<1>3. \A t \in DOMAIN tasks : tasks[t].group = t => t \in DOMAIN tasks'
  BY <1>1
<1>4. \A t \in DOMAIN tasks : tasks[t].group # group => t \in DOMAIN tasks'
  BY <1>1
<1> HIDE DEF group
<1>5. FirstThere' /\ NotOwnParent'
  BY <1>1, <1>3 DEF FirstThere, NotOwnParent
<1>6. GroupPlain'
  BY <1>1, <1>2, <1>3 DEF GroupPlain
<1>7. OrphansPlain'
  <2> SUFFICES ASSUME NEW t \in DOMAIN tasks', tasks'[t].parent \notin {None, First}
               PROVE  /\ tasks'[t].parent \in DOMAIN tasks'
                      /\ tasks'[tasks'[t].parent].group = tasks'[t].parent
                      /\ \E u \in DOMAIN tasks' : tasks'[u].group = tasks'[t].parent /\ tasks'[u].status = NoStatus
    BY DEF OrphansPlain
  <2>1. t \in DOMAIN tasks /\ tasks'[t].parent = tasks[t].parent
    BY <1>1
  <2>2. /\ tasks[t].parent \in DOMAIN tasks'
        /\ tasks[tasks[t].parent].group = tasks[t].parent
    BY <1>3, <2>1 DEF OrphansPlain
  <2>3. PICK u \in DOMAIN tasks : tasks[u].group = tasks[t].parent /\ tasks[u].status = NoStatus
    BY <2>1 DEF OrphansPlain
  <2>4. CASE tasks[t].parent = group
    BY <1>1, <1>2, <2>1, <2>2, <2>4
  <2>5. CASE tasks[t].parent # group
    BY <1>1, <1>4, <2>1, <2>2, <2>3, <2>5
  <2> QED BY <2>4, <2>5
<1>8. \A t, u \in DOMAIN tasks' :
          /\ tasks'[t].group = tasks'[u].group
          /\ tasks'[t].status = NoStatus
          /\ tasks'[u].status = NoStatus
          => tasks'[t].selfExecId = tasks'[u].selfExecId
  BY <1>1
<1> QED BY <1>5, <1>6, <1>7, <1>8

LEMMA KinPlainlyNext == Kin' <=> KinPlain'
BY KinPlainly, PTL

LEMMA KinStep ==
    ASSUME TypeOK, Kin, TableStep
    PROVE  Kin'
<1>1. KinPlain
  BY KinPlainly
<1>2. CASE TableLess(None)
  <2>1. None # First /\ \A t \in DOMAIN tasks : tasks[t].group # None
    BY <1>1, IdsFact DEF None, First, KinPlain, GroupPlain
  <2> QED BY <1>1, <1>2, <2>1, KinLess, KinPlainlyNext
<1>3. ASSUME NEW p \in DOMAIN tasks, NEW w \in DOMAIN tasks, TableLess(p), Told(p, w) PROVE Kin'
  <2>1. p # First
    BY <1>1, <1>3, IdsFact DEF Told, KinPlain, FirstThere, GroupPlain, Live
  <2>2. \A t \in DOMAIN tasks : tasks[t].status = NoStatus => tasks[t].group # p
    BY <1>3 DEF Told, Ended
  <2> QED BY <1>1, <1>3, <2>1, <2>2, KinLess, KinPlainlyNext
<1> QED
  BY <1>1, <1>2, <1>3, KinSame, KinCloned, KinOut, KinEnd, KinExec, KinPlainlyNext DEF TableStep

\* The steps that leave the table alone.
LEMMA TableUnchanged ==
    ASSUME UNCHANGED <<tasks, nextTid>>
    PROVE  TableStep
BY DEF TableStep, TableSame

LEMMA TableClone ==
    ASSUME Core, NEW vm \in BOOLEAN, NEW thread \in BOOLEAN, NEW vfork \in BOOLEAN,
           NEW word \in Words \cup {NoWord}, clone(vm, thread, vfork, word)
    PROVE  TableCloned
<1>1. Runs /\ nextTid \in Tids /\ nextTid \notin DOMAIN tasks
  BY TasksAssumption DEF Core, clone, TypeOK, Tids
<1>2. Live(tasks, current)
  BY <1>1, RunsFact DEF Live, Me
<1> QED
  BY <1>1, <1>2 DEF clone, TableCloned, Me

\* What is asked for and can be reported has ended.
LEMMA AskedTold ==
    ASSUME Core, NEW w \in DOMAIN tasks, Live(tasks, w), NEW target,
           NEW p \in report(tasks, asked(tasks, tasks[w].group, target))
    PROVE  p \in DOMAIN tasks /\ Told(p, w)
<1>1. p \in asked(tasks, tasks[w].group, target) /\ Over(tasks, p)
  BY DEF report, Over
<1>2. p \in DOMAIN tasks /\ tasks[p].group = p /\ tasks[p].parent = tasks[w].group
  BY <1>1 DEF asked
<1> QED BY <1>1, <1>2, OverEnded DEF Told

\* Collecting what is gone after the process p was reaped, or after none was.
LEMMA TableCollect ==
    ASSUME TypeOK, LeaderPresent, NEW S \in [DOMAIN tasks -> BOOLEAN], NEW running, NEW p, NEW T,
           T = Only(tasks, {t \in DOMAIN tasks : tasks[t].group # p}),
           running \in DOMAIN T, collectGone(T, S, running), nextTid' = nextTid,
           \A t \in DOMAIN tasks : tasks[t].status = NoStatus => tasks[t].group # p
    PROVE  TableLess(p)
<1> DEFINE D == {t \in DOMAIN tasks : tasks[t].group # p}
<1>1. \A t \in D : tasks[t].group \in D
  BY DEF LeaderPresent
<1>2. running \in D
  BY DEF Only
<1>3. collectGone(Only(tasks, D), S, running) /\ D \in SUBSET DOMAIN tasks
  OBVIOUS
<1>4. \A t \in D : tasks[t].group # p
  OBVIOUS
<1>5. \A t \in DOMAIN tasks : tasks[t].group # p => t \in D
  OBVIOUS
<1> HIDE DEF D
<1>6. /\ DOMAIN tasks' \subseteq D
      /\ \A t \in DOMAIN tasks' : tasks'[t] = tasks[t]
      /\ \A t \in D : tasks[t].status = NoStatus => t \in DOMAIN tasks'
      /\ \A t \in D : tasks[t].group = t => t \in DOMAIN tasks'
  BY <1>1, <1>2, <1>3, CollectFact
<1> QED
  BY <1>3, <1>4, <1>5, <1>6 DEF TableLess

LEMMA OnlyFact ==
    ASSUME TypeOK, LeaderPresent
    PROVE  /\ tasks = Only(tasks, {t \in DOMAIN tasks : tasks[t].group # None})
           /\ \A p : reap(tasks, p) = Only(tasks, {t \in DOMAIN tasks : tasks[t].group # p})
           /\ \A t \in DOMAIN tasks : tasks[t].group # None
<1>1. \A t \in DOMAIN tasks : tasks[t].group # None
  BY IdsFact DEF LeaderPresent
<1>2. {t \in DOMAIN tasks : tasks[t].group # None} = DOMAIN tasks
  BY <1>1
<1>3. ASSUME NEW p PROVE reap(tasks, p) = Only(tasks, {t \in DOMAIN tasks : tasks[t].group # p})
  <2>1. DOMAIN tasks \ Members(tasks, p) = {t \in DOMAIN tasks : tasks[t].group # p}
    BY DEF Members
  <2> QED BY <2>1 DEF reap
<1> QED BY <1>1, <1>2, <1>3, OnlyAll

\* A wait that reports at once takes the lowest of those it can.
LEMMA TableServeWait ==
    ASSUME Core, NEW target \in Tids \cup {None}, serveWait(target)
    PROVE  \/ UNCHANGED <<tasks, nextTid>>
           \/ \E p \in DOMAIN tasks : TableLess(p) /\ Told(p, current)
<1> DEFINE over == report(tasks, asked(tasks, tasks[current].group, target))
<1>1. Runs /\ current \in DOMAIN tasks /\ Live(tasks, current) /\ nextTid' = nextTid
  BY RunsFact DEF serveWait, Me, Live
<1>2. CASE over # {} /\ collectGone(reap(tasks, Min(over)), stopped, current)
  <2>1. Min(over) \in over
    BY <1>2, IdsFact, MinFact DEF report, asked, Core
  <2> DEFINE p == Min(over)
  <2>2. p \in DOMAIN tasks /\ Told(p, current)
    <3> HIDE DEF p
    <3>1. p \in report(tasks, asked(tasks, tasks[current].group, target))
      BY <2>1 DEF p
    <3> QED BY <1>1, <3>1, AskedTold
  <2>3. collectGone(reap(tasks, p), stopped, current)
    BY <1>2
  <2> HIDE DEF p, over
  <2>4. \A t \in DOMAIN tasks : tasks[t].status = NoStatus => tasks[t].group # p
    BY <2>2 DEF Told, Ended
  <2>5. current \in DOMAIN reap(tasks, p)
    BY <1>1, <2>4 DEF reap, Only, Members, Live
  <2>6. stopped \in [DOMAIN tasks -> BOOLEAN]
    BY DEF Core, TypeOK
  <2>7. reap(tasks, p) = Only(tasks, {t \in DOMAIN tasks : tasks[t].group # p})
    BY OnlyFact DEF Core
  <2>8. TableLess(p)
    <3> DEFINE T == reap(tasks, p)
    <3>1. T = Only(tasks, {t \in DOMAIN tasks : tasks[t].group # p}) /\ current \in DOMAIN T
          /\ collectGone(T, stopped, current)
      BY <2>3, <2>5, <2>7
    <3> HIDE DEF T
    <3> QED BY <1>1, <2>4, <2>6, <3>1, TableCollect DEF Core
  <2> QED BY <2>2, <2>8
<1>3. CASE UNCHANGED tasks
  BY <1>1, <1>3
<1> QED
  BY <1>2, <1>3 DEF serveWait, Me

LEMMA TableExitThread ==
    ASSUME Core, NEW code \in Codes, exitThread(code)
    PROVE  current \in DOMAIN tasks /\ TableOut(current)
<1> DEFINE status == exitedStatus(code)
<1>1. Runs /\ current \in DOMAIN tasks /\ Live(tasks, current) /\ nextTid' = nextTid
  BY RunsFact DEF exitThread, Me, Live
<1>2. status \in Nat /\ status # NoStatus
  BY Statuses
<1>3. tasks' = exitTask(tasks, current, status, initTask(tasks)) /\ initTask(tasks) \in DOMAIN tasks
  BY InitTaskFact DEF exitThread, Core
<1> HIDE DEF status
<1>4. LastOut(current, status) <=> Last(current)
  <2> DEFINE left == [tasks EXCEPT ![current].status = status]
             group == tasks[current].group
  <2>1. /\ DOMAIN left = DOMAIN tasks
        /\ \A t \in DOMAIN tasks :
              /\ left[t].group = tasks[t].group
              /\ left[t].status = IF t = current THEN status ELSE tasks[t].status
    BY <1>1 DEF Core, TypeOK, Entry
  <2>2. group \in DOMAIN tasks /\ tasks[group].group = group
    BY <1>1 DEF Core, LeaderPresent
  <2>3. LastOut(current, status) <=> /\ group \in DOMAIN left /\ left[group].status # NoStatus
                                     /\ alone(left, group)
    BY DEF LastOut
  <2> HIDE DEF left
  <2> QED BY <1>2, <2>1, <2>2, <2>3 DEF Last, alone
<1>5. /\ tasks' \in [DOMAIN tasks -> Entry]
      /\ \A t \in DOMAIN tasks :
            /\ tasks'[t].group = tasks[t].group
            /\ tasks'[t].space = tasks[t].space
            /\ tasks'[t].selfExecId = tasks[t].selfExecId
            /\ tasks'[t].status = IF t = current THEN status ELSE tasks[t].status
            /\ tasks'[t].parent = IF LastOut(current, status) /\ tasks[t].parent = tasks[current].group
                                  THEN initTask(tasks) ELSE tasks[t].parent
  BY <1>1, <1>2, <1>3, ExitTaskFact DEF Core
<1> QED
  BY <1>1, <1>2, <1>4, <1>5 DEF TableOut, initTask

LEMMA TableMarkExited ==
    ASSUME Core, NEW t \in DOMAIN tasks, tasks[t].status = NoStatus, NEW status \in Nat,
           markExited(tasks[t].group, status)
    PROVE  tasks[t].group \in Tids /\ TableEnd(tasks[t].group)
<1> DEFINE group == tasks[t].group
<1>1. group \in Tids /\ status # NoStatus
  BY DEF Core, TypeOK, Entry, NoStatus
<1>2. tasks' = exitGroup(tasks, group, status, initTask(tasks)) /\ initTask(tasks) \in DOMAIN tasks
      /\ nextTid' = nextTid
  BY InitTaskFact DEF markExited, Core
<1>3. /\ tasks' \in [DOMAIN tasks -> Entry]
      /\ \A u \in DOMAIN tasks :
            /\ tasks'[u].group = tasks[u].group
            /\ tasks'[u].space = tasks[u].space
            /\ tasks'[u].selfExecId = tasks[u].selfExecId
            /\ tasks'[u].status = IF tasks[u].group = group THEN status ELSE tasks[u].status
            /\ tasks'[u].parent = IF tasks[u].group # group /\ tasks[u].parent = group
                                  THEN initTask(tasks) ELSE tasks[u].parent
  <2> HIDE DEF group
  <2>1. exitGroup(tasks, group, status, initTask(tasks)) \in [DOMAIN tasks -> Entry]
    BY <1>2, ExitGroupFact DEF Core
  <2>2. tasks' \in [DOMAIN tasks -> Entry]
    BY <1>2, <2>1
  <2> QED BY <1>2, <2>2, ExitGroupFact DEF Core
<1> QED
  BY <1>1, <1>2, <1>3 DEF TableEnd, initTask

\* exit_group, a fatal signal and a fault end the process of a task that runs.
LEMMA TableEnds ==
    ASSUME Core,
           \/ \E code \in Codes : exitProcess(code)
           \/ \E target \in Tids, signal \in Signals : tgkill(target, signal)
           \/ fault
    PROVE  \/ UNCHANGED <<table, nextTid>>
           \/ \E group \in Tids : TableEnd(group)
<1>1. Runs /\ current \in DOMAIN tasks /\ tasks[current].status = NoStatus
  BY RunsFact DEF exitProcess, tgkill, fault, Me
<1>2. ASSUME NEW code \in Codes, exitProcess(code) PROVE \E group \in Tids : TableEnd(group)
  BY <1>1, <1>2, Statuses, TableMarkExited DEF exitProcess, Me
<1>3. ASSUME NEW target \in Tids, NEW signal \in Signals, tgkill(target, signal)
      PROVE  UNCHANGED <<table, nextTid>> \/ \E group \in Tids : TableEnd(group)
  <2>1. target \in DOMAIN tasks /\ tasks[target].status = NoStatus
    BY <1>3 DEF tgkill, Live
  <2>2. CASE markExited(tasks[target].group, signaledStatus(signal))
    BY <2>1, <2>2, Statuses, TableMarkExited
  <2> QED BY <1>3, <2>2 DEF tgkill
<1>4. CASE fault
  BY <1>1, <1>4, Statuses, TableMarkExited DEF fault, Me
<1> QED BY <1>2, <1>3, <1>4

LEMMA TableExecute ==
    ASSUME Core, GroupPlain, execute
    PROVE  /\ current \in DOMAIN tasks /\ TableExec(current)
           /\ tasks'[tasks[current].group].space = IF Shares THEN tasks[current].group ELSE tasks[current].space
<1> DEFINE group == tasks[current].group
           others == {t \in Members(tasks, group) : t # current /\ tasks[t].status = NoStatus}
           gone == {current} \ {group}
<1>1. /\ Runs /\ group \in DOMAIN tasks /\ tasks[group].group = group
      /\ current \in DOMAIN tasks /\ Me = tasks[current] /\ Me \in Entry /\ Me.status = NoStatus
      /\ tasks[group] \in Entry /\ nextTid' = nextTid
  BY RunsFact DEF execute, Core, LeaderPresent, Me, TypeOK
<1> DEFINE heir == [Me EXCEPT !.parent = tasks[group].parent, !.clearTid = NoWord,
                               !.selfExecId = @ + 1]
           leader == IF Shares THEN [heir EXCEPT !.space = group] ELSE heir
           ended == [t \in DOMAIN tasks |->
                         IF t \in others THEN [tasks[t] EXCEPT !.status = 0] ELSE tasks[t]]
           leads == [t \in DOMAIN tasks \ gone |-> IF t = group THEN heir ELSE ended[t]]
<1>2. tasks' = [t \in DOMAIN tasks \ gone |-> IF t = group THEN leader ELSE ended[t]]
  <2>1. ended[current] = Me /\ ended[group].parent = tasks[group].parent /\ DOMAIN ended = DOMAIN tasks
    BY <1>1 DEF Entry
  <2>2. executed(ended, current) = leads
    <3>1. ended[current].group = group
      BY <1>1, <2>1
    <3> HIDE DEF ended
    <3> QED BY <2>1, <3>1 DEF executed
  <2>3. tasks' = IF Shares THEN [leads EXCEPT ![group].space = group] ELSE leads
    <3>1. tasks' = IF Shares THEN [executed(ended, current) EXCEPT ![group].space = group]
                   ELSE executed(ended, current)
      BY <1>1 DEF execute
    <3> HIDE DEF leads, ended
    <3> QED BY <2>2, <3>1
  <2>4. group \in DOMAIN tasks \ gone
    BY <1>1
  <2> HIDE DEF heir, ended, gone, group
  <2> QED BY <2>3, <2>4
<1>3. /\ leader.group = group /\ leader.status = NoStatus /\ leader.parent = tasks[group].parent
      /\ leader.selfExecId = Me.selfExecId + 1
      /\ leader.space = IF Shares THEN group ELSE Me.space
  <2>1. heir.group = group /\ heir.status = NoStatus /\ heir.parent = tasks[group].parent
        /\ heir.selfExecId = Me.selfExecId + 1 /\ heir.space = Me.space
    BY <1>1 DEF Entry
  <2>2. heir \in Entry
    <3>1. /\ group \in Tids
          /\ tasks[group].parent \in Tids \cup {None}
          /\ Me.selfExecId \in Nat /\ Me.selfExecId + 1 \in Nat
      BY <1>1 DEF Entry
    <3> QED BY <1>1, <3>1 DEF Entry
  <2> HIDE DEF heir
  <2> QED BY <2>1, <2>2 DEF Entry
<1>4. \A t \in DOMAIN tasks :
          /\ ended[t].group = tasks[t].group /\ ended[t].parent = tasks[t].parent
          /\ ended[t].space = tasks[t].space /\ ended[t].selfExecId = tasks[t].selfExecId
          /\ ended[t].status = IF t \in others THEN 0 ELSE tasks[t].status
  BY DEF Core, TypeOK, Entry
<1>5. \A t \in DOMAIN tasks : t \in others <=> /\ tasks[t].group = group /\ t # current
                                               /\ tasks[t].status = NoStatus
  BY DEF Members
<1>6. Live(tasks, current) /\ 0 # NoStatus
  BY <1>1 DEF Live, NoStatus
<1>7. DOMAIN tasks' = DOMAIN tasks \ gone /\ \A t \in DOMAIN tasks' : t # current \/ t = group
  BY <1>2
<1>8. /\ group \in DOMAIN tasks'
      /\ tasks'[group] = leader
      /\ \A t \in DOMAIN tasks' : t # group => tasks'[t] = ended[t]
  BY <1>1, <1>2
<1> HIDE DEF leader, ended, others
<1>9. \A t \in DOMAIN tasks' :
          /\ tasks'[t].group = tasks[t].group
          /\ tasks'[t].parent = tasks[t].parent
          /\ tasks[t].group # group =>
                /\ tasks'[t].status = tasks[t].status
                /\ tasks'[t].space = tasks[t].space
                /\ tasks'[t].selfExecId = tasks[t].selfExecId
          /\ t = group => tasks'[t].status = NoStatus /\ tasks'[t].selfExecId = tasks[current].selfExecId + 1
          /\ tasks[t].group = group /\ t # group => tasks'[t].status # NoStatus
          /\ t # group => tasks'[t].space = tasks[t].space
  BY <1>1, <1>3, <1>4, <1>5, <1>6, <1>7, <1>8
<1>10. TableExec(current)
  <2>1. nextTid' = nextTid
    BY <1>1
  <2> QED BY <1>6, <1>7, <1>9, <2>1 DEF TableExec
<1> QED
  BY <1>1, <1>3, <1>8, <1>10

LEMMA TableSettleOne ==
    ASSUME Core, NEW w \in Tids, settleOne(w)
    PROVE  \/ UNCHANGED <<tasks, waiters, nextTid>>
           \/ TableLess(None) /\ waiters' = Leave(waiters, {w})
           \/ /\ waiters' = Leave(waiters, {w})
              /\ w \in DOMAIN tasks
              /\ \E p \in report(tasks, asked(tasks, tasks[w].group, waiters[w].target)) :
                    p \in DOMAIN tasks /\ TableLess(p) /\ Told(p, w)
<1> DEFINE over == report(tasks, asked(tasks, tasks[w].group, waiters[w].target))
           left == IF over # {} THEN reap(tasks, Min(over)) ELSE tasks
           first == IF woke = None THEN w ELSE woke
           running == IF current \in DOMAIN left THEN current ELSE first
           S == Resume(stopped, {w})
<1>1. w \in DOMAIN tasks /\ Live(tasks, w) /\ nextTid' = nextTid
  BY DEF settleOne, Foremost, Core, TypeOK, StoppedIffWaiting, blocked, Live
<1>2. S \in [DOMAIN tasks -> BOOLEAN]
  BY DEF Resume, Core, TypeOK
<1>3. first \in DOMAIN tasks /\ tasks[first].status = NoStatus
  BY <1>1 DEF Core, WokeLive, Live
<1> HIDE DEF first, S
<1>4. CASE waiters' = Leave(waiters, {w}) /\ collectGone(left, S, running)
  <2>1. CASE over = {}
    <3>1. left = tasks /\ running \in DOMAIN tasks
      BY <1>3, <2>1
    <3>2. collectGone(tasks, S, running)
      BY <1>4, <3>1
    <3> HIDE DEF running, left, over
    <3>3. TableLess(None)
      BY <1>1, <1>2, <3>1, <3>2, OnlyFact, TableCollect DEF Core
    <3> QED BY <1>4, <3>3
  <2>2. CASE over # {}
    <3>1. Min(over) \in over
      BY <2>2, IdsFact, MinFact DEF report, asked, Core
    <3> DEFINE p == Min(over)
    <3>2. left = reap(tasks, p) /\ p \in over
      BY <2>2, <3>1
    <3> HIDE DEF p, left, running
    <3>3. p \in DOMAIN tasks /\ Told(p, w)
      BY <1>1, <3>2, AskedTold
    <3> HIDE DEF over
    <3>4. \A t \in DOMAIN tasks : tasks[t].status = NoStatus => tasks[t].group # p
      BY <3>3 DEF Told, Ended
    <3>5. left = Only(tasks, {t \in DOMAIN tasks : tasks[t].group # p})
      BY <3>2, OnlyFact DEF Core
    <3>6. first \in DOMAIN left
      BY <1>3, <3>4, <3>5 DEF Only
    <3>7. running \in DOMAIN left
      BY <3>6 DEF running
    <3>8. TableLess(p)
      BY <1>1, <1>2, <1>4, <3>4, <3>5, <3>7, TableCollect DEF Core
    <3> QED BY <1>1, <1>4, <3>2, <3>3, <3>8 DEF over
  <2> QED BY <2>1, <2>2
<1>5. CASE UNCHANGED <<tasks, waiters>>
  BY <1>1, <1>5
<1> QED
  BY <1>4, <1>5 DEF settleOne, S, first

LEMMA TableScheduleSwitch ==
    ASSUME Core, scheduleSwitch
    PROVE  TableLess(None)
<1>1. current' \in DOMAIN tasks /\ collectGone(tasks, stopped, current') /\ nextTid' = nextTid
  BY PickFact DEF scheduleSwitch, Core
<1>2. stopped \in [DOMAIN tasks -> BOOLEAN]
  BY DEF Core, TypeOK
<1> QED BY <1>1, <1>2, OnlyFact, TableCollect DEF Core

LEMMA TableNext ==
    ASSUME Core, GroupPlain, [Next]_vars
    PROVE  TableStep
<1>1. CASE \E vm, thread, vfork \in BOOLEAN, word \in Words \cup {NoWord} : clone(vm, thread, vfork, word)
  BY <1>1, TableClone DEF TableStep
<1>2. ASSUME NEW target \in Tids \cup {None}, serveWait(target) PROVE TableStep
  <2>1. current \in DOMAIN tasks
    BY DEF Core, TypeOK
  <2> QED BY <1>2, <2>1, TableServeWait, TableUnchanged DEF TableStep
<1>3. CASE \E code \in Codes : exitThread(code)
  BY <1>3, TableExitThread DEF TableStep
<1>4. CASE execute
  BY <1>4, TableExecute DEF TableStep
<1>5. ASSUME NEW w \in Tids, settleOne(w) PROVE TableStep
  BY <1>5, TableSettleOne, TableUnchanged DEF TableStep
<1>6. CASE scheduleSwitch
  BY <1>6, TableScheduleSwitch DEF TableStep
<1>7. ASSUME NEW word \in Words, setClearTid(word) PROVE TableStep
  <2>1. TableSame
    BY <1>7 DEF setClearTid, TableSame, Core, TypeOK, Entry
  <2> QED BY <2>1 DEF TableStep
<1>8. CASE \/ \E code \in Codes : exitProcess(code)
           \/ \E target \in Tids, signal \in Signals : tgkill(target, signal)
           \/ fault
  BY <1>8, TableEnds, TableUnchanged DEF TableStep, table
<1>9. CASE \/ \E word \in Words, bitset \in Mask, timed \in BOOLEAN : futexWait(word, bitset, timed)
           \/ \E word \in Words, bitset \in Mask, count \in Counts : serveWake(word, bitset, count)
           \/ \E source, target \in Words, wake, move \in Counts : futexRequeue(source, target, wake, move)
           \/ timedOut
  BY <1>9, TableUnchanged DEF futexWait, serveWake, futexRequeue, timedOut
<1>10. CASE switchNextThread \/ TurnEnds \/ Settled \/ scheduleRun \/ scheduleDone \/ UNCHANGED vars
  BY <1>10, TableUnchanged DEF switchNextThread, TurnEnds, Settled, scheduleRun, scheduleDone, table, vars
<1> QED
  BY <1>1, <1>2, <1>3, <1>4, <1>5, <1>6, <1>7, <1>8, <1>9, <1>10 DEF Next, Call, Scheduler

LEMMA KinAlways == Spec => []Kin
<1>1. Core /\ Kin /\ [Next]_vars => Kin'
  <2> SUFFICES ASSUME Core, Kin, [Next]_vars PROVE Kin'
    OBVIOUS
  <2>1. TableStep
    BY TableNext, GroupPlainly DEF Kin
  <2> QED BY <2>1, KinStep DEF Core
<1> QED BY <1>1, KinInit, CoreAlways, PTL DEF Spec

\* The threads of a process are led by a task in the table, have one parent, and those that
\* have not exited one memory, whoever exits, is reaped or runs a program in between.
THEOREM GroupsAlwaysCoherent == Spec => []GroupCoherent
<1>1. Kin => GroupCoherent
  BY DEF Kin
<1> QED BY <1>1, KinAlways, PTL

\* Nobody is the child of a process that is over, other than of the first.
THEOREM OrphansAlwaysAdopted == Spec => []OrphansAdopted
<1>1. Kin => OrphansAdopted
  BY DEF Kin
<1> QED BY <1>1, KinAlways, PTL

-----------------------------------------------------------------------------
(* The table implements Processes. *)

\* The processes of the table, as Processes has them.
Procs == [p \in Leaders |-> [parent |-> tasks[p].parent, over |-> Over(tasks, p)]]

LEMMA ProcsDom == DOMAIN Procs = Leaders /\ \A p \in Leaders : Procs[p] = [parent |-> tasks[p].parent, over |-> Over(tasks, p)]
BY DEF Procs

\* A process is over when all of it has ended, before and after a step.
LEMMA LeadersOver ==
    /\ \A p \in Leaders : Over(tasks, p) <=> Ended(tasks, p)
    /\ \A p \in Leaders' : Over(tasks', p) <=> Ended(tasks', p)
BY OverEnded DEF Leaders

LEMMA ProcsStay ==
    ASSUME Leaders' = Leaders,
           \A p \in Leaders : tasks'[p].parent = tasks[p].parent /\ (Ended(tasks', p) <=> Ended(tasks, p))
    PROVE  Procs' = Procs
<1>1. \A p \in Leaders : tasks'[p].parent = tasks[p].parent /\ Over(tasks', p) = Over(tasks, p)
  BY LeadersOver DEF Over, alone
<1> QED
  BY <1>1 DEF Procs

LEMMA ProcsSame ==
    ASSUME TableSame
    PROVE  Procs' = Procs
<1>1. Leaders' = Leaders
  BY DEF TableSame, Leaders
<1>2. \A p \in Leaders : tasks'[p].parent = tasks[p].parent /\ (Ended(tasks', p) <=> Ended(tasks, p))
  BY DEF TableSame, Ended, Leaders
<1> QED BY <1>1, <1>2, ProcsStay

LEMMA ProcsExec ==
    ASSUME GroupPlain, NEW tid \in DOMAIN tasks, TableExec(tid)
    PROVE  Procs' = Procs
<1> DEFINE group == tasks[tid].group
<1>1. /\ DOMAIN tasks' = DOMAIN tasks \ ({tid} \ {group})
      /\ \A t \in DOMAIN tasks' :
            /\ tasks'[t].group = tasks[t].group
            /\ tasks'[t].parent = tasks[t].parent
            /\ tasks[t].group # group => tasks'[t].status = tasks[t].status
            /\ t = group => tasks'[t].status = NoStatus
      /\ tasks[tid].status = NoStatus
      /\ group \in DOMAIN tasks' /\ tasks[group].group = group
  BY DEF TableExec, Live, GroupPlain
<1>2. \A t \in DOMAIN tasks : tasks[t].group = t \/ tasks[t].group # group => t \in DOMAIN tasks'
  BY <1>1
<1> HIDE DEF group
<1>3. Leaders' = Leaders
  BY <1>1, <1>2 DEF Leaders
<1>4. ASSUME NEW p \in Leaders
      PROVE  tasks'[p].parent = tasks[p].parent /\ (Ended(tasks', p) <=> Ended(tasks, p))
  <2>1. p \in DOMAIN tasks /\ tasks[p].group = p /\ p \in DOMAIN tasks'
    BY <1>2 DEF Leaders
  <2>2. CASE p = group
    <3>1. ~Ended(tasks, p)
      BY <1>1, <2>2 DEF Ended, group
    <3>2. ~Ended(tasks', p)
      BY <1>1, <2>2 DEF Ended
    <3> QED BY <1>1, <2>1, <3>1, <3>2
  <2>3. CASE p # group
    <3>1. \A t \in DOMAIN tasks : tasks[t].group = p =>
             t \in DOMAIN tasks' /\ tasks'[t].group = p /\ tasks'[t].status = tasks[t].status
      BY <1>1, <1>2, <2>3
    <3>2. \A t \in DOMAIN tasks' : tasks'[t].group = p => t \in DOMAIN tasks /\ tasks[t].group = p
      BY <1>1
    <3> QED BY <1>1, <2>1, <3>1, <3>2 DEF Ended
  <2> QED BY <2>2, <2>3
<1> QED BY <1>3, <1>4, ProcsStay

\* What is gone are leaders of nothing and the process p.
LEMMA ProcsLess ==
    ASSUME GroupPlain, NEW p, TableLess(p)
    PROVE  /\ Leaders' = Leaders \ {p}
           /\ \A q \in Leaders \ {p} : Procs'[q] = Procs[q]
<1>1. /\ DOMAIN tasks' \subseteq DOMAIN tasks
      /\ \A t \in DOMAIN tasks' : tasks'[t] = tasks[t] /\ tasks[t].group # p
      /\ \A t \in DOMAIN tasks : tasks[t].status = NoStatus => t \in DOMAIN tasks'
      /\ \A t \in DOMAIN tasks : tasks[t].group = t /\ t # p => t \in DOMAIN tasks'
  BY DEF TableLess
<1>2. Leaders' = Leaders \ {p}
  BY <1>1 DEF Leaders
<1>3. ASSUME NEW q \in Leaders \ {p} PROVE Procs'[q] = Procs[q]
  <2>1. q \in DOMAIN tasks' /\ tasks'[q] = tasks[q]
    BY <1>1 DEF Leaders
  <2>2. Ended(tasks', q) <=> Ended(tasks, q)
    BY <1>1 DEF Ended
  <2>3. q \in Leaders' /\ Over(tasks', q) = Over(tasks, q)
    BY <1>2, <2>2, LeadersOver DEF Over, alone
  <2> QED BY <2>1, <2>3 DEF Procs
<1> QED BY <1>2, <1>3

\* An end of a process, seen as Processes does.
LEMMA ProcsEnd ==
    ASSUME NEW g \in Leaders, ~Ended(tasks, g), Leaders' = Leaders, nextTid' = nextTid, nextTid \in Nat,
           g \in 1 .. MaxTid,
           \A q \in Leaders :
              /\ tasks'[q].parent = IF tasks[q].parent = g THEN First ELSE tasks[q].parent
              /\ Ended(tasks', q) <=> (Ended(tasks, q) \/ q = g)
    PROVE  Table!Next
<1>1. \A q \in Leaders : Over(tasks', q) <=> (Over(tasks, q) \/ q = g)
  BY LeadersOver
<1>2. \A q \in Leaders : Over(tasks', q) = (Procs[q].over \/ q = g)
  <2>1. \A q \in Leaders : Procs[q].over = Over(tasks, q)
    BY DEF Procs
  <2>2. \A q \in Leaders : Over(tasks', q) \in BOOLEAN /\ Over(tasks, q) \in BOOLEAN
    BY DEF Over, alone
  <2> QED BY <1>1, <2>1, <2>2
<1>3. \A q \in Leaders : tasks'[q].parent = IF Procs[q].parent = g THEN First ELSE Procs[q].parent
  BY DEF Procs
<1>4. Procs' = [q \in DOMAIN Procs |->
                  [parent |-> IF Procs[q].parent = g THEN First ELSE Procs[q].parent,
                   over   |-> Procs[q].over \/ q = g]]
  <2>1. DOMAIN Procs = Leaders
    BY DEF Procs
  <2>2. Procs' = [q \in Leaders |-> [parent |-> tasks'[q].parent, over |-> Over(tasks', q)]]
    BY DEF Procs
  <2> HIDE DEF Procs
  <2> QED BY <1>2, <1>3, <2>1, <2>2
<1>5. g \in DOMAIN Procs /\ ~Procs[g].over
  BY LeadersOver DEF Procs
<1>6. Table!End(g)
  BY <1>4, <1>5 DEF Table!End, Table!Running, Table!First, First, Procs
<1> QED BY <1>6 DEF Table!Next

LEMMA ProcsOut ==
    ASSUME TypeOK, KinPlain, NEW tid \in DOMAIN tasks, TableOut(tid)
    PROVE  Table!Next \/ Procs' = Procs
<1> DEFINE group == tasks[tid].group
<1>1. /\ DOMAIN tasks' = DOMAIN tasks
      /\ \A t \in DOMAIN tasks :
            /\ tasks'[t].group = tasks[t].group
            /\ t # tid => tasks'[t].status = tasks[t].status
            /\ tasks'[t].parent = IF Last(tid) /\ tasks[t].parent = group THEN First ELSE tasks[t].parent
      /\ tasks'[tid].status # NoStatus
      /\ tasks[tid].status = NoStatus
      /\ nextTid' = nextTid
  BY InitIsFirst DEF TableOut, Live, KinPlain
<1>2. group \in Leaders /\ group \in 1 .. MaxTid /\ nextTid \in Nat
  BY IdsFact, TasksAssumption DEF KinPlain, GroupPlain, Leaders, TypeOK, Tids
<1>3. Leaders' = Leaders /\ ~Ended(tasks, group)
  BY <1>1 DEF Leaders, Ended
<1>4. \A q \in Leaders : Ended(tasks', q) <=> (Ended(tasks, q) \/ (q = group /\ Last(tid)))
  <2> SUFFICES ASSUME NEW q \in Leaders PROVE Ended(tasks', q) <=> (Ended(tasks, q) \/ (q = group /\ Last(tid)))
    OBVIOUS
  <2>1. CASE q = group
    BY <1>1, <1>3, <2>1 DEF Ended, Last
  <2>2. CASE q # group
    BY <1>1, <2>2 DEF Ended
  <2> QED BY <2>1, <2>2
<1>5. Leaders \subseteq DOMAIN tasks
  BY DEF Leaders
<1> HIDE DEF group
<1>6. CASE Last(tid)
  BY <1>1, <1>2, <1>3, <1>4, <1>5, <1>6, ProcsEnd
<1>7. CASE ~Last(tid)
  BY <1>1, <1>3, <1>4, <1>5, <1>7, ProcsStay
<1> QED BY <1>6, <1>7

LEMMA ProcsEndGroup ==
    ASSUME TypeOK, KinPlain, NEW group \in Tids, TableEnd(group)
    PROVE  Table!Next
<1>1. /\ DOMAIN tasks' = DOMAIN tasks
      /\ \A t \in DOMAIN tasks :
            /\ tasks'[t].group = tasks[t].group
            /\ tasks[t].group = group => tasks'[t].status # NoStatus
            /\ tasks[t].group # group => tasks'[t].status = tasks[t].status
            /\ tasks'[t].parent = IF tasks[t].group # group /\ tasks[t].parent = group
                                  THEN First ELSE tasks[t].parent
      /\ nextTid' = nextTid
  BY InitIsFirst DEF TableEnd, KinPlain
<1>2. group \in Leaders /\ ~Ended(tasks, group)
  BY DEF TableEnd, KinPlain, GroupPlain, Leaders, Ended
<1>3. group \in 1 .. MaxTid /\ nextTid \in Nat
  BY TasksAssumption DEF TypeOK, Tids
<1>4. Leaders' = Leaders /\ Leaders \subseteq DOMAIN tasks
  BY <1>1 DEF Leaders
<1>5. \A q \in Leaders : tasks'[q].parent = IF tasks[q].parent = group THEN First ELSE tasks[q].parent
  BY <1>1, <1>4 DEF KinPlain, NotOwnParent
<1>6. \A q \in Leaders : Ended(tasks', q) <=> (Ended(tasks, q) \/ q = group)
  BY <1>1 DEF Ended
<1> QED BY <1>1, <1>2, <1>3, <1>4, <1>5, <1>6, ProcsEnd

LEMMA ProcsCloned ==
    ASSUME TypeOK, KinPlain, TableCloned
    PROVE  Table!Next
<1>1. /\ current \in DOMAIN tasks /\ tasks[current].status = NoStatus
      /\ nextTid \in Tids /\ nextTid \notin DOMAIN tasks
      /\ DOMAIN tasks' = DOMAIN tasks \cup {nextTid}
      /\ \A t \in DOMAIN tasks : tasks'[t] = tasks[t]
      /\ tasks'[nextTid].status = NoStatus
      /\ nextTid' = nextTid + 1
  BY DEF TableCloned, Live
<1>0. PICK group \in 1 .. MaxTid : group = tasks[current].group
  BY <1>1, IdsFact DEF KinPlain, GroupPlain, Tids
<1>2. group \in Leaders /\ ~Ended(tasks, group)
  BY <1>0, <1>1 DEF KinPlain, GroupPlain, Leaders, Ended
<1>3. /\ nextTid \in Int /\ (nextTid - 1) + 1 = nextTid /\ nextTid' - 1 = nextTid
      /\ nextTid - 1 < MaxTid
  BY <1>1, TasksAssumption DEF Tids
<1>4. Leaders \subseteq DOMAIN tasks
  BY DEF Leaders
<1>5. CASE /\ tasks'[nextTid].group = group
           /\ tasks'[nextTid].parent = tasks[current].parent
  <2>1. Leaders' = Leaders
    BY <1>1, <1>2, <1>4, <1>5 DEF Leaders
  <2>2. \A p \in Leaders : tasks'[p].parent = tasks[p].parent /\ (Ended(tasks', p) <=> Ended(tasks, p))
    BY <1>1, <1>2, <1>4, <1>5 DEF Ended
  <2>3. Procs' = Procs
    BY <2>1, <2>2, ProcsStay
  <2>4. Table!Thread
    BY <1>3, <2>3 DEF Table!Thread, Procs
  <2> QED BY <2>4 DEF Table!Next
<1>6. CASE /\ tasks'[nextTid].group = nextTid
           /\ tasks'[nextTid].parent = group
  <2>1. Leaders' = Leaders \cup {nextTid} /\ nextTid \notin Leaders
    BY <1>1, <1>6 DEF Leaders
  <2>2. \A p \in Leaders : Ended(tasks', p) <=> Ended(tasks, p)
    BY <1>1, <1>4, <1>6 DEF Ended
  <2>3. ~Ended(tasks', nextTid)
    BY <1>1, <1>6 DEF Ended
  <2>4. /\ \A p \in Leaders : Over(tasks', p) = Over(tasks, p)
        /\ Over(tasks', nextTid) = FALSE
    BY <2>1, <2>2, <2>3, LeadersOver DEF Over, alone
  <2>5. DOMAIN Procs = Leaders /\ \A p \in Leaders : Procs[p] = [parent |-> tasks[p].parent, over |-> Over(tasks, p)]
    BY DEF Procs
  <2>6. Procs' = [q \in Leaders \cup {nextTid} |-> [parent |-> tasks'[q].parent, over |-> Over(tasks', q)]]
    BY <2>1 DEF Procs
  <2>7. Procs' = [q \in DOMAIN Procs \cup {nextTid} |->
                    IF q = nextTid THEN [parent |-> group, over |-> FALSE] ELSE Procs[q]]
    <3> HIDE DEF Procs
    <3> QED BY <1>1, <1>4, <1>6, <2>1, <2>4, <2>5, <2>6
  <2>8. group \in DOMAIN Procs /\ ~Procs[group].over
    BY <1>2, <2>5, LeadersOver
  <2>9. Table!Fork(group)
    <3>1. nextTid' - 1 = (nextTid - 1) + 1
      BY <1>3
    <3>2. Procs' = [q \in DOMAIN Procs \cup {(nextTid - 1) + 1} |->
                    IF q = (nextTid - 1) + 1 THEN [parent |-> group, over |-> FALSE] ELSE Procs[q]]
      <4> HIDE DEF Procs
      <4> QED BY <1>3, <2>7
    <3> QED BY <1>3, <2>8, <3>1, <3>2 DEF Table!Fork, Table!Running, Procs
  <2> QED BY <1>2, <2>9 DEF Table!Next
<1> QED BY <1>0, <1>5, <1>6 DEF TableCloned

LEMMA ProcsReap ==
    ASSUME TypeOK, KinPlain, NEW p \in DOMAIN tasks, NEW w \in DOMAIN tasks, TableLess(p), Told(p, w)
    PROVE  Table!Next
<1>1. p \in Leaders /\ Ended(tasks, p) /\ tasks[p].parent = tasks[w].group /\ tasks[w].status = NoStatus
  BY DEF Told, Leaders, Live
<1>2. tasks[w].group \in Leaders /\ ~Ended(tasks, tasks[w].group)
  BY <1>1 DEF KinPlain, GroupPlain, Leaders, Ended
<1>3. Leaders' = Leaders \ {p} /\ \A q \in Leaders \ {p} : Procs'[q] = Procs[q]
  BY ProcsLess DEF KinPlain
<1>4. DOMAIN Procs = Leaders /\ DOMAIN Procs' = Leaders'
  BY DEF Procs
<1>5. Procs' = [q \in DOMAIN Procs \ {p} |-> Procs[q]]
  <2>1. Procs' = [q \in Leaders' |-> Procs'[q]]
    BY DEF Procs
  <2> HIDE DEF Procs
  <2> QED BY <1>3, <1>4, <2>1
<1>6. Procs[p].over /\ Procs[p].parent = tasks[w].group /\ ~Procs[tasks[w].group].over
  BY <1>1, <1>2, LeadersOver DEF Procs
<1>7. nextTid' = nextTid /\ p \in 1 .. MaxTid
  BY IdsFact DEF TableLess, Tids
<1>8. Table!Reap(p)
  BY <1>1, <1>2, <1>4, <1>5, <1>6, <1>7 DEF Table!Reap, Table!Running, Procs
<1> QED BY <1>7, <1>8 DEF Table!Next

LEMMA ProcsNext ==
    ASSUME TypeOK, Kin, TableStep
    PROVE  Table!Next \/ (Procs' = Procs /\ nextTid' - 1 = nextTid - 1)
<1>1. KinPlain /\ GroupPlain
  BY KinPlainly DEF KinPlain
<1>2. TableCloned \/ nextTid' = nextTid
  BY DEF TableStep, TableSame, TableLess, TableOut, TableEnd, TableExec
<1>3. CASE TableLess(None)
  <2>1. None \notin Leaders
    BY IdsFact DEF Leaders
  <2>2. Leaders' = Leaders /\ \A q \in Leaders : Procs'[q] = Procs[q]
    BY <1>1, <1>3, <2>1, ProcsLess
  <2>3. Procs' = [q \in Leaders' |-> Procs'[q]] /\ Procs = [q \in Leaders |-> Procs[q]]
    BY DEF Procs
  <2>4. Procs' = Procs
    <3> HIDE DEF Procs
    <3> QED BY <2>2, <2>3
  <2> QED BY <1>3, <2>4 DEF TableLess
<1> QED
  BY <1>1, <1>2, <1>3, ProcsSame, ProcsCloned, ProcsReap, ProcsOut, ProcsEndGroup, ProcsExec DEF TableStep

\* What programs see of processes is what Processes promises: a process has one parent, ends once
\* and is gone only once its parent was told, whatever threads, queues and the scheduler do.
THEOREM TasksImplementProcesses == Spec => ImplementsProcesses
<1>1. Init => Table!Init
  <2> SUFFICES ASSUME Init PROVE Table!Init
    OBVIOUS
  <2>1. Leaders = {First} /\ First = 1
    BY DEF Init, Leaders, First
  <2>2. Over(tasks, First) = FALSE /\ tasks[First].parent = 0
    BY DEF Init, Over, None
  <2>3. Procs = [p \in {1} |-> [parent |-> 0, over |-> FALSE]]
    BY <2>1, <2>2 DEF Procs
  <2>4. nextTid - 1 = 1
    BY DEF Init, First
  <2> QED BY <2>3, <2>4 DEF Table!Init, Table!First, Table!Orphan, Procs
<1>2. Core /\ Kin /\ [Next]_vars => Table!Next \/ (Procs' = Procs /\ nextTid' - 1 = nextTid - 1)
  BY TableNext, ProcsNext, GroupPlainly DEF Core, Kin
<1>3. Core /\ Kin /\ [Next]_vars =>
        [Table!Next]_<<[p \in Leaders |-> [parent |-> tasks[p].parent, over |-> Over(tasks, p)]], nextTid - 1>>
  BY <1>2 DEF Procs
<1> QED BY <1>1, <1>3, CoreAlways, KinAlways, PTL DEF Spec, ImplementsProcesses, Table!Spec

-----------------------------------------------------------------------------
(* Settling, and how a run ends. *)

\* Who asks for these children goes on waiting: there is one, and none to be told of.
KeepsWaiting(T, group, target) ==
    asked(T, group, target) # {} /\ report(T, asked(T, group, target)) = {}

\* Of the waiters that settling has looked at, those that are left wait with reason.
SettleSeen ==
    phase \in {"settle", "pick"} =>
        \A w \in DOMAIN waiters \ todo : KeepsWaiting(tasks, tasks[w].group, waiters[w].target)

\* Nothing happens once the run has an outcome.
EndsOnce == outcome # "none" => phase = "done"

Settling == SettleSeen /\ EndsOnce /\ OutcomeHonest

LEMMA SettlingInit == Init => Settling
BY DEF Init, Settling, SettleSeen, EndsOnce, OutcomeHonest

\* A call leaves nothing for the scheduler to have seen.
LEMMA SettlingCall ==
    ASSUME phase' \notin {"settle", "pick"}, outcome' \in {"none", "thrown"},
           outcome' = "thrown" => phase' = "done"
    PROVE  Settling'
BY DEF Settling, SettleSeen, EndsOnce, OutcomeHonest

\* The scheduler starts to look.
LEMMA SettlingStarts ==
    ASSUME Core, Settling, phase \in {"turn", "pick"}, phase' = "settle",
           todo' = DOMAIN waiters, DOMAIN waiters' = DOMAIN waiters, outcome' = outcome
    PROVE  Settling'
BY DEF Settling, SettleSeen, EndsOnce, OutcomeHonest

\* What p, which was not for this one, takes with it is nothing that it asked for.
LEMMA KeepsWaitingLess ==
    ASSUME NEW p, TableLess(p), NEW group, NEW target,
           KeepsWaiting(tasks, group, target),
           p \in DOMAIN tasks => tasks[p].group = p /\ Ended(tasks, p)
    PROVE  KeepsWaiting(tasks', group, target) /\ p \notin asked(tasks, group, target)
<1>1. /\ DOMAIN tasks' \subseteq DOMAIN tasks
      /\ \A t \in DOMAIN tasks' : tasks'[t] = tasks[t] /\ tasks[t].group # p
      /\ \A t \in DOMAIN tasks : tasks[t].status = NoStatus => t \in DOMAIN tasks'
      /\ \A t \in DOMAIN tasks : tasks[t].group = t /\ t # p => t \in DOMAIN tasks'
  BY DEF TableLess
<1>2. \A q \in asked(tasks, group, target) : ~Ended(tasks, q)
  <2>1. \A q \in asked(tasks, group, target) : ~Over(tasks, q)
    BY DEF KeepsWaiting, report, Over
  <2>2. \A q \in asked(tasks, group, target) : q \in DOMAIN tasks /\ tasks[q].group = q
    BY DEF asked
  <2> QED BY <2>1, <2>2, OverEnded
<1>3. p \notin asked(tasks, group, target)
  BY <1>2 DEF asked
<1>4. asked(tasks', group, target) = asked(tasks, group, target)
  BY <1>1, <1>3 DEF asked
<1>5. \A q \in asked(tasks', group, target) : ~Over(tasks', q)
  <2> SUFFICES ASSUME NEW q \in asked(tasks', group, target) PROVE ~Over(tasks', q)
    OBVIOUS
  <2>1. q \in DOMAIN tasks' /\ tasks'[q].group = q
    BY DEF asked
  <2>2. ~Ended(tasks', q)
    BY <1>1, <1>2, <1>4 DEF Ended
  <2> QED BY <2>1, <2>2, OverEnded
<1>6. report(tasks', asked(tasks', group, target)) = {}
  BY <1>5 DEF report, Over
<1> QED
  BY <1>3, <1>4, <1>6 DEF KeepsWaiting

\* What those that are left ask for, when one of them goes on.
LEMMA LeaveTarget ==
    ASSUME Core, NEW w, waiters' = Leave(waiters, {w})
    PROVE  /\ DOMAIN waiters' = DOMAIN waiters \ {w}
           /\ \A v \in DOMAIN waiters' : waiters'[v].target = waiters[v].target
<1>1. waiters \in [DOMAIN waiters -> Waiter]
  BY DEF Core, TypeOK
<1>2. DOMAIN Leave(waiters, {w}) = DOMAIN waiters \ {w}
  BY DEF Leave
<1>3. \A v \in DOMAIN waiters \ {w} : Leave(waiters, {w})[v].target = waiters[v].target
  BY <1>1, LeaveWaiters
<1> QED BY <1>2, <1>3

LEMMA WaiterLive ==
    ASSUME Core, NEW w \in DOMAIN waiters
    PROVE  w \in DOMAIN tasks /\ tasks[w].status = NoStatus
BY DEF Core, TypeOK, StoppedIffWaiting, blocked

LEMMA SettlingSettleOne ==
    ASSUME Core, Settling, NEW w \in Tids, settleOne(w)
    PROVE  Settling'
<1>1. /\ phase = "settle" /\ phase' = "settle" /\ outcome' = outcome /\ outcome = "none"
      /\ todo' = todo \ {w} /\ w \in DOMAIN waiters /\ w \in todo
  BY DEF settleOne, Settling, EndsOnce, Foremost, Core, TypeOK
<1>2. \A v \in DOMAIN waiters \ todo : KeepsWaiting(tasks, tasks[v].group, waiters[v].target)
  BY <1>1 DEF Settling, SettleSeen
<1>3. ASSUME NEW p, TableLess(p), waiters' = Leave(waiters, {w}),
             p \in DOMAIN tasks => tasks[p].group = p /\ Ended(tasks, p)
      PROVE  SettleSeen'
  <2> SUFFICES ASSUME NEW v \in DOMAIN waiters' \ todo'
               PROVE  KeepsWaiting(tasks', tasks'[v].group, waiters'[v].target)
    BY DEF SettleSeen
  <2>1. v \in DOMAIN waiters \ todo /\ waiters'[v].target = waiters[v].target
    BY <1>1, <1>3, LeaveTarget
  <2>2. tasks'[v] = tasks[v]
    BY <1>3, <2>1, WaiterLive DEF TableLess
  <2>3. KeepsWaiting(tasks, tasks[v].group, waiters[v].target)
    BY <1>2, <2>1
  <2> QED BY <1>3, <2>1, <2>2, <2>3, KeepsWaitingLess
<1>4. SettleSeen'
  <2>1. CASE UNCHANGED <<tasks, waiters>>
    <3>1. CASE KeepsWaiting(tasks, tasks[w].group, waiters[w].target)
      BY <1>1, <1>2, <2>1, <3>1 DEF SettleSeen
    <3>2. CASE ~KeepsWaiting(tasks, tasks[w].group, waiters[w].target)
      <4>1. waiters' = Leave(waiters, {w})
        BY <3>2 DEF settleOne, KeepsWaiting
      <4>2. FALSE
        BY <1>1, <2>1, <4>1, LeaveTarget
      <4> QED BY <4>2
    <3> QED BY <3>1, <3>2
  <2>2. CASE TableLess(None) /\ waiters' = Leave(waiters, {w})
    <3>1. None \notin DOMAIN tasks
      BY IdsFact DEF Core
    <3> QED BY <1>3, <2>2, <3>1
  <2>3. ASSUME NEW p \in DOMAIN tasks, TableLess(p), Told(p, w), waiters' = Leave(waiters, {w})
        PROVE  SettleSeen'
    BY <1>3, <2>3 DEF Told
  <2> QED BY <2>1, <2>2, <2>3, TableSettleOne
<1> QED
  BY <1>1, <1>4 DEF Settling, EndsOnce, OutcomeHonest

\* If the scheduler has nothing to switch to, all that has not exited is blocked.
LEMMA SettlingScheduleDone ==
    ASSUME Core, Settling, scheduleDone
    PROVE  Settling'
<1>1. /\ phase = "pick" /\ phase' = "done" /\ UNCHANGED <<tasks, waiters, futexes, todo>>
      /\ current \in DOMAIN tasks /\ stopped[current] /\ todo = {}
  BY DEF scheduleDone, table, Core, TypeOK, Idle
<1>2. blockedOrOver
  BY <1>1 DEF Core, StoppedIffWaiting, blockedOrOver, Live
<1>3. pickNext = {} /\ Timed = {}
  BY <1>2 DEF scheduleDone
<1>4. \A t \in DOMAIN tasks : stopped[t]
  <2>1. Runnable \ {current} = {}
    BY <1>3 DEF pickNext
  <2> QED BY <1>1, <2>1 DEF Runnable, Core, TypeOK
<1>5. \A t \in DOMAIN tasks : blocked(t) \/ tasks[t].status # NoStatus
  BY <1>4 DEF Core, StoppedIffWaiting
<1>6. CASE DOMAIN waiters \cup DOMAIN futexes # {}
  <2>1. outcome' = "deadlock"
    BY <1>2, <1>6 DEF scheduleDone
  <2>2. \A t \in DOMAIN tasks : Live(tasks, t) => blocked(t)
    BY <1>5 DEF Live
  <2>3. \A w \in DOMAIN waiters : report(tasks, asked(tasks, tasks[w].group, waiters[w].target)) = {}
    BY <1>1 DEF Settling, SettleSeen, KeepsWaiting
  <2>4. \A t \in DOMAIN futexes : ~futexes[t].timed
    BY <1>3 DEF Timed
  <2> QED
    BY <1>1, <2>1, <2>2, <2>3, <2>4 DEF Settling, SettleSeen, EndsOnce, OutcomeHonest, blocked
<1>7. CASE DOMAIN waiters \cup DOMAIN futexes = {}
  <2>1. \A t \in DOMAIN tasks : tasks[t].status # NoStatus
    BY <1>5, <1>7 DEF blocked
  <2>2. initTask(tasks) \in DOMAIN tasks
    BY InitTaskFact DEF Core
  <2>3. outcome' = "finished"
    BY <1>2, <1>7, <2>1, <2>2 DEF scheduleDone
  <2> QED BY <1>1, <2>1, <2>3 DEF Settling, SettleSeen, EndsOnce, OutcomeHonest
<1> QED BY <1>6, <1>7

LEMMA SettlingNext == Core /\ Settling /\ [Next]_vars => Settling'
<1> SUFFICES ASSUME Core, Settling, [Next]_vars PROVE Settling'
  OBVIOUS
<1>1. phase # "done" => outcome = "none"
  BY DEF Settling, EndsOnce
<1>2. CASE Call
  <2>1. phase = "turn"
    BY <1>2 DEF Call, clone, serveWait, exitThread, exitProcess, tgkill, fault, futexWait, serveWake,
                futexRequeue, setClearTid, execute, Runs
  <2>2. \/ phase' = phase /\ outcome' = outcome
        \/ phase' = "done" /\ outcome' = "thrown"
    BY <1>2 DEF Call, clone, serveWait, exitThread, exitProcess, tgkill, fault, futexWait, serveWake,
                futexRequeue, setClearTid, execute, markExited, sched
  <2> QED BY <1>1, <2>1, <2>2, SettlingCall
<1>3. CASE switchNextThread \/ scheduleRun
  BY <1>1, <1>3, SettlingCall DEF switchNextThread, scheduleRun, sched, Runs
<1>4. CASE TurnEnds \/ timedOut \/ scheduleSwitch
  BY <1>4, SettlingStarts DEF TurnEnds, timedOut, scheduleSwitch, table
<1>5. CASE \E w \in Tids : settleOne(w)
  BY <1>5, SettlingSettleOne
<1>6. CASE Settled
  BY <1>1, <1>6 DEF Settled, AllSeen, table, Settling, SettleSeen, EndsOnce, OutcomeHonest
<1>7. CASE scheduleDone
  BY <1>7, SettlingScheduleDone
<1>8. CASE UNCHANGED vars
  BY <1>8 DEF vars, Settling, SettleSeen, EndsOnce, OutcomeHonest, blocked
<1> QED
  BY <1>2, <1>3, <1>4, <1>5, <1>6, <1>7, <1>8 DEF Next, Scheduler

LEMMA SettlingAlways == Spec => []Settling
BY SettlingInit, SettlingNext, CoreAlways, PTL DEF Spec

\* Once the scheduler has settled, whoever waits in waitpid has a child and none to be told of,
\* in whatever order exits, reaping and the look at waiters came.
THEOREM AlwaysSettledRight == Spec => []SettledRight
<1>1. Core /\ Settling => SettledRight
  BY DEF Core, Idle, Settling, SettleSeen, SettledRight, KeepsWaiting
<1> QED BY <1>1, CoreAlways, SettlingAlways, PTL

\* The run ends for the reason it gives, and never as if a guest had stopped.
THEOREM OutcomeAlwaysHonest == Spec => []OutcomeHonest
<1>1. Settling => OutcomeHonest
  BY DEF Settling
<1> QED BY <1>1, SettlingAlways, PTL

\* A child that is gone was not asked for by one that waited before who was told of it.
LEMMA FirstToAskStep ==
    ASSUME Core, Kin, Settling, [Next]_vars,
           NEW w \in DOMAIN waiters, NEW c \in DOMAIN tasks \ DOMAIN tasks',
           c = tasks[c].group, w \notin DOMAIN waiters',
           NEW v \in waiters[w].ahead \cap DOMAIN waiters'
    PROVE  c \notin asked(tasks, tasks[v].group, waiters[v].target)
<1>1. ASSUME NEW x \in Tids, settleOne(x) PROVE c \notin asked(tasks, tasks[v].group, waiters[v].target)
  <2>1. waiters' = Leave(waiters, {x}) \/ UNCHANGED waiters
    BY <1>1, TableSettleOne
  <2>2. waiters' = Leave(waiters, {x}) /\ x = w
    BY <2>1, LeaveTarget
  <2>3. PICK p : TableLess(p) /\ (p \in DOMAIN tasks => tasks[p].group = p /\ Ended(tasks, p))
    <3>1. UNCHANGED <<tasks, waiters>> \/ TableLess(None) \/ \E p \in DOMAIN tasks : TableLess(p) /\ Told(p, x)
      BY <1>1, TableSettleOne
    <3>2. None \notin DOMAIN tasks
      BY IdsFact DEF Core
    <3> QED BY <3>1, <3>2 DEF Told
  <2>4. c = p
    BY <2>3 DEF TableLess
  <2>5. v \in DOMAIN waiters \ todo /\ phase = "settle"
    BY <1>1, <2>2, LeaveTarget DEF settleOne, Foremost
  <2>6. KeepsWaiting(tasks, tasks[v].group, waiters[v].target)
    BY <2>5 DEF Settling, SettleSeen
  <2> QED BY <2>3, <2>4, <2>6, KeepsWaitingLess
<1>2. CASE \E target \in Tids \cup {None} : serveWait(target)
  <2>1. DOMAIN waiters \subseteq DOMAIN waiters'
    BY <1>2 DEF serveWait, Join
  <2> QED BY <2>1
<1>3. CASE scheduleSwitch
  BY <1>3 DEF scheduleSwitch
<1>4. CASE execute
  <2>1. TableExec(current)
    BY <1>4, TableExecute, GroupPlainly DEF Kin
  <2> QED BY <2>1 DEF TableExec
<1>5. CASE \/ \E vm, thread, vfork \in BOOLEAN, word \in Words \cup {NoWord} : clone(vm, thread, vfork, word)
           \/ \E word \in Words, bitset \in Mask, timed \in BOOLEAN : futexWait(word, bitset, timed)
           \/ \E word \in Words, bitset \in Mask, count \in Counts : serveWake(word, bitset, count)
           \/ \E source, target \in Words, wake, move \in Counts : futexRequeue(source, target, wake, move)
           \/ \E word \in Words : setClearTid(word)
           \/ switchNextThread \/ TurnEnds \/ Settled \/ timedOut \/ scheduleRun \/ scheduleDone
           \/ UNCHANGED vars
  BY <1>5 DEF clone, futexWait, serveWake, futexRequeue, setClearTid, switchNextThread, TurnEnds, Settled,
              timedOut, scheduleRun, scheduleDone, table, vars
<1>6. CASE \E code \in Codes : exitThread(code)
  BY <1>6, TableExitThread DEF TableOut
<1>7. CASE \/ \E code \in Codes : exitProcess(code)
           \/ \E target \in Tids, signal \in Signals : tgkill(target, signal)
           \/ fault
  BY <1>7, TableEnds DEF TableEnd, table
<1> QED
  BY <1>1, <1>2, <1>3, <1>4, <1>5, <1>6, <1>7 DEF Next, Call, Scheduler

\* Each exit is for the first to ask.
THEOREM FirstToAskAlways == Spec => FirstToAsk
<1>1. Core /\ Kin /\ Settling /\ [Next]_vars =>
        \A w \in DOMAIN waiters, c \in DOMAIN tasks \ DOMAIN tasks' :
          \/ c # tasks[c].group
          \/ w \in DOMAIN waiters'
          \/ c \notin asked(tasks, tasks[w].group, waiters[w].target)
          \/ \A v \in waiters[w].ahead \cap DOMAIN waiters' :
                c \notin asked(tasks, tasks[v].group, waiters[v].target)
  BY FirstToAskStep
<1> QED BY <1>1, CoreAlways, KinAlways, SettlingAlways, PTL DEF Spec, FirstToAsk

-----------------------------------------------------------------------------
(* The queue of futexes: vfork, and the order of those that wait. *)

\* A parent that waits for a vfork waits for a task that has not ended nor run a program since,
\* which leads its own process or is a thread of the parent's, and has no timeout.
VforkRight ==
    \A t \in DOMAIN futexes :
        futexes[t].space = VforkSpace =>
            /\ futexes[t].address \in DOMAIN tasks
            /\ tasks[futexes[t].address].status = NoStatus
            /\ tasks[futexes[t].address].selfExecId = tasks[t].selfExecId
            /\ tasks[futexes[t].address].group \in {futexes[t].address, tasks[t].group}
            /\ ~futexes[t].timed

\* Who is ahead waits too, and those ahead of it are ahead.
InOrder ==
    \A t \in DOMAIN futexes :
        /\ futexes[t].ahead \subseteq DOMAIN futexes
        /\ \A u \in futexes[t].ahead : futexes[u].ahead \subseteq futexes[t].ahead

Queued == VforkRight /\ InOrder

\* Some leave the queue, and the others keep their places in it.
FutexLess(gone) ==
    /\ DOMAIN futexes' = DOMAIN futexes \ gone
    /\ \A t \in DOMAIN futexes' :
          /\ futexes'[t].space = futexes[t].space
          /\ futexes[t].space = VforkSpace => futexes'[t].address = futexes[t].address
          /\ futexes'[t].timed = futexes[t].timed
          /\ futexes'[t].ahead = futexes[t].ahead \ gone

\* R is the queue Q without some.
IsLess(R, Q, gone) ==
    /\ R \in [DOMAIN R -> FutexWaiter]
    /\ DOMAIN R = DOMAIN Q \ gone
    /\ \A t \in DOMAIN R :
          /\ R[t].space = Q[t].space
          /\ R[t].address = Q[t].address
          /\ R[t].bitset = Q[t].bitset
          /\ R[t].timed = Q[t].timed
          /\ R[t].ahead = Q[t].ahead \ gone

LEMMA LeaveIsLess ==
    ASSUME NEW Q, Q \in [DOMAIN Q -> FutexWaiter], NEW gone
    PROVE  IsLess(Leave(Q, gone), Q, gone)
BY DEF IsLess, Leave, FutexWaiter

LEMMA FutexesTyped ==
    ASSUME Core
    PROVE  futexes \in [DOMAIN futexes -> FutexWaiter]
BY DEF Core, TypeOK

LEMMA LessOnce ==
    ASSUME Core, NEW gone, futexes' = Leave(futexes, gone)
    PROVE  FutexLess(gone)
<1>1. IsLess(futexes', futexes, gone)
  BY FutexesTyped, LeaveIsLess
<1> QED BY <1>1 DEF FutexLess, IsLess

\* Those in `gone' leave, and those whose vfork the end of `children' is.
FutexFreed(gone, children) ==
    /\ \E freed : FutexLess(gone \cup freed)
    /\ \A t \in DOMAIN futexes' : futexes[t].space = VforkSpace => futexes[t].address \notin children
    /\ \A t \in DOMAIN futexes \ DOMAIN futexes' :
          t \in gone \/ (futexes[t].space = VforkSpace /\ futexes[t].address \in children)

LEMMA LessTwice ==
    ASSUME Core, NEW gone, NEW children,
           futexes' = Leave(Leave(futexes, gone), releaseVfork(Leave(futexes, gone), children))
    PROVE  FutexFreed(gone, children)
<1> DEFINE left == Leave(futexes, gone)
           freed == releaseVfork(left, children)
<1>1. IsLess(left, futexes, gone)
  BY FutexesTyped, LeaveIsLess
<1> HIDE DEF left
<1>2. freed = {t \in DOMAIN left : left[t].space = VforkSpace /\ left[t].address \in children}
  BY DEF releaseVfork
<1>3. futexes' = Leave(left, freed)
  BY DEF left
<1> HIDE DEF freed
<1>4. IsLess(futexes', left, freed)
  <2>1. left \in [DOMAIN left -> FutexWaiter]
    BY <1>1 DEF IsLess
  <2> QED BY <1>3, <2>1, LeaveIsLess
<1>5. FutexLess(gone \cup freed)
  BY <1>1, <1>4 DEF FutexLess, IsLess
<1>6. \A t \in DOMAIN futexes' : futexes[t].space = VforkSpace => futexes[t].address \notin children
  BY <1>1, <1>2, <1>4 DEF IsLess
<1>7. \A t \in DOMAIN futexes \ DOMAIN futexes' :
                 t \in gone \/ (futexes[t].space = VforkSpace /\ futexes[t].address \in children)
  BY <1>1, <1>2, <1>4 DEF IsLess
<1> QED BY <1>5, <1>6, <1>7 DEF FutexFreed

LEMMA InOrderLess ==
    ASSUME InOrder, NEW gone, FutexLess(gone)
    PROVE  InOrder'
<1> SUFFICES ASSUME NEW t \in DOMAIN futexes'
             PROVE  /\ futexes'[t].ahead \subseteq DOMAIN futexes'
                    /\ \A u \in futexes'[t].ahead : futexes'[u].ahead \subseteq futexes'[t].ahead
  BY DEF InOrder
<1>1. t \in DOMAIN futexes /\ futexes'[t].ahead = futexes[t].ahead \ gone
  BY DEF FutexLess
<1>2. futexes'[t].ahead \subseteq DOMAIN futexes'
  BY <1>1 DEF FutexLess, InOrder
<1>3. ASSUME NEW u \in futexes'[t].ahead PROVE futexes'[u].ahead \subseteq futexes'[t].ahead
  <2>1. u \in futexes[t].ahead /\ futexes'[u].ahead = futexes[u].ahead \ gone
    BY <1>1, <1>2 DEF FutexLess
  <2> QED BY <1>1, <2>1 DEF InOrder
<1> QED BY <1>2, <1>3

LEMMA InOrderJoin ==
    ASSUME Core, InOrder, current \notin DOMAIN futexes, NEW V, V.ahead = DOMAIN futexes,
           futexes' = Join(futexes, current, V)
    PROVE  InOrder'
<1>1. /\ DOMAIN futexes' = DOMAIN futexes \cup {current}
      /\ futexes'[current] = V
      /\ \A t \in DOMAIN futexes : futexes'[t] = futexes[t]
  BY DEF Join
<1>2. \A u \in DOMAIN futexes : futexes[u].ahead \subseteq DOMAIN futexes
  BY DEF InOrder
<1> SUFFICES ASSUME NEW t \in DOMAIN futexes'
             PROVE  /\ futexes'[t].ahead \subseteq DOMAIN futexes'
                    /\ \A u \in futexes'[t].ahead : futexes'[u].ahead \subseteq futexes'[t].ahead
  BY DEF InOrder
<1>3. CASE t = current
  BY <1>1, <1>2, <1>3
<1>4. CASE t # current
  BY <1>1, <1>4 DEF InOrder
<1> QED BY <1>3, <1>4

\* The table keeps what those that still wait for a vfork wait for.
LEMMA VforkLess ==
    ASSUME VforkRight, NEW gone, FutexLess(gone),
           \A t \in DOMAIN futexes' : futexes[t].space = VforkSpace =>
              /\ futexes[t].address \in DOMAIN tasks'
              /\ tasks'[futexes[t].address].status = NoStatus
              /\ tasks'[futexes[t].address].selfExecId = tasks[futexes[t].address].selfExecId
              /\ tasks'[futexes[t].address].group = tasks[futexes[t].address].group
              /\ tasks'[t].selfExecId = tasks[t].selfExecId
              /\ tasks'[t].group = tasks[t].group
    PROVE  VforkRight'
BY DEF VforkRight, FutexLess

\* Who waits on a futex has not exited.
LEMMA FutexLive ==
    ASSUME Core, NEW t \in DOMAIN futexes
    PROVE  t \in DOMAIN tasks /\ tasks[t].status = NoStatus
BY DEF Core, TypeOK, StoppedIffWaiting, blocked

\* A step that takes nothing that runs from the table leaves the queue right.
LEMMA QueuedKept ==
    ASSUME Core, Queued, UNCHANGED futexes,
           \A t \in DOMAIN tasks : tasks[t].status = NoStatus =>
              /\ t \in DOMAIN tasks'
              /\ tasks'[t].status = tasks[t].status
              /\ tasks'[t].selfExecId = tasks[t].selfExecId
              /\ tasks'[t].group = tasks[t].group
    PROVE  Queued'
<1>1. FutexLess({})
  BY DEF FutexLess
<1>2. InOrder'
  BY <1>1, InOrderLess DEF Queued
<1>3. \A t \in DOMAIN futexes' : futexes[t].space = VforkSpace =>
              /\ futexes[t].address \in DOMAIN tasks'
              /\ tasks'[futexes[t].address].status = NoStatus
              /\ tasks'[futexes[t].address].selfExecId = tasks[futexes[t].address].selfExecId
              /\ tasks'[futexes[t].address].group = tasks[futexes[t].address].group
              /\ tasks'[t].selfExecId = tasks[t].selfExecId
              /\ tasks'[t].group = tasks[t].group
  BY FutexLive DEF Queued, VforkRight
<1>4. VforkRight'
  BY <1>1, <1>3, VforkLess DEF Queued
<1> QED BY <1>2, <1>4 DEF Queued

\* A step that only takes some from the queue leaves it right.
LEMMA QueuedWoken ==
    ASSUME Queued, NEW gone, FutexLess(gone), UNCHANGED tasks, Core
    PROVE  Queued'
<1>1. InOrder'
  BY InOrderLess DEF Queued
<1>2. \A t \in DOMAIN futexes' : t \in DOMAIN futexes
  BY DEF FutexLess
<1>3. VforkRight'
  BY <1>2, VforkLess DEF Queued, VforkRight
<1> QED BY <1>1, <1>3 DEF Queued

LEMMA QueuedClone ==
    ASSUME Core, Queued, NEW vm \in BOOLEAN, NEW thread \in BOOLEAN, NEW vfork \in BOOLEAN,
           NEW word \in Words \cup {NoWord}, clone(vm, thread, vfork, word)
    PROVE  Queued'
<1>1. TableCloned
  BY TableClone
<1>2. /\ DOMAIN tasks' = DOMAIN tasks \cup {nextTid}
      /\ \A t \in DOMAIN tasks : tasks'[t] = tasks[t]
      /\ tasks'[nextTid].status = NoStatus
      /\ tasks'[nextTid].selfExecId = tasks[current].selfExecId
      /\ tasks'[nextTid].group \in {nextTid, tasks[current].group}
      /\ current \in DOMAIN tasks
  BY <1>1 DEF TableCloned, Live
<1>3. CASE ~vfork
  <2>1. UNCHANGED futexes
    BY <1>3 DEF clone
  <2> QED BY <1>2, <2>1, QueuedKept
<1>4. CASE vfork
  <2> DEFINE V == [space |-> VforkSpace, address |-> nextTid, bitset |-> Bits,
                   timed |-> FALSE, ahead |-> DOMAIN futexes]
  <2>1. futexes' = Join(futexes, current, V) /\ current \notin DOMAIN futexes
    BY <1>4, RunsFact DEF clone
  <2>2. V.ahead = DOMAIN futexes /\ V.address = nextTid /\ ~V.timed
    OBVIOUS
  <2> HIDE DEF V
  <2>3. InOrder'
    BY <2>1, <2>2, InOrderJoin DEF Queued
  <2>4. /\ DOMAIN futexes' = DOMAIN futexes \cup {current}
        /\ futexes'[current] = V
        /\ \A t \in DOMAIN futexes : futexes'[t] = futexes[t]
    BY <2>1 DEF Join
  <2>5. VforkRight'
    <3> SUFFICES ASSUME NEW t \in DOMAIN futexes', futexes'[t].space = VforkSpace
                 PROVE  /\ futexes'[t].address \in DOMAIN tasks'
                        /\ tasks'[futexes'[t].address].status = NoStatus
                        /\ tasks'[futexes'[t].address].selfExecId = tasks'[t].selfExecId
                        /\ tasks'[futexes'[t].address].group \in {futexes'[t].address, tasks'[t].group}
                        /\ ~futexes'[t].timed
      BY DEF VforkRight
    <3>1. CASE t = current
      BY <1>2, <2>2, <2>4, <3>1
    <3>2. CASE t # current
      BY <1>2, <2>4, <3>2, FutexLive DEF Queued, VforkRight
    <3> QED BY <3>1, <3>2
  <2> QED BY <2>3, <2>5 DEF Queued
<1> QED BY <1>3, <1>4

LEMMA QueuedFutexWait ==
    ASSUME Core, Queued, NEW word \in Words, NEW bitset \in Mask, NEW timed \in BOOLEAN,
           futexWait(word, bitset, timed)
    PROVE  Queued'
<1> DEFINE V == [space |-> Me.space, address |-> word, bitset |-> bitset, timed |-> timed,
                 ahead |-> DOMAIN futexes]
<1>1. Runs /\ UNCHANGED tasks /\ futexes' = Join(futexes, current, V) /\ current \notin DOMAIN futexes
  BY RunsFact DEF futexWait
<1>2. V.ahead = DOMAIN futexes /\ V.space # VforkSpace
  BY <1>1, RunsFact, IdsFact DEF Entry, VforkSpace, Core, Tids
<1> HIDE DEF V
<1>3. InOrder'
  BY <1>1, <1>2, InOrderJoin DEF Queued
<1>4. VforkRight'
  BY <1>1, <1>2 DEF VforkRight, Queued, Join
<1> QED BY <1>3, <1>4 DEF Queued

LEMMA QueuedFutexRequeue ==
    ASSUME Core, Queued, NEW source, NEW target \in Words, NEW wake, NEW move,
           futexRequeue(source, target, wake, move)
    PROVE  Queued'
<1> DEFINE woken == futexWake(futexes, Me.space, source, Bits, wake)
           left == Leave(futexes, woken)
           moved == futexWake(left, Me.space, source, Bits, move)
<1>1. futexes' = [t \in DOMAIN left |->
                        IF t \in moved THEN [left[t] EXCEPT !.address = target] ELSE left[t]]
  BY DEF futexRequeue
<1>2. Me.space # VforkSpace /\ UNCHANGED tasks
  BY RunsFact, IdsFact DEF futexRequeue, Entry, VforkSpace, Core, Tids
<1>3. \A t \in moved : left[t].space # VforkSpace
  BY <1>2 DEF futexWake, futexAsked
<1>4. IsLess(left, futexes, woken)
  <2> HIDE DEF woken
  <2> QED BY FutexesTyped, LeaveIsLess
<1> HIDE DEF left, moved, woken
<1>5. \A t \in DOMAIN left :
          /\ futexes'[t].space = left[t].space
          /\ futexes'[t].ahead = left[t].ahead
          /\ futexes'[t].timed = left[t].timed
          /\ t \notin moved => futexes'[t].address = left[t].address
  BY <1>1, <1>4 DEF FutexWaiter, IsLess
<1>6. FutexLess(woken)
  BY <1>1, <1>3, <1>4, <1>5 DEF FutexLess, IsLess
<1> QED BY <1>2, <1>6, QueuedWoken

LEMMA QueuedExitThread ==
    ASSUME Core, Queued, NEW code \in Codes, exitThread(code)
    PROVE  Queued'
<1> DEFINE joined == IF Me.clearTid = NoWord THEN {}
                     ELSE futexWake(futexes, Me.space, Me.clearTid, Bits, 1)
           gone == joined \cup {current}
<1>1. futexes' = Leave(Leave(futexes, gone), releaseVfork(Leave(futexes, gone), {current}))
  BY DEF exitThread
<1> HIDE DEF joined, gone
<1>0. FutexFreed(gone, {current})
  BY <1>1, LessTwice
<1>2. PICK all : FutexLess(all)
  BY <1>0 DEF FutexFreed
<1>3. \A t \in DOMAIN futexes' : futexes[t].space = VforkSpace => futexes[t].address # current
  BY <1>0 DEF FutexFreed
<1>4. TableOut(current)
  BY TableExitThread
<1>5. InOrder'
  BY <1>2, InOrderLess DEF Queued
<1>6. \A t \in DOMAIN futexes' : t \in DOMAIN futexes /\ t \in DOMAIN tasks
  BY <1>2, FutexLive DEF FutexLess
<1>7. VforkRight'
  BY <1>2, <1>3, <1>4, <1>6, VforkLess DEF Queued, VforkRight, TableOut
<1> QED BY <1>5, <1>7 DEF Queued

LEMMA QueuedMarkExited ==
    ASSUME Core, Queued, NEW t \in DOMAIN tasks, tasks[t].status = NoStatus, NEW status \in Nat,
           markExited(tasks[t].group, status)
    PROVE  Queued'
<1> DEFINE over == Members(tasks, tasks[t].group)
<1>1. futexes' = Leave(Leave(futexes, over), releaseVfork(Leave(futexes, over), over))
  BY DEF markExited
<1>2. \A u \in DOMAIN tasks : u \in over <=> tasks[u].group = tasks[t].group
  BY DEF Members
<1> HIDE DEF over
<1>0. FutexFreed(over, over)
  BY <1>1, LessTwice
<1>3. PICK all : FutexLess(all)
  BY <1>0 DEF FutexFreed
<1>4. \A u \in DOMAIN futexes' : futexes[u].space = VforkSpace => futexes[u].address \notin over
  BY <1>0 DEF FutexFreed
<1>5. TableEnd(tasks[t].group)
  BY TableMarkExited
<1>6. InOrder'
  BY <1>3, InOrderLess DEF Queued
<1>7. \A u \in DOMAIN futexes' : u \in DOMAIN futexes /\ u \in DOMAIN tasks
  BY <1>3, FutexLive DEF FutexLess
<1>8. VforkRight'
  BY <1>2, <1>3, <1>4, <1>5, <1>7, VforkLess DEF Queued, VforkRight, TableEnd
<1> QED BY <1>6, <1>8 DEF Queued

LEMMA QueuedEnds ==
    ASSUME Core, Queued,
           \/ \E code \in Codes : exitProcess(code)
           \/ \E target \in Tids, signal \in Signals : tgkill(target, signal)
           \/ fault
    PROVE  Queued'
<1>1. Runs /\ current \in DOMAIN tasks /\ tasks[current].status = NoStatus
  BY RunsFact DEF exitProcess, tgkill, fault, Me
<1>2. ASSUME NEW code \in Codes, exitProcess(code) PROVE Queued'
  BY <1>1, <1>2, Statuses, QueuedMarkExited DEF exitProcess, Me
<1>3. ASSUME NEW target \in Tids, NEW signal \in Signals, tgkill(target, signal) PROVE Queued'
  <2>1. target \in DOMAIN tasks /\ tasks[target].status = NoStatus
    BY <1>3 DEF tgkill, Live
  <2>2. CASE markExited(tasks[target].group, signaledStatus(signal))
    BY <2>1, <2>2, Statuses, QueuedMarkExited
  <2>3. CASE UNCHANGED table
    BY <2>3, QueuedKept DEF table
  <2> QED BY <1>3, <2>2, <2>3 DEF tgkill
<1>4. CASE fault
  BY <1>1, <1>4, Statuses, QueuedMarkExited DEF fault, Me
<1> QED BY <1>2, <1>3, <1>4

LEMMA QueuedExecute ==
    ASSUME Core, Kin, Queued, execute
    PROVE  Queued'
<1> DEFINE group == tasks[current].group
           others == {t \in Members(tasks, group) : t # current /\ tasks[t].status = NoStatus}
<1>1. futexes' = Leave(Leave(futexes, others), releaseVfork(Leave(futexes, others), {group}))
  BY DEF execute, Me
<1>2. \A u \in DOMAIN tasks : u \in others <=> tasks[u].group = group /\ u # current /\ tasks[u].status = NoStatus
  BY DEF Members
<1>3. current \notin DOMAIN futexes
  BY RunsFact DEF execute
<1>4. TableExec(current)
  BY TableExecute, GroupPlainly DEF Kin
<1> HIDE DEF others
<1>0. FutexFreed(others, {group})
  <2> HIDE DEF group
  <2> QED BY <1>1, LessTwice
<1>5. PICK all : FutexLess(all) /\ others \subseteq all
  BY <1>0 DEF FutexFreed
<1>6. \A u \in DOMAIN futexes' : futexes[u].space = VforkSpace => futexes[u].address # group
  BY <1>0 DEF FutexFreed
<1>7. InOrder'
  BY <1>5, InOrderLess DEF Queued
<1>8. \A u \in DOMAIN futexes' : /\ u \in DOMAIN futexes /\ u \in DOMAIN tasks
                                /\ tasks[u].group # group
  BY <1>2, <1>3, <1>5, FutexLive DEF FutexLess
<1>9. \A u \in DOMAIN futexes' : futexes[u].space = VforkSpace =>
              /\ futexes[u].address \in DOMAIN tasks
              /\ tasks[futexes[u].address].group # group
              /\ tasks[futexes[u].address].status = NoStatus
  BY <1>6, <1>8 DEF Queued, VforkRight
<1>10. \A u \in DOMAIN tasks : tasks[u].group # group =>
          /\ u \in DOMAIN tasks'
          /\ tasks'[u].status = tasks[u].status
          /\ tasks'[u].selfExecId = tasks[u].selfExecId
          /\ tasks'[u].group = tasks[u].group
  BY <1>4 DEF TableExec
<1> HIDE DEF group
<1>11. VforkRight'
  BY <1>5, <1>8, <1>9, <1>10, VforkLess DEF Queued
<1> QED BY <1>7, <1>11 DEF Queued

LEMMA QueuedNext == Core /\ Kin /\ Queued /\ [Next]_vars => Queued'
<1> SUFFICES ASSUME Core, Kin, Queued, [Next]_vars PROVE Queued'
  OBVIOUS
<1>1. CASE \E vm, thread, vfork \in BOOLEAN, word \in Words \cup {NoWord} : clone(vm, thread, vfork, word)
  BY <1>1, QueuedClone
<1>2. ASSUME NEW target \in Tids \cup {None}, serveWait(target) PROVE Queued'
  <2>1. UNCHANGED futexes
    BY <1>2 DEF serveWait
  <2>2. UNCHANGED tasks \/ \E p \in DOMAIN tasks : TableLess(p)
    BY <1>2, TableServeWait
  <2> QED BY <2>1, <2>2, QueuedKept DEF TableLess
<1>3. CASE \E code \in Codes : exitThread(code)
  BY <1>3, QueuedExitThread
<1>4. CASE \/ \E code \in Codes : exitProcess(code)
           \/ \E target \in Tids, signal \in Signals : tgkill(target, signal)
           \/ fault
  BY <1>4, QueuedEnds
<1>5. CASE \E word \in Words, bitset \in Mask, timed \in BOOLEAN : futexWait(word, bitset, timed)
  BY <1>5, QueuedFutexWait
<1>6. ASSUME NEW word, NEW bitset, NEW count, serveWake(word, bitset, count) PROVE Queued'
  BY <1>6, LessOnce, QueuedWoken DEF serveWake
<1>7. CASE \E source, target \in Words, wake, move \in Counts : futexRequeue(source, target, wake, move)
  BY <1>7, QueuedFutexRequeue
<1>8. ASSUME NEW word \in Words, setClearTid(word) PROVE Queued'
  <2>1. UNCHANGED futexes
    BY <1>8 DEF setClearTid
  <2>2. TableSame
    BY <1>8 DEF setClearTid, TableSame, Core, TypeOK, Entry
  <2> QED BY <2>1, <2>2, QueuedKept DEF TableSame
<1>9. CASE execute
  BY <1>9, QueuedExecute
<1>10. ASSUME NEW w \in Tids, settleOne(w) PROVE Queued'
  <2>1. UNCHANGED futexes
    BY <1>10 DEF settleOne
  <2>2. UNCHANGED tasks \/ \E p : TableLess(p)
    BY <1>10, TableSettleOne
  <2> QED BY <2>1, <2>2, QueuedKept DEF TableLess
<1>11. CASE timedOut
  BY <1>11, LessOnce, QueuedWoken DEF timedOut
<1>12. CASE scheduleSwitch
  <2>1. UNCHANGED futexes /\ TableLess(None)
    BY <1>12, TableScheduleSwitch DEF scheduleSwitch
  <2> QED BY <2>1, QueuedKept DEF TableLess
<1>13. CASE switchNextThread \/ TurnEnds \/ Settled \/ scheduleRun \/ scheduleDone \/ UNCHANGED vars
  BY <1>13, QueuedKept DEF switchNextThread, TurnEnds, Settled, scheduleRun, scheduleDone, table, vars
<1> QED
  BY <1>1, <1>2, <1>3, <1>4, <1>5, <1>6, <1>7, <1>8, <1>9, <1>10, <1>11, <1>12, <1>13
     DEF Next, Call, Scheduler

LEMMA QueuedAlways == Spec => []Queued
<1>1. Init => Queued
  BY DEF Init, Queued, VforkRight, InOrder
<1> QED BY <1>1, QueuedNext, CoreAlways, KinAlways, PTL DEF Spec

\* Who waits for a child of vfork waits for one that has neither ended nor run a program: no parent
\* is left behind.
THEOREM VforkAlwaysHolds == Spec => []VforkHolds
<1>1. Queued => VforkHolds
  BY DEF Queued, VforkRight, VforkHolds, Live
<1> QED BY <1>1, QueuedAlways, PTL

\* A step that takes the parent of a vfork from the queue.
LEMMA VforkKeptStep ==
    ASSUME Core, Kin, Queued, [Next]_vars,
           NEW t \in DOMAIN futexes, futexes[t].space = VforkSpace, t \notin DOMAIN futexes'
    PROVE  \E u \in {t, futexes[t].address} :
                ~Live(tasks', u) \/ tasks'[u].selfExecId # tasks[u].selfExecId
<1> DEFINE child == futexes[t].address
           IsOver == \E u \in {t, child} : ~Live(tasks', u) \/ tasks'[u].selfExecId # tasks[u].selfExecId
<1>1. /\ t \in DOMAIN tasks /\ tasks[t].status = NoStatus
      /\ child \in DOMAIN tasks /\ tasks[child].status = NoStatus
      /\ ~futexes[t].timed
  BY FutexLive DEF Queued, VforkRight
<1>2. ASSUME NEW space, NEW word, NEW bitset, NEW count, space # VforkSpace
      PROVE  t \notin futexWake(futexes, space, word, bitset, count)
  BY <1>2 DEF futexWake, futexAsked
<1>3. Runs => Me.space # VforkSpace
  BY RunsFact, IdsFact DEF Entry, VforkSpace, Core, Tids
<1>4. CASE \/ \E vm, thread, vfork \in BOOLEAN, word \in Words \cup {NoWord} : clone(vm, thread, vfork, word)
           \/ \E word \in Words, bitset \in Mask, timed \in BOOLEAN : futexWait(word, bitset, timed)
  <2>1. DOMAIN futexes \subseteq DOMAIN futexes'
    BY <1>4 DEF clone, futexWait, Join
  <2> QED BY <2>1
<1>5. ASSUME NEW word, NEW bitset, NEW count, serveWake(word, bitset, count) PROVE FALSE
  <2>1. t \in futexWake(futexes, Me.space, word, bitset, count)
    BY <1>5 DEF serveWake, Leave
  <2> QED BY <1>2, <1>3, <1>5, <2>1 DEF serveWake
<1>6. ASSUME NEW source, NEW target, NEW wake, NEW move, futexRequeue(source, target, wake, move)
      PROVE  FALSE
  <2>1. t \in futexWake(futexes, Me.space, source, Bits, wake)
    BY <1>6 DEF futexRequeue, Leave
  <2> QED BY <1>2, <1>3, <1>6, <2>1 DEF futexRequeue
<1>7. ASSUME NEW code \in Codes, exitThread(code) PROVE IsOver
  <2> DEFINE joined == IF Me.clearTid = NoWord THEN {} ELSE futexWake(futexes, Me.space, Me.clearTid, Bits, 1)
             gone == joined \cup {current}
  <2>1. futexes' = Leave(Leave(futexes, gone), releaseVfork(Leave(futexes, gone), {current}))
    BY <1>7 DEF exitThread
  <2>2. t \notin gone
    <3>1. Runs /\ current \notin DOMAIN futexes
      BY <1>7, RunsFact DEF exitThread
    <3>2. t \notin futexWake(futexes, Me.space, Me.clearTid, Bits, 1)
      BY <1>2, <1>3, <3>1
    <3> QED BY <3>1, <3>2
  <2> HIDE DEF gone
  <2>3. FutexFreed(gone, {current})
    BY <2>1, LessTwice
  <2>4. child = current
    BY <2>2, <2>3 DEF FutexFreed
  <2> QED BY <1>7, <2>4, TableExitThread DEF TableOut, Live
<1>8. ASSUME NEW v \in DOMAIN tasks, tasks[v].status = NoStatus, NEW status \in Nat,
             markExited(tasks[v].group, status)
      PROVE  IsOver
  <2> DEFINE over == Members(tasks, tasks[v].group)
  <2>1. futexes' = Leave(Leave(futexes, over), releaseVfork(Leave(futexes, over), over))
    BY <1>8 DEF markExited
  <2>2. \A u \in over : u \in DOMAIN tasks /\ tasks[u].group = tasks[v].group
    BY DEF Members
  <2> HIDE DEF over
  <2>3. t \in over \/ child \in over
    BY <2>1, LessTwice DEF FutexFreed
  <2> QED BY <1>8, <2>2, <2>3, TableMarkExited DEF TableEnd, Live
<1>9. CASE \/ \E code \in Codes : exitProcess(code)
           \/ \E target \in Tids, signal \in Signals : tgkill(target, signal)
           \/ fault
  <2>1. Runs /\ current \in DOMAIN tasks /\ tasks[current].status = NoStatus
    BY <1>9, RunsFact DEF exitProcess, tgkill, fault, Me
  <2>2. \/ \E v \in DOMAIN tasks, status \in Nat : tasks[v].status = NoStatus /\ markExited(tasks[v].group, status)
        \/ UNCHANGED futexes
    BY <1>9, <2>1, Statuses DEF exitProcess, tgkill, fault, Me, Live, table
  <2> QED BY <1>8, <2>2
<1>10. CASE execute
  <2> DEFINE group == tasks[current].group
             others == {v \in Members(tasks, group) : v # current /\ tasks[v].status = NoStatus}
  <2>1. futexes' = Leave(Leave(futexes, others), releaseVfork(Leave(futexes, others), {group}))
    BY <1>10 DEF execute, Me
  <2>2. TableExec(current) /\ current \in DOMAIN tasks
    BY <1>10, TableExecute, GroupPlainly DEF Kin
  <2>3. \A v \in others : v # current /\ tasks[v].group = group
    BY DEF Members
  <2> HIDE DEF others
  <2>4. t \in others \/ child = group
    <3> HIDE DEF group
    <3>1. FutexFreed(others, {group})
      BY <2>1, LessTwice
    <3> QED BY <3>1 DEF FutexFreed
  <2>5. CASE t \in others /\ t # group
    BY <1>1, <2>2, <2>3, <2>5 DEF TableExec, Live
  <2>6. ASSUME NEW u \in {t, child}, u = group PROVE IsOver
    <3>1. tasks'[u].selfExecId = tasks[current].selfExecId + 1 /\ tasks[current].status = NoStatus
      BY <1>1, <2>2, <2>6 DEF TableExec, Live
    <3>2. tasks[u].group = group
      BY <2>2, <2>6, GroupPlainly DEF Kin, GroupPlain
    <3>3. tasks[u].selfExecId = tasks[current].selfExecId
      BY <1>1, <2>2, <2>6, <3>1, <3>2 DEF Kin, ExecCoherent, Live
    <3>4. tasks[current].selfExecId \in Nat
      BY <2>2 DEF Core, TypeOK, Entry
    <3>5. tasks'[u].selfExecId # tasks[u].selfExecId
      BY <3>1, <3>3, <3>4
    <3> QED BY <3>5
  <2> QED BY <2>4, <2>5, <2>6
<1>11. CASE timedOut
  BY <1>1, <1>11 DEF timedOut, Timed, Leave
<1>12. CASE \/ \E target \in Tids \cup {None} : serveWait(target)
            \/ \E word \in Words : setClearTid(word)
            \/ switchNextThread \/ TurnEnds \/ (\E w \in Tids : settleOne(w)) \/ Settled
            \/ scheduleRun \/ scheduleSwitch \/ scheduleDone \/ UNCHANGED vars
  BY <1>12 DEF serveWait, setClearTid, switchNextThread, TurnEnds, settleOne, Settled, scheduleRun,
               scheduleSwitch, scheduleDone, table, vars
<1> QED
  BY <1>4, <1>5, <1>6, <1>7, <1>9, <1>10, <1>11, <1>12 DEF Next, Call, Scheduler

\* The parent of a vfork is let go only by a step in which its child ends or runs a program, or it
\* does itself: no wake, requeue, timeout or other child's end lets it run in the child's memory.
THEOREM VforkAlwaysKept == Spec => VforkKept
<1>1. Core /\ Kin /\ Queued /\ [Next]_vars =>
        \A t \in DOMAIN futexes :
          \/ futexes[t].space # VforkSpace
          \/ t \in DOMAIN futexes'
          \/ \E u \in {t, futexes[t].address} :
                ~Live(tasks', u) \/ tasks'[u].selfExecId # tasks[u].selfExecId
  BY VforkKeptStep
<1> QED BY <1>1, CoreAlways, KinAlways, QueuedAlways, PTL DEF Spec, VforkKept

\* They wait for the same.
SameWord(t, u) ==
    /\ futexes[u].space = futexes[t].space
    /\ futexes[u].address = futexes[t].address
    /\ futexes[u].bitset = futexes[t].bitset

\* If one is woken by a wake of some, so is who waits for the same ahead of it.
LEMMA WakeInOrder ==
    ASSUME Core, InOrder, NEW space, NEW address, NEW bitset, NEW count \in Nat,
           NEW t \in futexWake(futexes, space, address, bitset, count),
           NEW u \in futexes[t].ahead, SameWord(t, u)
    PROVE  u \in futexWake(futexes, space, address, bitset, count)
<1> DEFINE those == futexAsked(futexes, space, address, bitset)
<1>1. t \in those /\ Cardinality(futexes[t].ahead \cap those) < count
  BY DEF futexWake
<1>2. t \in DOMAIN futexes /\ u \in DOMAIN futexes /\ futexes[u].ahead \subseteq futexes[t].ahead
  BY <1>1 DEF futexAsked, InOrder
<1>3. u \in those
  BY <1>1, <1>2 DEF futexAsked, SameWord
<1>4. those \subseteq 1 .. MaxTid
  BY IdsFact DEF futexAsked, Core, Tids
<1> HIDE DEF those
<1>5. IsFiniteSet(1 .. MaxTid)
  BY FS_Interval, TasksAssumption
<1>6. IsFiniteSet(futexes[t].ahead \cap those)
  BY <1>4, <1>5, FS_Subset
<1>7. /\ Cardinality(futexes[u].ahead \cap those) \in Nat
      /\ Cardinality(futexes[t].ahead \cap those) \in Nat
      /\ Cardinality(futexes[u].ahead \cap those) <= Cardinality(futexes[t].ahead \cap those)
  <2>1. futexes[u].ahead \cap those \subseteq futexes[t].ahead \cap those
    BY <1>2
  <2> QED BY <1>6, <2>1, FS_Subset, FS_CardinalityType
<1>8. Cardinality(futexes[u].ahead \cap those) < count
  BY <1>1, <1>7
<1> QED BY <1>3, <1>8 DEF futexWake, those

\* A thread that goes on while one that waits for the same, ahead of it, does not.
LEMMA FirstToWaitStep ==
    ASSUME Core, Kin, Queued, [Next]_vars, phase = "turn",
           NEW t \in DOMAIN futexes, NEW u \in futexes[t].ahead, t \notin DOMAIN futexes',
           t \in DOMAIN tasks', ~stopped'[t], tasks'[t].selfExecId = tasks[t].selfExecId,
           u \in DOMAIN futexes'
    PROVE  ~SameWord(t, u)
<1> SUFFICES ASSUME SameWord(t, u) PROVE FALSE
  OBVIOUS
<1>1. u \in DOMAIN futexes /\ t \in DOMAIN tasks /\ tasks[t].status = NoStatus
  BY FutexLive DEF Queued, InOrder
<1>2. ASSUME NEW gone, NEW children, FutexFreed(gone, children), t \notin gone PROVE FALSE
  BY <1>1, <1>2 DEF FutexFreed, SameWord
<1>3. CASE \/ \E vm, thread, vfork \in BOOLEAN, word \in Words \cup {NoWord} : clone(vm, thread, vfork, word)
           \/ \E word \in Words, bitset \in Mask, timed \in BOOLEAN : futexWait(word, bitset, timed)
  <2>1. DOMAIN futexes \subseteq DOMAIN futexes'
    BY <1>3 DEF clone, futexWait, Join
  <2> QED BY <2>1
<1>4. ASSUME NEW word, NEW bitset, NEW count \in Counts, serveWake(word, bitset, count) PROVE FALSE
  <2> DEFINE woken == futexWake(futexes, Me.space, word, bitset, count)
  <2>1. futexes' = Leave(futexes, woken)
    BY <1>4 DEF serveWake
  <2>2. t \in woken /\ u \notin woken
    BY <1>1, <2>1 DEF Leave
  <2> QED BY <2>2, WakeInOrder, TasksAssumption DEF Queued
<1>5. ASSUME NEW source, NEW target, NEW wake \in Counts, NEW move, futexRequeue(source, target, wake, move)
      PROVE FALSE
  <2> DEFINE woken == futexWake(futexes, Me.space, source, Bits, wake)
  <2>1. DOMAIN futexes' = DOMAIN Leave(futexes, woken)
    BY <1>5 DEF futexRequeue
  <2>2. t \in woken /\ u \notin woken
    BY <1>1, <2>1 DEF Leave
  <2> QED BY <2>2, WakeInOrder, TasksAssumption DEF Queued
<1>6. ASSUME NEW code \in Codes, exitThread(code) PROVE FALSE
  <2> DEFINE woken == futexWake(futexes, Me.space, Me.clearTid, Bits, 1)
             joined == IF Me.clearTid = NoWord THEN {} ELSE woken
             gone == joined \cup {current}
  <2>1. futexes' = Leave(Leave(futexes, gone), releaseVfork(Leave(futexes, gone), {current}))
    BY <1>6 DEF exitThread
  <2>2. current \notin DOMAIN futexes
    BY <1>6, RunsFact DEF exitThread
  <2>3. CASE t \in joined
    <3>1. t \in woken /\ joined = woken
      BY <2>3
    <3>2. u \in woken
      BY <3>1, WakeInOrder DEF Queued
    <3>3. u \in gone
      BY <3>1, <3>2
    <3> HIDE DEF gone
    <3>4. u \notin DOMAIN futexes'
      BY <2>1, <3>3 DEF Leave
    <3> QED BY <3>4
  <2>4. CASE t \notin joined
    <3>1. t \notin gone
      BY <2>2, <2>4
    <3> HIDE DEF gone
    <3>2. FutexFreed(gone, {current})
      BY <2>1, LessTwice
    <3> QED BY <1>2, <3>1, <3>2
  <2> QED BY <2>3, <2>4
<1>7. ASSUME NEW group, NEW status, markExited(group, status) PROVE FALSE
  <2> DEFINE over == Members(tasks, group)
  <2>1. futexes' = Leave(Leave(futexes, over), releaseVfork(Leave(futexes, over), over))
    BY <1>7 DEF markExited
  <2> HIDE DEF over
  <2>2. FutexFreed(over, over)
    BY <2>1, LessTwice
  <2>3. t \in over
    BY <1>2, <2>2
  <2>4. stopped'[t]
    BY <1>1, <1>7, <2>3 DEF markExited, Halt, Resume, over, Core, TypeOK
  <2> QED BY <2>4
<1>8. CASE execute
  <2> DEFINE group == tasks[current].group
             others == {v \in Members(tasks, group) : v # current /\ tasks[v].status = NoStatus}
             freed == releaseVfork(Leave(futexes, others), {group})
  <2>1. futexes' = Leave(Leave(futexes, others), releaseVfork(Leave(futexes, others), {group}))
    BY <1>8 DEF execute, Me
  <2>2. stopped' = Resume([v \in DOMAIN stopped \ ({current} \ {group}) |->
                                v # group /\ (stopped[v] \/ v \in others)], freed)
    BY <1>8 DEF execute, Me
  <2>3. TableExec(current) /\ current \in DOMAIN tasks
    BY <1>8, TableExecute, GroupPlainly DEF Kin
  <2>4. t \in others => tasks[t].group = group
    BY DEF Members
  <2>5. others \cap freed = {}
    BY DEF releaseVfork, Leave
  <2> HIDE DEF others, freed
  <2>6. FutexFreed(others, {group})
    <3> HIDE DEF group
    <3> QED BY <2>1, LessTwice
  <2>7. t \in others
    BY <1>2, <2>6
  <2>8. CASE t = group
    <3>1. /\ tasks'[t].selfExecId = tasks[current].selfExecId + 1
          /\ tasks[current].status = NoStatus
      BY <2>3, <2>8 DEF TableExec, Live
    <3>2. tasks[t].selfExecId = tasks[current].selfExecId
      BY <1>1, <2>3, <2>4, <2>7, <3>1 DEF Kin, ExecCoherent, Live
    <3>3. tasks[current].selfExecId \in Nat
      BY <2>3 DEF Core, TypeOK, Entry
    <3>4. PICK n \in Nat : n = tasks[current].selfExecId
      BY <3>3
    <3>5. n = n + 1
      BY <3>1, <3>2, <3>4
    <3> QED BY <3>4, <3>5
  <2>9. CASE t # group
    <3>1. t \in DOMAIN stopped \ ({current} \ {group})
      BY <1>1, <2>3 DEF TableExec, Core, TypeOK
    <3>2. stopped'[t]
      BY <2>2, <2>5, <2>7, <2>9, <3>1 DEF Resume
    <3> QED BY <3>2
  <2> QED BY <2>8, <2>9
<1>9. CASE \/ \E target \in Tids \cup {None} : serveWait(target)
           \/ \E word \in Words : setClearTid(word)
           \/ switchNextThread \/ TurnEnds \/ UNCHANGED vars
  BY <1>9 DEF serveWait, setClearTid, switchNextThread, TurnEnds, table, vars
<1>10. CASE \/ \E code \in Codes : exitProcess(code)
            \/ \E target \in Tids, signal \in Signals : tgkill(target, signal)
            \/ fault
  <2>1. (\E group, status : markExited(group, status)) \/ UNCHANGED futexes
    BY <1>10 DEF exitProcess, tgkill, fault, table
  <2> QED BY <1>7, <2>1
<1>11. CASE (\E w \in Tids : settleOne(w)) \/ Settled \/ timedOut \/ scheduleRun \/ scheduleSwitch \/ scheduleDone
  BY <1>11 DEF settleOne, Settled, timedOut, scheduleRun, scheduleSwitch, scheduleDone
<1> QED
  BY <1>3, <1>4, <1>5, <1>6, <1>8, <1>9, <1>10, <1>11 DEF Next, Call, Scheduler

\* The first to wait is the first to be woken: no call wakes a waiter of a word and leaves one
\* that waited there before it, with the same mask.
THEOREM FirstToWaitAlways == Spec => FirstToWait
<1>1. Core /\ Kin /\ Queued /\ [Next]_vars =>
        \A t \in DOMAIN futexes : \A u \in futexes[t].ahead :
          \/ phase # "turn"
          \/ t \in DOMAIN futexes'
          \/ t \notin DOMAIN tasks' \/ stopped'[t]
          \/ tasks'[t].selfExecId # tasks[t].selfExecId
          \/ u \notin DOMAIN futexes'
          \/ <<futexes[u].space, futexes[u].address, futexes[u].bitset>>
                # <<futexes[t].space, futexes[t].address, futexes[t].bitset>>
  BY FirstToWaitStep DEF SameWord
<1> QED BY <1>1, CoreAlways, KinAlways, QueuedAlways, PTL DEF Spec, FirstToWait
=============================================================================

------------------------------- MODULE Tasks -------------------------------
(***************************************************************************)
(* The tasks of the emulator: the table of Bap/Tasks.lean, the system      *)
(* calls and the scheduler of Bap/Emu/Tasks.lean, and what execve does to  *)
(* tasks (Bap/Linux/Machine.lean).  A task is a thread; the tasks of a     *)
(* group are a process, named by its leader; the tasks of a space share    *)
(* their memory.  One emulator runs one task at a time: a system call is   *)
(* atomic, and tasks interleave because a turn of the scheduler may end    *)
(* after any instruction.                                                  *)
(*                                                                         *)
(* The code keeps its tasks and its waiters in lists.  Ids only grow and   *)
(* execve leaves a task in its leader's place, so the list of tasks is in  *)
(* the order of ids and is a function of ids here.  The order of a list    *)
(* of waiters is kept in each waiter as the set of those `ahead' of it.    *)
(***************************************************************************)
EXTENDS Integers, FiniteSets, FiniteSetsExt

CONSTANTS
    MaxTid,     \* bound: ids are 1..MaxTid, and a clone past it is not taken
    MaxExecs,   \* bound on the programs that a task runs after its first
    Words,      \* the addresses of futex words and of set_tid_address
    NoWord,     \* no address
    Bits,       \* the bits of a futex mask
    Counts,     \* the counts that a wake or a requeue is given
    Codes,      \* the codes that exit and exit_group are given
    Signals     \* the signals that end a process

ASSUME TasksAssumption ==
    /\ MaxTid \in Nat \ {0}
    /\ MaxExecs \in Nat
    /\ Counts \subseteq Nat
    /\ Codes \subseteq Nat
    /\ Signals \subseteq Nat
    /\ NoWord \notin Words
    /\ Bits # {}

Tids     == 1 .. MaxTid
None     == 0               \* no task, no parent, "any child" of a wait
First    == 1               \* the id of the first task
NoStatus == -1              \* the status of a task that has not exited
VforkSpace == 0             \* where the parent of a vfork waits: the space of no task

VARIABLES
    tasks,      \* the table: id -> entry
    waiters,    \* those blocked in waitpid: id -> [target, ahead]
    futexes,    \* those blocked on a futex: id -> [space, address, bitset, timed, ahead]
    stopped,    \* the contexts of threads: id -> whether it is stopped
    current,    \* the thread that runs
    nextTid,    \* the id of the next task
    phase,      \* "turn": the current thread runs; "settle", "pick": the scheduler; "done"
    todo,       \* while settling, the waiters not yet looked at
    woke,       \* while settling, the first waiter that goes on, or None
    outcome     \* how the run ended

table == <<tasks, waiters, futexes>>
sched == <<phase, todo, woke, outcome>>
vars  == <<tasks, waiters, futexes, stopped, current, nextTid, phase, todo, woke, outcome>>

Entry == [group : Tids, parent : Tids \cup {None}, space : Tids,
          status : {NoStatus} \cup Nat, clearTid : {NoWord} \cup Words,
          selfExecId : Nat]

Waiter == [target : Tids \cup {None}, ahead : SUBSET Tids]

\* The word that a thread waits on: a word of a space, or for a vfork its child.
FutexWaiter == [space : Tids \cup {VforkSpace}, address : Words \cup Tids,
                bitset : SUBSET Bits, timed : BOOLEAN, ahead : SUBSET Tids]

-----------------------------------------------------------------------------
(* Reading the table. *)

\* The status that waitpid reports for a process that called exit.
exitedStatus(code) == (code % 256) * 256

\* The status that waitpid reports for a process that a signal killed.
signaledStatus(signal) == signal % 128

Live(T, t) == t \in DOMAIN T /\ T[t].status = NoStatus

\* No other task of its group may still be running.
alone(T, leader) ==
    \A t \in DOMAIN T : T[t].group # leader \/ t = leader \/ T[t].status # NoStatus

\* The leaders of the children of `parent' that `target' asks for.
asked(T, parent, target) ==
    {t \in DOMAIN T : t = T[t].group /\ T[t].parent = parent /\ target \in {None, t}}

\* Mutant: a leader that has exited is reported while its threads run.
report_Early(T, children) == {t \in children : T[t].status # NoStatus}

\* Those whose group is over, which waitpid can report.
report(T, children) == {t \in children : T[t].status # NoStatus /\ alone(T, t)}

blocked(t) == t \in DOMAIN waiters \/ t \in DOMAIN futexes

\* The first task, which takes in the children of a process that is over.
initTask(T) == Min(DOMAIN T)

-----------------------------------------------------------------------------
(* Queues of waiters. *)

\* A queue without those in `gone'.
Leave(queue, gone) ==
    [t \in DOMAIN queue \ gone |-> [queue[t] EXCEPT !.ahead = @ \ gone]]

\* A queue with the thread t at its end.
Join(queue, t, waiter) ==
    [u \in DOMAIN queue \cup {t} |-> IF u = t THEN waiter ELSE queue[u]]

\* Whether a wake of the word, with this mask, is for a waiter.
futexAsked(queue, space, address, bitset) ==
    {t \in DOMAIN queue : /\ queue[t].space = space
                          /\ queue[t].address = address
                          /\ queue[t].bitset \cap bitset # {}}

\* Mutant: the last to wait is woken first.
futexWake_Last(queue, space, address, bitset, count) ==
    LET those == futexAsked(queue, space, address, bitset)
    IN  {t \in those : Cardinality(those \ (queue[t].ahead \cup {t})) < count}

\* Up to `count' of those that wait on the word, the first to wait first.
futexWake(queue, space, address, bitset, count) ==
    LET those == futexAsked(queue, space, address, bitset)
    IN  {t \in those : Cardinality(queue[t].ahead \cap those) < count}

\* Mutant: whoever waits for a child of vfork goes on, whichever child it is.
releaseVfork_Any(queue, children) ==
    {t \in DOMAIN queue : queue[t].space = VforkSpace}

\* Mutant: it looks for the child among those that wait.
releaseVfork_Child(queue, children) ==
    {t \in DOMAIN queue : queue[t].space = VforkSpace /\ t \in children}

\* The parent that a child of vfork lets go on, if one waits for it.
releaseVfork(queue, children) ==
    {t \in DOMAIN queue : queue[t].space = VforkSpace /\ queue[t].address \in children}

\* Mutant: only the first of those that were woken goes on.
Resume_First(S, woken) == [t \in DOMAIN S |-> S[t] /\ ~(t \in woken /\ t = Min(woken))]

\* The contexts, with those in `woken' let go that are in no queue now.
Resume(S, woken) == [t \in DOMAIN S |-> S[t] /\ (t \notin woken \/ blocked(t)')]

\* The contexts, with those in `halted' stopped.
Halt(S, halted) == [t \in DOMAIN S |-> S[t] \/ t \in halted]

-----------------------------------------------------------------------------
(* Changing the table. *)

\* The children of a group that is over go to `init'.
reparent(T, group, init) ==
    [t \in DOMAIN T |-> IF T[t].parent = group THEN [T[t] EXCEPT !.parent = init] ELSE T[t]]

\* Mutant: the last thread of a process leaves its children.
exitTask_Orphans(T, tid, status, init) == [T EXCEPT ![tid].status = status]

\* The task has exited, and its group is over if it was the last.
exitTask(T, tid, status, init) ==
    LET left  == [T EXCEPT ![tid].status = status]
        group == T[tid].group
    IN  IF group \in DOMAIN left /\ left[group].status # NoStatus /\ alone(left, group)
        THEN reparent(left, group, init)
        ELSE left

\* All of a group has exited, its leader is a zombie and its children go to `init'.
exitGroup(T, group, status, init) ==
    [t \in DOMAIN T |->
        IF T[t].group = group THEN [T[t] EXCEPT !.status = status]
        ELSE IF T[t].parent = group THEN [T[t] EXCEPT !.parent = init]
        ELSE T[t]]

\* The task has run one more program, and has the id, the place and the parent of the
\* leader of its group, which is gone.
executed(T, tid) ==
    LET group == T[tid].group
    IN  [t \in DOMAIN T \ ({tid} \ {group}) |->
            IF t = group
            THEN [T[tid] EXCEPT !.parent = T[group].parent, !.clearTid = NoWord, !.selfExecId = @ + 1]
            ELSE T[t]]

Members(T, group) == {t \in DOMAIN T : T[t].group = group}

\* A table of fewer tasks.
Only(T, kept) == [t \in kept |-> T[t]]

\* The child has been reported, and it is gone.
reap(T, pid) == Only(T, DOMAIN T \ Members(T, pid))

\* Mutants: the thread that runs goes too, or leaders do.
sweep_Running(T, running) ==
    Only(T, {t \in DOMAIN T : t = T[t].group \/ T[t].status = NoStatus})
sweep_Leaders(T, running) ==
    Only(T, {t \in DOMAIN T : T[t].status = NoStatus \/ t = running})

\* Without the tasks that have exited, other than leaders and the one that runs.
sweep(T, running) ==
    Only(T, {t \in DOMAIN T : t = T[t].group \/ T[t].status = NoStatus \/ t = running})

\* Forgets the contexts of what is no longer in the table, but for what runs.
KeptContexts(S, T, running) == Only(S, {t \in DOMAIN S : t = running \/ t \in DOMAIN T})

collectGone(T, S, running) ==
    LET swept == sweep(T, running)
    IN  /\ tasks' = swept
        /\ stopped' = KeptContexts(S, swept, running)

-----------------------------------------------------------------------------
(* The system calls of the thread that runs. *)

Runs == phase = "turn" /\ ~stopped[current]
Me   == tasks[current]
Mask == SUBSET Bits \ {{}}

\* clone, fork and vfork.  `vm' shares the memory, `thread' the process, `vfork' has
\* the parent wait until the child runs a program or is over, and `word' is where
\* CLONE_CHILD_CLEARTID has the exit of the new task clear its id.
clone(vm, thread, vfork, word) ==
    /\ Runs
    /\ nextTid <= MaxTid
    /\ thread => vm
    /\ LET id   == nextTid
           made == [group      |-> IF thread THEN Me.group ELSE id,
                    parent     |-> IF thread THEN Me.parent ELSE Me.group,
                    space      |-> IF vm THEN Me.space ELSE id,
                    status     |-> NoStatus,
                    clearTid   |-> word,
                    selfExecId |-> Me.selfExecId]
       IN  /\ tasks' = [t \in DOMAIN tasks \cup {id} |-> IF t = id THEN made ELSE tasks[t]]
           /\ nextTid' = id + 1
           /\ futexes' = IF vfork
                         THEN Join(futexes, current,
                                   [space |-> VforkSpace, address |-> id, bitset |-> Bits,
                                    timed |-> FALSE, ahead |-> DOMAIN futexes])
                         ELSE futexes
           /\ stopped' = [t \in DOMAIN stopped \cup {id} |->
                             IF t = id THEN FALSE ELSE stopped[t] \/ (vfork /\ t = current)]
    /\ UNCHANGED <<waiters, current, sched>>

\* wait4: what it can report is reaped at once, and otherwise the thread blocks if
\* there is a child to wait for.  With WNOHANG or without a child it changes nothing.
serveWait(target) ==
    /\ Runs
    /\ LET children == asked(tasks, Me.group, target)
           over     == report(tasks, children)
       IN  \/ /\ over # {}
              /\ collectGone(reap(tasks, Min(over)), stopped, current)
              /\ UNCHANGED waiters
           \/ /\ over = {}
              /\ children # {}
              /\ waiters' = Join(waiters, current, [target |-> target, ahead |-> DOMAIN waiters])
              /\ stopped' = Halt(stopped, {current})
              /\ UNCHANGED tasks
    /\ UNCHANGED <<futexes, current, nextTid, sched>>

\* exit: the thread is over.  It wakes one that waits on its word, as pthread_join does,
\* and lets go on the parent whose vfork made it.
exitThread(code) ==
    /\ Runs
    /\ LET joined == IF Me.clearTid = NoWord THEN {}
                     ELSE futexWake(futexes, Me.space, Me.clearTid, Bits, 1)
           left   == Leave(futexes, joined \cup {current})
           freed  == releaseVfork(left, {current})
       IN  /\ tasks' = exitTask(tasks, current, exitedStatus(code), initTask(tasks))
           /\ waiters' = Leave(waiters, {current})
           /\ futexes' = Leave(left, freed)
           /\ stopped' = Halt(Resume(stopped, joined \cup freed), {current})
    /\ UNCHANGED <<current, nextTid, sched>>

\* What a process that is over leaves: all of it stops, its children go to the first
\* process, and the parents that wait for its tasks to let go of their memory go on.
markExited(group, status) ==
    LET over  == Members(tasks, group)
        left  == Leave(futexes, over)
        freed == releaseVfork(left, over)
    IN  /\ tasks' = exitGroup(tasks, group, status, initTask(tasks))
        /\ waiters' = Leave(waiters, over)
        /\ futexes' = Leave(left, freed)
        /\ stopped' = Halt(Resume(stopped, freed), over)
        /\ UNCHANGED <<current, nextTid, sched>>

\* exit_group.
exitProcess(code) == Runs /\ markExited(Me.group, exitedStatus(code))

\* tgkill of a task, its own or another's, ends its process: no signal is delivered.  It
\* asks `kill' for the group, which finds the leader and throws if that has exited: the
\* step is undone and the whole run ends.
tgkill(target, signal) ==
    /\ Runs
    /\ Live(tasks, target)
    /\ LET group == tasks[target].group
       IN  \/ Live(tasks, group) /\ markExited(group, signaledStatus(signal))
          \/ /\ ~Live(tasks, group)
             /\ phase' = "done"
             /\ outcome' = "thrown"
             /\ UNCHANGED <<table, stopped, current, nextTid, todo, woke>>

\* A guest that faults gets SIGSEGV, which ends its process.
fault == Runs /\ markExited(Me.group, signaledStatus(11))

\* FUTEX_WAIT and FUTEX_WAIT_BITSET, where the word is what the caller expects.
futexWait(word, bitset, timed) ==
    /\ Runs
    /\ futexes' = Join(futexes, current, [space |-> Me.space, address |-> word,
                        bitset |-> bitset, timed |-> timed, ahead |-> DOMAIN futexes])
    /\ stopped' = Halt(stopped, {current})
    /\ UNCHANGED <<tasks, waiters, current, nextTid, sched>>

\* FUTEX_WAKE and FUTEX_WAKE_BITSET.
serveWake(word, bitset, count) ==
    /\ Runs
    /\ LET woken == futexWake(futexes, Me.space, word, bitset, count)
       IN  /\ futexes' = Leave(futexes, woken) /\ UNCHANGED waiters
           /\ stopped' = Resume(stopped, woken)
    /\ UNCHANGED <<tasks, current, nextTid, sched>>

\* FUTEX_REQUEUE: wakes some, and moves some of the others to another word, each in
\* its place in the queue.
futexRequeue(source, target, wake, move) ==
    /\ Runs
    /\ LET woken == futexWake(futexes, Me.space, source, Bits, wake)
           left  == Leave(futexes, woken)
           moved == futexWake(left, Me.space, source, Bits, move)
       IN  /\ futexes' = [t \in DOMAIN left |->
                             IF t \in moved THEN [left[t] EXCEPT !.address = target] ELSE left[t]]
           /\ UNCHANGED waiters
           /\ stopped' = Resume(stopped, woken)
    /\ UNCHANGED <<tasks, current, nextTid, sched>>

\* set_tid_address.
setClearTid(word) ==
    /\ Runs
    /\ tasks' = [tasks EXCEPT ![current].clearTid = word]
    /\ UNCHANGED <<waiters, futexes, stopped, current, nextTid, sched>>

\* Another process that has not exited has the memory of the thread that runs.
Shares == \E t \in DOMAIN tasks : /\ tasks[t].space = Me.space
                                  /\ tasks[t].group # Me.group
                                  /\ tasks[t].status = NoStatus

\* execve that succeeds: the other threads of the process are over, this one goes on
\* with the id of the process and in its leader's place, in memory of its own if
\* another process has the same, and a parent that waits for that goes on.
execute ==
    /\ Runs
    /\ Me.selfExecId < MaxExecs
    /\ LET group  == Me.group
           others == {t \in Members(tasks, group) : t # current /\ tasks[t].status = NoStatus}
           \* exitTask of each: none of them is the last, as this one runs.
           ended  == [t \in DOMAIN tasks |->
                         IF t \in others THEN [tasks[t] EXCEPT !.status = 0] ELSE tasks[t]]
           leads  == executed(ended, current)
           left   == Leave(futexes, others)
           freed  == releaseVfork(left, {group})
       IN  /\ tasks' = IF Shares THEN [leads EXCEPT ![group].space = group] ELSE leads
           /\ waiters' = Leave(waiters, others)
           /\ futexes' = Leave(left, freed)
           \* The context of the leader is gone, and this one's has its id.
           /\ stopped' = Resume([t \in DOMAIN stopped \ ({current} \ {group}) |->
                                    t # group /\ (stopped[t] \/ t \in others)], freed)
           /\ current' = group
    /\ UNCHANGED <<nextTid, sched>>

Call ==
    \/ \E vm, thread, vfork \in BOOLEAN, word \in Words \cup {NoWord} : clone(vm, thread, vfork, word)
    \/ \E target \in Tids \cup {None} : serveWait(target)
    \/ \E code \in Codes : exitThread(code)
    \/ \E code \in Codes : exitProcess(code)
    \/ \E target \in Tids, signal \in Signals : tgkill(target, signal)
    \/ fault
    \/ \E word \in Words, bitset \in Mask, timed \in BOOLEAN : futexWait(word, bitset, timed)
    \/ \E word \in Words, bitset \in Mask, count \in Counts : serveWake(word, bitset, count)
    \/ \E source, target \in Words, wake, move \in Counts : futexRequeue(source, target, wake, move)
    \/ \E word \in Words : setClearTid(word)
    \/ execute

-----------------------------------------------------------------------------
(* The scheduler. *)

Runnable == {t \in DOMAIN stopped : ~stopped[t]}

\* Mutants: it does not wrap around, it always starts from the lowest, or it takes what
\* is stopped too.
pickNext_NoWrap == {t \in Runnable : t > current}
pickNext_Lowest == Runnable \ {current}
pickNext_Stopped == DOMAIN stopped \ {current}

\* Round robin: the runnable threads of which the next is the lowest.
pickNext ==
    LET after == {t \in Runnable : t > current}
    IN  IF after # {} THEN after ELSE Runnable \ {current}

\* A turn of `quantum' instructions is over, and the next thread has one.
switchNextThread ==
    /\ Runs
    /\ pickNext # {}
    /\ current' = Min(pickNext)
    /\ UNCHANGED <<table, stopped, nextTid, sched>>

\* Only a thread that stops, which waits or is over, has the scheduler look.
TurnEnds ==
    /\ phase = "turn"
    /\ stopped[current]
    /\ phase' = "settle"
    /\ todo' = DOMAIN waiters
    /\ UNCHANGED <<table, stopped, current, nextTid, woke, outcome>>

\* Mutant: the last to ask is looked at first.
Foremost_Last(w) == w \in todo /\ \A v \in todo : w \notin waiters[v].ahead

\* The waiter to look at is the first to have asked.
Foremost(w) == w \in todo /\ waiters[w].ahead \cap todo = {}

\* settleOne: the first waiter not yet looked at goes on if a child it waits for is
\* over, which is gone then, or if there is none.  What runs needs its task: if that is
\* gone, the first of those that go on is what runs.
settleOne(w) ==
    /\ phase = "settle"
    /\ Foremost(w)
    /\ todo' = todo \ {w}
    /\ LET children == asked(tasks, tasks[w].group, waiters[w].target)
           over     == report(tasks, children)
           goesOn   == over # {} \/ children = {}
           left     == IF over # {} THEN reap(tasks, Min(over)) ELSE tasks
           first    == IF woke = None THEN w ELSE woke
           running  == IF current \in DOMAIN left THEN current ELSE first
       IN  \/ /\ goesOn
              /\ woke' = first
              /\ waiters' = Leave(waiters, {w}) /\ UNCHANGED futexes
              /\ current' = running
              /\ collectGone(left, Resume(stopped, {w}), running)
           \/ /\ ~goesOn
              /\ UNCHANGED <<tasks, waiters, futexes, stopped, current, woke>>
    /\ UNCHANGED <<nextTid, phase, outcome>>

\* Mutant: the scheduler is content with one waiter that goes on.
AllSeen_One == todo = {} \/ woke # None

AllSeen == todo = {}

Settled ==
    /\ phase = "settle"
    /\ AllSeen
    /\ phase' = "pick"
    /\ woke' = None
    /\ UNCHANGED <<table, stopped, current, nextTid, todo, outcome>>

\* The thread that runs waits or is over, which is for the scheduler to deal with.
blockedOrOver == blocked(current) \/ ~Live(tasks, current)

Timed == {t \in DOMAIN futexes : futexes[t].timed}

\* There is no clock: those with a timeout time out when nothing else can run.
timedOut ==
    /\ phase = "pick"
    /\ stopped[current] /\ blockedOrOver /\ pickNext = {}
    /\ Timed # {}
    /\ futexes' = Leave(futexes, Timed) /\ UNCHANGED waiters
    /\ stopped' = Resume(stopped, Timed)
    /\ phase' = "settle"
    /\ todo' = DOMAIN waiters
    /\ UNCHANGED <<tasks, current, nextTid, woke, outcome>>

\* scheduleStep: goes on with the thread that runs, switches to the next, or is done.
scheduleRun ==
    /\ phase = "pick"
    /\ ~stopped[current]
    /\ phase' = "turn"
    /\ UNCHANGED <<table, stopped, current, nextTid, todo, woke, outcome>>

scheduleSwitch ==
    /\ phase = "pick"
    /\ stopped[current] /\ blockedOrOver /\ pickNext # {}
    /\ current' = Min(pickNext)
    /\ collectGone(tasks, stopped, current')
    /\ phase' = "settle"
    /\ todo' = DOMAIN waiters
    /\ UNCHANGED <<waiters, futexes, nextTid, woke, outcome>>

scheduleDone ==
    /\ phase = "pick"
    /\ stopped[current]
    /\ \/ ~blockedOrOver
       \/ pickNext = {} /\ Timed = {}
    /\ outcome' = IF ~blockedOrOver THEN "stopped"
                  ELSE IF DOMAIN waiters \cup DOMAIN futexes # {} THEN "deadlock"
                  ELSE IF tasks[initTask(tasks)].status # NoStatus THEN "finished"
                  ELSE "stopped"
    /\ phase' = "done"
    /\ UNCHANGED <<table, stopped, current, nextTid, todo, woke>>

Scheduler ==
    \/ switchNextThread
    \/ TurnEnds
    \/ \E w \in Tids : settleOne(w)
    \/ Settled
    \/ timedOut
    \/ scheduleRun
    \/ scheduleSwitch
    \/ scheduleDone

-----------------------------------------------------------------------------
Init ==
    /\ tasks = [t \in {First} |-> [group |-> First, parent |-> None, space |-> First,
                          status |-> NoStatus, clearTid |-> NoWord,
                          selfExecId |-> 0]]
    /\ waiters = [t \in {} |-> {}]
    /\ futexes = [t \in {} |-> {}]
    /\ stopped = [t \in {First} |-> FALSE]
    /\ current = First
    /\ nextTid = First + 1
    /\ phase = "turn"
    /\ todo = {}
    /\ woke = None
    /\ outcome = "none"

Next == Call \/ Scheduler

Spec == Init /\ [][Next]_vars

\* A turn ends after `quantum' instructions and the scheduler never waits, so each of
\* its steps is weakly fair.  Nothing makes a guest call anything.
Fairness == WF_vars(switchNextThread) /\ WF_vars(Scheduler)
FairSpec == Spec /\ Fairness

-----------------------------------------------------------------------------
(* What holds. *)

Over(T, group) == T[group].status # NoStatus /\ alone(T, group)

\* The state has its type, every thread has a task and the queues are queues.
TypeOK ==
    /\ tasks \in [DOMAIN tasks -> Entry]
    /\ DOMAIN tasks \subseteq 1 .. nextTid - 1
    /\ waiters \in [DOMAIN waiters -> Waiter]
    /\ DOMAIN waiters \subseteq DOMAIN tasks
    /\ futexes \in [DOMAIN futexes -> FutexWaiter]
    /\ DOMAIN futexes \subseteq DOMAIN tasks
    /\ stopped \in [DOMAIN tasks -> BOOLEAN]
    /\ current \in DOMAIN tasks
    /\ nextTid \in 2 .. MaxTid + 1
    /\ phase \in {"turn", "settle", "pick", "done"}
    /\ todo \subseteq DOMAIN waiters
    /\ woke \in DOMAIN tasks \cup {None}
    /\ outcome \in {"none", "thrown", "stopped", "deadlock", "finished"}

\* No wake-up is lost and nothing runs that should not: a thread is stopped exactly while
\* it is in a queue or is over, it is in one queue at most, and only a task that has not
\* exited is in one.
StoppedIffWaiting ==
    \A t \in DOMAIN tasks :
        /\ stopped[t] <=> (blocked(t) \/ tasks[t].status # NoStatus)
        /\ blocked(t) => tasks[t].status = NoStatus
        /\ ~(t \in DOMAIN waiters /\ t \in DOMAIN futexes)

\* A process that is over has no children, so none waits for a parent that cannot ask:
\* they are the first process's.
OrphansAdopted ==
    \A t \in DOMAIN tasks :
        tasks[t].parent \notin {None, First} =>
            /\ tasks[t].parent \in DOMAIN tasks
            /\ tasks[tasks[t].parent].group = tasks[t].parent
            /\ ~Over(tasks, tasks[t].parent)

\* The leader of a process is in the table while any of its threads is, and the threads
\* that have not exited have one parent and one memory.
GroupCoherent ==
    \A t \in DOMAIN tasks :
        LET leader == tasks[t].group
        IN  /\ leader \in DOMAIN tasks
            /\ tasks[leader].group = leader
            /\ tasks[leader].parent = tasks[t].parent
            /\ \A u \in Members(tasks, leader) :
                  Live(tasks, t) /\ Live(tasks, u) => tasks[t].space = tasks[u].space

\* Who waits for a child of vfork waits for one that has neither ended nor run a program
\* since: whatever ends the child lets its parent go, which is never left behind.
VforkHolds ==
    \A t \in DOMAIN futexes :
        futexes[t].space = VforkSpace =>
            LET child == futexes[t].address
            IN  Live(tasks, child) /\ tasks[child].selfExecId = tasks[t].selfExecId

\* Once the scheduler has settled, who still waits in waitpid has a child to wait for and
\* none to be told of, although what settles one waiter is taken from the next.
SettledRight ==
    phase = "pick" =>
        \A w \in DOMAIN waiters :
            LET children == asked(tasks, tasks[w].group, waiters[w].target)
            IN  children # {} /\ report(tasks, children) = {}

\* The run ends for the reason that it gives: it is "finished" when every task has exited,
\* and a "deadlock" is of threads that nothing can wake.  It is never "stopped", as a guest
\* has no breakpoint here.
OutcomeHonest ==
    /\ outcome = "finished" => \A t \in DOMAIN tasks : tasks[t].status # NoStatus
    /\ outcome = "deadlock" =>
          /\ \A t \in DOMAIN tasks : Live(tasks, t) => blocked(t)
          /\ \A w \in DOMAIN waiters :
                report(tasks, asked(tasks, tasks[w].group, waiters[w].target)) = {}
          /\ \A t \in DOMAIN futexes : ~futexes[t].timed
    /\ outcome # "stopped"

\* And it waits as long as that: the parent of a vfork is let go only by a step in which its
\* child ends or runs a program, or it does itself, so that the two never run in one memory.
VforkKept ==
    [][\A t \in DOMAIN futexes :
          \/ futexes[t].space # VforkSpace
          \/ t \in DOMAIN futexes'
          \/ \E u \in {t, futexes[t].address} :
                ~Live(tasks', u) \/ tasks'[u].selfExecId # tasks[u].selfExecId]_vars

\* Each exit is for one waiter, the first to ask: a waiter is never told of a child while
\* another that waited before it, and asked for the same child, goes on waiting.
FirstToAsk ==
    [][\A w \in DOMAIN waiters, c \in DOMAIN tasks \ DOMAIN tasks' :
          \/ c # tasks[c].group
          \/ w \in DOMAIN waiters'
          \/ c \notin asked(tasks, tasks[w].group, waiters[w].target)
          \/ \A v \in waiters[w].ahead \cap DOMAIN waiters' :
                c \notin asked(tasks, tasks[v].group, waiters[v].target)]_vars

\* The first to wait is the first to be woken: a call wakes no waiter of a word while one
\* that waited there before it, with the same mask, stays.
FirstToWait ==
    [][\A t \in DOMAIN futexes : \A u \in futexes[t].ahead :
          \/ phase # "turn"
          \/ t \in DOMAIN futexes'
          \/ t \notin DOMAIN tasks' \/ stopped'[t]
          \/ tasks'[t].selfExecId # tasks[t].selfExecId   \* execve took its id
          \/ u \notin DOMAIN futexes'
          \/ <<futexes[u].space, futexes[u].address, futexes[u].bitset>>
                # <<futexes[t].space, futexes[t].address, futexes[t].bitset>>]_vars

\* As `tgkill' says it does, it ends the process of a task that runs: it never fails
\* for a process of which a thread runs still.
TgkillEnds == outcome # "thrown"

\* The processes of the table, for which threads are not to be seen.
Leaders == {t \in DOMAIN tasks : tasks[t].group = t}
Table == INSTANCE Processes WITH
    procs <- [p \in Leaders |-> [parent |-> tasks[p].parent, over |-> Over(tasks, p)]],
    last  <- nextTid - 1

\* What programs see of processes is what Processes promises.
ImplementsProcesses == Table!Spec

\* Every thread that can run does run, or is stopped by another, before the run ends.
RunnableRuns ==
    \A t \in Tids : t \in Runnable ~> (current = t \/ t \notin Runnable \/ phase = "done")

\* A blocked thread goes on when what it waits for has happened: a child of its process
\* is over, for which it waits.
WaiterGoesOn ==
    \A w \in Tids :
        (w \in DOMAIN waiters /\ report(tasks, asked(tasks, tasks[w].group, waiters[w].target)) # {})
            ~> (w \notin DOMAIN waiters \/ phase = "done")

\* The scheduler ends its look at the tasks: a thread runs next or the run is over.
SchedulerDecides == phase \in {"settle", "pick"} ~> phase \in {"turn", "done"}
=============================================================================

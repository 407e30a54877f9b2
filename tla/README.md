# BAP: tasks, memory, history, pipes and native runs of the emulator in TLA+

BAP in Lean 4 (`src/Bap`) lifts binaries, analyses them and runs them. Most of it is
pure functions over large data, with proofs in Lean of their own (`src/Bap/Proofs`).
What changes over time, with several actors, is the emulator and the Linux machine on
top of it: tasks that block and wake each other, a scheduler, a kernel with waiting
calls, and a debugger that saves, restores and steps back. Below all of it is C++ that Lean
cannot see into: compiled guest code, the memory it shares with other threads and the
observers it calls. `Bap/Jit.lean` lists what is taken on trust of it as 17 obligations, which
its README names as the trusted base of every theorem about native execution. This project
models part of the one, and checks what it can of the other.

## Inventory

| component | source | state | operations | how it meets the others |
|---|---|---|---|---|
| task table | `Bap/Tasks.lean` | list of entries (group, parent, space, status, clearTid, exec ids), waiters of `wait4`, waiters of futexes | `addTask`, `poll`, `exitTask`, `exitGroup`, `reap`, `sweep`, `settle`, `futexWait/Wake/Requeue`, `timedOut`, `executed` | pure; called by everything below |
| task calls and scheduler | `Bap/Emu/Tasks.lean`, `Bap/Emu/Core.lean`, `Bap/Emu.lean` | contexts of threads (`stopped`), the thread that runs, `turnUsed` | `clone`, `wait4`, `exit`, `exit_group`, `tgkill`, `futex`, `set_tid_address`; `scheduleLoop`, `runPreemptive`, `pickNext` | writes the table, switches memory, calls hooks of the machine |
| address spaces | `Bap/Emu.lean` | attached memory, `processMemory` by space, `sharedMemory` | `cloneProcessMemory`, `leaveSharedMemory`, `switchNativeMemory`, `collectGone` | keyed by the `space` of a task |
| machine history | `Bap/Linux/Machine.lean` 44-66, 2760-2900 | position, kept states, quantum of each | `run`, `save`, `restore`, `keepHistory`, `stepBack` | runs the scheduler in pieces of fuel |
| kernel: files, pipes, locks | `Bap/Linux/Kernel.lean`, `Files.lean`, `Machine.lean` | inodes, open files, descriptors of processes, pipe buffers, locks | read, write, dup, fcntl, ... | a call that waits blocks in a futex space of its own and runs again |
| waiting calls, timers | `Bap/Linux/Timers.lean` | sites of waiting calls, deadlines, timers | `entered`, `waitUntil`, `fire`, `wakeDue`, `interrupted` | hooks `betweenTurns`, `idle` of the scheduler |
| signals | `Bap/Linux/Signals.lean` | dispositions, masks, pending signals | send, deliver, `sigreturn`, interrupt | interrupts waiting calls, ends groups |
| ptrace | `Bap/Linux/Ptrace.lean` | tracers, stops, job control | attach, stop, continue, `wait4` of a machine | takes `wait4` before the emulator's |
| poll, epoll, inotify, sockets, System V, mqueue, io_uring | `Bap/Linux/*.lean` | readiness, queues, rings | their calls | wait as pipes do |
| guest memory in the host | `native/paged_memory.h` | a table of four levels to pages, chunks, unused pages, the list of a step | `find`, `ensure`, `load`, `store`, `writeAll`, `zeroRange`, `trim`, `beginStep`, `noteStep`, `endStep` | calls of Lean and compiled code of several threads, without a lock around an access |
| cells of a run | `native/bap_jit.cpp` 121-420, 590-644, 925-1037, 1237-1267, 1735-1809 | the filter, the last quiet ranges, the waiting site, the error, the pages found, what was said of the slots | accesses, code sites, `liveChanges`, filter updates | compiled code calls observers in Lean, which may change the filter, throw, stop or run again |
| chains | `native/bap_jit.cpp` 1811-2164, `Bap/Primus/Lifted.lean` | entries by pc, with executions and where each went last; registers of a run | `chain_add`, `holds`, `optimizing`, `clear`, `run_chain` | Lean registers ranges, counts what ran and optimizes |
| compiled ranges | `native/bap_jit.cpp` 688-1190 | none between runs | operations, the copy for the budget | made of what `lowerExp` and `enterBlock` lower |
| knowledge base, JNI, guest heap, loaders, disassembly, analysis | the rest of `src/Bap` | see `PROJECT.json` | | not concurrent |

What is hard in it: any instruction may be the last of a turn, so every call meets every
state of every other thread; each kind of waiter is let go by code in several places;
a task may be gone, a zombie or under another's id by the time it is looked at;
`wait4` reaps while the scheduler holds the zombie as the thread that runs; what a
debugger undoes must be exactly what ran; threads make one page, and write one word, at
once; and an observer called in the middle of compiled code may change what that code has
looked at before. `PROJECT.json` lists these hazards line by line.

## Modules

- **`Tasks`** models the table, the calls and the scheduler. `tasks`, `waiters` and
  `futexes` are the fields of `TaskTable`; `stopped` is the flag of each
  `ThreadContext` (for the current thread, `emu.stopped`); `current` and `nextTid` are
  `currentThreadRef` and `nextThreadRef`; `phase` says where `scheduleLoop` is. A call
  is one atomic action, as in the code; `settle` is one action per waiter (`settleOne`),
  so that the order among waiters is seen. `switchNextThread` may follow any call,
  since a quantum may end at any instruction. The lists of the code are functions here:
  ids only grow, so the list of tasks is in the order of ids, and a waiter keeps the set
  of those `ahead` of it. `execute` is what `execve` of the Linux machine does to tasks
  and memory of tasks; the emulator alone has no `execve`.
- **`Processes`** is the abstract specification: a process has a parent, ends once,
  leaves its children to the first process and is gone after its parent has asked.
  `Tasks` implements it under `procs <- leaders`, `over <- the leader has exited and no
  thread of the group runs`.
- **`Spaces`** extends `Tasks` with the native memories: which memory is attached, which
  are put aside and under what name. A memory is named by who it was made for;
  `holds` is a history variable with what each task ought to have.
- **`History`** models `Machine.run` in pieces, `save`, `restore`, `keepHistory` and
  `stepBack`. What a machine is, is all that happened to it (`did`), the thread that
  runs and what its turn has used. A run is a sequence of steps (`instruction`,
  `faulty`, `stops`, `pieceEnds`), and so is what `stepBack` runs again. `past` is a
  history variable: what the machine was after each instruction.
- **`Pipes`** models the pipes of the Linux machine and the calls that wait on them. A
  thread is at a call (`call`, its registers) or between calls; a call that waits is in
  `queue` (the futex space `2^61 + inode`) and has a site in `sites`. Every run of a call,
  the first and the next ones, is one action from the registers and the site, as in the
  code; between runs `close`, `dup2`, `dup3`, `F_SETFL`, `F_SETPIPE_SZ`, `fork`, exits and
  signals happen: `kill` of a guest lets go only whom it is for, `send` of the machine has everyone
  that waits on a pipe try again. `group`, `live` and `descriptors` are what `pipeHeld` needs of tasks and
  processes. Bytes are named by who wrote them, of how many and at which place; errors are
  all `Failed`. History variables: `put` is what a call really put in the pipe;
  `astray` has the threads whose site is wrong because the descriptor of a partial write
  was lost or made non-blocking, a handler's call dropped the site, or a write took over
  the site of an earlier one; `unheard` says that `dup3`, `F_SETFL` or `F_SETPIPE_SZ`
  changed something since the last wake.
- **`PagedMemory`** models `paged_memory.h` and the accesses of compiled code to it. An
  atomic access of the code is one step, so that threads interleave between any two: `root`
  and `entries` are the table (two levels for four, as the loop of `find` and `ensure` does
  the same at each but the last), `chunks`, `chunkUsed` and `unused` the pool under
  `chunkLock`, `stepOpen`, `stepWrites` and `stepOverflowed` the step under `stepLock`. `pc`,
  `todo` and what a thread has in hand (`node`, `made`, `page`, `expected`) are the locals of
  its call; `known` is `pageEntries` and `log` the `StoreLog` of its run. A call is cut into
  pieces of one word, as the loops of `load`, `store` and `writeAll` do. Nothing is assumed of
  memory beyond that each place has a single order of its accesses and that a pointer is
  published with what it points to, which the acquire and release of each access give: no step
  relies on the order of accesses to two places, which obligation 10 does not promise.
- **`FlatMemory`** is the abstract specification of obligations 7, 10, 12 and 14: a map of
  words in which a load or a store within a word is done at once, between its call and its
  return. `PagedMemory` implements it under `mem <- Memory` (a page's words, or zeros where
  there is no page) and `asked <- Asked` (the piece a thread is doing).
- **`Cells`** models `BapCells`: compiled code looks at the last quiet range, then the filter,
  then calls the observers; a code site waits or calls; an error clears the pages in hand; and
  Lean code at a site asks for the slots that changed. What observers do is free.
- **`Chain`** models `bap_jit_run_chain` with what Lean does around it. A range is its needs,
  outputs, flags and checkpoint; what it computes is free. Of each range Lean has `cached`
  (whether it is to be optimized still, and whether its program is the optimized one), `counts`
  (its executions), what is compiled in the background at its pc (`optimizing`) and whether the
  chain has it (`listed`, which is `chainAt`). A run of Lean (`BeginRun`, `RunsAlone`) prepares the range
  (`prepareGraph`, `optimizedVersion`: made, found among the versions, sent to be compiled, replaced,
  or left as it is when that failed or what was compiled was of something else), puts it in the
  chain with when it is to come back (`registerChain`) and gives it a budget (`Grant`). The entry of
  the chain keeps its own count and its own `optimizeAt`, which Lean's may have left behind.
  `inTurn` is a history variable: the variables as Lean would have them, running range by range.
- **`Budget`** models the copy that an optimized range gets: the search in depth over any graph
  of three blocks, then a run of the range and its copy.
- **`Ops`** has, for words of every width, what `lowerExp` makes of an expression and what
  `bap_jit_compile` makes of that, over an LLVM whose shifts may be poison and whose divisions
  may be undefined, and the bytes of loads and stores by an instruction and by calls.
- **`MCNative`** runs `PagedMemory`, `Chain`, `Cells`, `Budget` and `Ops` side by side: a behaviour is
  one of one of them (`part`) while the others stay as they start. **`MCChain`** has the ranges of
  the runs of `Chain`, and which of them follow each other in a behaviour. Where they meet is in the modules: the program of `PagedMemory` is
  stopped by the observer of `Cells` (`Throw`), and the ranges of `Chain` end as `Cells` lets
  them (`went`). **`PagedMemoryProofs`**, **`CellsProofs`**, **`ChainProofs`** and
  **`CodeProofs`** hold the theorems of `PagedMemory`, `Cells`, `Chain`, and `Ops` and `Budget`.
- **`MCTasks`** declares the symmetry of futex words. `Spaces`, `History` and
  `Pipes` run as they are. **`TasksProofs`**, **`SpacesProofs`**, **`HistoryProofs`** and
  **`PipesProofs`** hold the theorems of `Tasks`, `Spaces`, `History` and `Pipes`.

## Runs

| run | bounds | what it shows |
|---|---|---|
| `processes` | 4 tasks, 1 exec each, which of the memories that others have leaves only the first process's, no futex words | `TypeOK`; `OrphansAdopted`, `GroupCoherent`: the tree of processes stays one, also when leaders exit first or a thread takes its leader's id; `SettledRight`, `FirstToAsk`: each exit is told to one waiter, the first; `OutcomeHonest`: "finished" and "deadlock" are true; `ImplementsProcesses`: the refinement; `OwnMemory`: each task has the memory it was given |
| `tasks_futexes` | 3 tasks, 1 exec each, 2 words (symmetric), counts of 1 | `StoppedIffWaiting`: no lost wake-up and no thread that runs while queued; `FirstToWait`: wakes and requeues keep the order; `VforkHolds`: no parent of a vfork is left waiting for a child that has ended or run a program; `VforkKept`: none is let go before |
| `tasks_schedule` | 3 tasks, fair | `RunnableRuns`: every thread that can run runs; `SchedulerDecides`: the scheduler does not spin |
| `history` | 2 threads, quanta 1 and 3, fuel 4, states 2 apart, 2 kept, 4 events, one save, one change by the host | `StepsBack`: what is undone is as it was; `RunsAgainLittle`: little runs again for it; `TypeOK` |
| `pipes` | 2 threads of one or two processes, 2 descriptors, a pipe of 2 or 3 bytes, PIPE_BUF of 2, counts 2 and 3, 2 changes or signals | `NoneWaitsInVain`: whoever waits would wait again; `HonestWrites`: a write tells exactly what it put, in order and once, through waits and signals; `SmallWritesWhole`: a write of up to PIPE_BUF is whole; `TypeOK`: no pipe holds more than it may |
| `native` | memory: 2 threads, 2 calls of 6, 2 chunks of 2 pages, words of 2 bytes, a step of 2; chain: 2 runs, 2 ranges, 2 variables with 2 values, thresholds of 3 and 2, budget 3; cells: 3 addresses, accesses of 2 bytes, 1 run; all graphs of 3 blocks, budget 4; host words of 4 bits | the memory: `TypeOK`, `PagesApart`, `PagesStay`, `HandsRight`, `StepKnows`, `ImplementsFlat`; the chain: `NeedsMet`, `AsInTurn`: each range has what it reads, and the variables are as Lean would have them, `LastTargetFresh`: no run goes to what was replaced, `BlocksCounted`, `ExecutionsTold`: blocks and executions are those that ran, `ComesBack`: no run keeps a range that Lean has yet to optimize for longer than `optimizeFrom - 1` or `optimizeCheck` executions; cells: `QuietSound`, `PcKnown`, `AfterError`, `LiveRight`; the copy: `CopyGoesOn`; operations: `OpsAgree`, `BytesAgree` |
| `wait`, `tgkill`, `nested_spawn`, `history_faults`, `written_twice`, `chain_lag` | 3 tasks, 4 events, as `pipes`, or 2 counters | violations, see below |

Why the bounds are enough: four tasks give a first process, a child, a grandchild or a
thread and one more to wait for or be vforked; three threads on two words give a waiter
before and after another on one word and a requeue to the other; a fuel of 4 with
states 2 apart has a kept state in the middle of a turn, at its end and at its start,
pieces cut by the quantum and by `every`, and a kept state that the limit drops. In
`history` the first instruction faults, which is counted right, as nothing ran before it
in that call. In `pipes` a write of 3 has to wait twice or be cut, one of 2 finds room for
1 only after a long one, and two changes are a signal with a lost site, a size up and down,
or O_NONBLOCK on and off; one place of calls is enough, as a handler's call is at another. In `native` two threads are what a race on an entry or a word takes; the calls write two
parts of one word, pages of one node and of two, zeros over both, and a program that finds,
remembers and makes pages and fails in between; a chunk of two pages is left for the next
one; and a step of two overflows. Addresses end at 2, so that an access wraps past the end as one of 64 bits does
there; three blocks have loops within loops and two ways round. Four bits have all cases
of widths below and at that of the host. The chain is in four parts.
Two ranges of two variables go on to each other and back (`Write`), optimized or not, from a state
with either bound, and a second run finds what the first marked; a third pc is where none starts.
Ranges without variables (`Count`) may have run once or be at the threshold (`Had`) when they are
made or found again: two of them with a budget of 3, which can go on to what is not optimized and
be cut there; the two with a budget of 1 and with runs out of the chain of one of them between,
which register it, replace it or count past what the chain knows; and one with the block alone at
its pc, so that what is compiled in the background is of the other. A second run so meets entries
that the first left with any count and any `optimizeAt`, of ranges that were compiled, refused or
forgotten since. In `processes` no task runs a program in place of a memory that
another process has too, unless it is that of the first, as `nested_spawn` shows what follows; `tasks_futexes` has three tasks of which any
does, and the theorems of `Tasks` have any number.
`CHECK_DEADLOCK` is off because a run ends (`phase = "done"`) and a guest
may do nothing more within the bounds of ids and events.

### Where the code and its comments disagree

- `nested_spawn`: process 1 forks 2, 2 vforks 3, 3 runs a program. `leaveSharedMemory`
  (`Emu.lean:2316`) puts the memory of 2 in `sharedMemory`, which held that of 1.
- `tgkill`: `tgkill` of a live thread whose leader has exited throws in `kill`
  (`Emu/Tasks.lean:715`) instead of ending the process.
- `wait`: a child ended by another process is not reported to a waiter while any
  thread runs, as `settleWaiters` runs only when the current thread stops.
- `history_faults`: `runGuest` (`Emu/Tasks.lean:767`) forgets the instructions that ran
  before a fault in the same call, so `stepBack` goes back too far.
- `written_twice`: `writePipe` (`Linux/Machine.lean:622`) asks its site for what it wrote
  only if it may still wait. A write of 3 that put 2 and waits, whose open file becomes
  non-blocking, puts its first 2 bytes again when it is woken.
- `chain_lag`: `registerChain` says that "what isn't optimized comes back to the dispatcher by
  when it has run enough to be, as the chain counts its runs as `prepareGraph` and
  `recordChained` do" (`Lifted.lean:2183`). The start of a run, which `prepareGraph` counts
  (`Lifted.lean:1680`), is not told to an entry that is in the chain already, nor is a run that
  does not go on in the chain: the chain's count lags, and it goes on to ranges that Lean has at
  the threshold. `ComesBack` is what remains true, for every count.

In the native code, met while reading, with no run of their own:

- `bap_jit_run_chain` keeps pointers to entries of the chain while it runs
  (`bap_jit.cpp:1995-2117`). An observer that takes a hook off or changes the regions has Lean
  forget the filter and clear the chain (`Emu.lean:717-722`, `Lifted.lean:380`), after which
  the run ends with entries that are gone; `Chain` takes observers to leave the chain be.
- `forgetMemoryFilter` says that "no run uses [the filter] from now on" (`Emu.lean:716`); the run
  that the observer was called from still has it, until it ends or looks it up again.
- A range that could not be optimized keeps its entry in the chain with its old `optimizeAt`
  (`Lifted.lean:1576`, `chain_holds` finds the same program), so that, once its executions are past that,
  every range that goes there returns to Lean first. It costs time and nothing else.
- A write to a block that no range has, past its first byte, clears neither it nor the chain
  (`writeHitsCode`, `Lifted.lean:473`). Lean compares its bytes when it starts there
  (`prepare`); a range that goes on to it in the chain runs what was compiled. `Chain` takes a
  range by its bytes.
- In ranges after the first, the block that a range starts at has no code site, so that Lean's
  pc is that of a range before when an observer is called there. It does no harm, as a fault or
  a hook then has the step done again with no budget. `PcKnown` is about sites.
- `BinOp` says that a divisor of 0 doesn't reach a division "as lowering guards it"
  (`Jit.lean:96`); lowering does not, and the selects of `bap_jit_compile` do (`OpsAgree`).

Elsewhere, met while reading and not stated as a property: `keepHistory` says that models attached
later stay as they are when it steps back, and `restoreKept` refuses instead;
`exit_group` does not clear and wake the `clearTid` words of its threads; a task that
leaves the memory named after itself by `execve` (`Leaves = "owned"`) is given the wrong
one as well, for the reason that `nested_spawn` shows; a handler's call between the wake
and the next run of a write drops its site, which has the bytes written twice too
(`handlerCall`); a write by `writeDirect` that ends in an error leaves its site to the next
write from the same place; a read of a write end waits rather than giving EBADF.

## Fairness

`FairSpec` has weak fairness of the scheduler's steps and of `switchNextThread`. A turn
is bounded by `quantum` (`Emu.lean:3078`), and `scheduleLoop` does not block, so an
enabled step of it is taken. Nothing is assumed of guests: they may run forever without
a call. Ids are bounded, so an endless chain of forks, which could keep the round robin
from coming round, is not in the model.

## Proofs

`TasksProofs` proves, for every number of tasks, words, bits, counts, codes and signals
(`TasksAssumption`):

- `TypeCorrect`, `NoLostWakeup`: `Spec => []TypeOK`, `Spec => []StoppedIffWaiting`;
- `GroupsAlwaysCoherent`, `OrphansAlwaysAdopted`: the tree of processes, `Spec => []GroupCoherent`
  and `Spec => []OrphansAdopted`;
- `TasksImplementProcesses`: `Spec => Table!Spec`, the refinement of `Processes`;
- `AlwaysSettledRight`, `OutcomeAlwaysHonest`, `FirstToAskAlways`: `SettledRight`, `OutcomeHonest`
  and the action property `FirstToAsk`, of waiters and of how a run ends;
- `VforkAlwaysHolds`, `VforkAlwaysKept`, `FirstToWaitAlways`: `VforkHolds` and the action properties
  `VforkKept` and `FirstToWait`, of the queue of futexes.

They are all of `Tasks` that TLC checks but for liveness, and rest on four invariants, each
inductive with those before it. The first two theorems follow from `Core`: `TypeOK` and `StoppedIffWaiting`
together with `LeaderPresent` (the leader of every task is in the table, which `execute`
needs, as it takes the leader's place), `WokeLive` (the waiter that a settling remembers
is live, which is needed when the running zombie is reaped and it takes over) and `Idle`
(`todo` and `woke` are empty outside of settling). `TypeOK` alone is not
inductive: that a context exists for exactly the tasks of the table, and that the thread
that runs is one of them, depends on who may be reaped, which depends on who is queued.
There is a lemma per action (`Core...`), `CoreNext` puts them together and `CoreAlways`
is the temporal step. Lemmas on queues (`Leave`, `Join`, `Resume`, `Halt`) and tables
(`reap`, `sweep`, `exitTask`, `executed`) are stated once.

What processes are to each other follows from `Kin`: `GroupCoherent` and `OrphansAdopted` with
`FirstThere` (the first process is never gone), `NotOwnParent` and `ExecCoherent` (the threads of a
process that run are of one program). `OrphansAdopted` alone is not inductive: that the parent of
a task is in the table and not over depends on who leads whom, and on the one that takes orphans
in being there. Whatever the action, the table changes in one of seven ways (`TableStep`: the
same, a task more, some that have exited fewer, a reaped process fewer, one out, a group at its
end, a new program); there is a lemma per action that says in which (`Table...`), and one per way
that it keeps `Kin` (`Kin...`) and is a step of `Processes` or none (`Procs...`). `TableOut` of a
last thread and `TableEnd` are `End`, a reaped process is `Reap`, a new task is `Fork` where it
leads its own group and `Thread` where it does not.

`Settling` is of the scheduler: a waiter that was looked at and stays has a child to wait for and
none to be told of (`SettleSeen`, kept when others take children: what they take had
ended, so it was none that a waiter left to wait asked for), and nothing happens once the run has an
outcome (`EndsOnce`). `Queued` is of
futexes: the parent of a vfork waits for a live task of its own program that is its child or its
thread and has no timeout (`VforkRight`), and those ahead of a waiter are in the queue, and have less ahead of them
(`InOrder`), so that of two that ask for the same word a wake of some takes the one ahead first.

`SpacesProofs` proves `OwnMemoryAlways`, `SpacesSpec => []OwnMemory`, for any number of tasks where
`Leaves \subseteq {"first"}`, as in the run `processes`: `nested_spawn` is the counterexample
without it, so the assumption is what the code would have to see to. `Homes` has `Placed` (only
the first space has no memory of its own put aside, and the memory of a space is named after it,
so that two spaces never have one) and `Given` (a live task has what it holds; if its space is not
named after its process, none is, so that `execve` takes a name that is free). `OwnMemory` alone is
not inductive: what a switch takes from `sharedMemory` is right only if no other space relies on
it. Each step either leaves memory where it is found (`MemoryStays`: `MemorySwitched`,
`MemoryForgotten`, `MemoryUntouched`) or makes one (`HomesClone`, `HomesLeave`); `SpacesStep`
carries `Core` and `Kin` over.

`PagedMemoryProofs` proves, for any threads, calls of any pieces, indices, words, bytes, nodes,
chunks and limits (`SizesAssumption`, `ZeroAssumption`, `NullAssumption`, `CallsAssumption`):

- `MemoryTypeCorrect`, `PagesKeptApart`, `HandsAlwaysRight`, `StepAlwaysKnows`: the four
  invariants of the memory;
- `PagesAlwaysStay`: `Spec => PagesStay`;
- `MemoryImplementsFlat`: `Spec => Flat!Spec`, the refinement.

They follow from one inductive invariant, `IInv`: `TypeOK`, `StepKnows`, and
`TableRight` (each node is under one entry of the root; one that no entry has is empty and in
the hands of at most one thread; a thread looks into the node of its own address),
`PoolRight` (a page that was given out is in one place of the table, unused, or in the hands
of one thread, and is zeros until it is in the table), and for each thread `CallRight` (the
pieces a zeroRange has left are zeros of one page and nothing fast; what was written is told
at once outside a run), `HandRight` (the page in hand and the page known are those the table
has for their addresses) and `PlaceRight` (only zeroRange inspects; only a store exchanges).
`PagesApart` alone is not
inductive: that the page a thread is about to put in is in no other hand depends on where every
other thread is. `TableStep` says once that a step of a thread changes what is found at
no address but that of its own piece, and there only from nothing to the page that it made; each
`...Right` part of another thread is kept by it.

The refinement goes action by action (`ThreadFlat`): `GoOn` is `Ask`; a word loaded, or found
absent, is `Load`; a word stored, zeros where there is no page, and a word that `zeroRange`
finds to be zeros are `Store`; `Refuse` is `Refuse`; all others leave what is seen alone.
`PutNode` does because the node is empty, `PutPage` because the page is zeros, and `Exchange`
stores over what it last read only if it is still there.

`CellsProofs` proves, for any addresses, sizes of accesses, sites, outputs and changes of the
filter (`CellsAssumption`), the four invariants of the cells: `QuietAlwaysSound`,
`PcAlwaysKnown`, `NothingAfterError` and `LiveAlwaysRight`. What they say of the last thing that
happened follows, step by step, from `CellsIInv`: ranges of the filter are apart (so that the
range that has the first address of an access is the only one that could let it through; that
the search finds it uses the well-foundedness of numbers), `QuietRight` (the range remembered is
in the filter as it is now), `FailRight` (after an error neither pages nor a range are
remembered), `PendingRight` (a site waits only while no Lean code of the run saw anything, and if
none waits Lean has the last pc) and `LiveKnown` (what was said in this run is what the cache has).

`ChainProofs` proves, for any ranges that read and write any variables, budgets and thresholds
(`RangesAssumption`, `ChainAssumption`), the six invariants of the chain: `TargetsStayFresh`,
`NeedsAlwaysMet`, `AlwaysAsInTurn`, `BlocksAlwaysCounted`, `ExecutionsAlwaysTold` and
`AlwaysComesBack`. `ChainIInv` has `EntriesRight` (entries are objects of their own, none
marked by a run to come), `MarksRight` (an entry that was marked in this run has its outputs
written and its needs bound, which is why `run_chain` may skip the look at them), `ProgramRight`
and `AfterRight` (each variable is where its mark says, before a range runs and before what it
left is looked at), `CountsRight` (executions are those Lean has and those of the run) and
`SpentRight` (what the run has used and may use is within what it was granted). `AsInTurn` alone
is not inductive: it says nothing of the time between a range and the look at its slots, nor of
what the marks promise. `ComesBack` is about what Lean has (`cached`), and the chain's `optimizeAt`
may be of before: the invariant says that an entry has no `optimizeAt` only if Lean has its range
optimized, that no `optimizeAt` is further than `Longest` past the executions Lean was told of, and
that a range in the chain is never made again without the chain being cleared. An `optimizeAt` that
was passed only has the chain come back at once.

`CodeProofs` proves, for host words of any two bits or more and bytes of any width
(`OpsAssumption`), `NativeCodeAgrees`, `OpsSpec => []OpsAgree`, and `BytesAlwaysAgree`,
`OpsSpec => []BytesAgree`: every operation at every width on every value, every access of every
size in both orders. With words of one bit, 1 would be all ones, and the guards of signed division
would have nothing to divide by instead; no host has them. Both invariants are inductive as they are, as nothing is kept from one
computation to the next; the work is in arithmetic. Powers of two and the sum of bytes are
recursive functions: `Pow2Is` and `ReadsOfIs` show that they satisfy their equations, and facts
for all numbers are had from the least one that would fail (`Least`, `UpTo`). Quotients and
remainders follow from their being unique (`Unique`, `ModApart`, `ModMod`, `DivDiv`). `Extended`
says that the shifts of a sign extension give the signed number as a host word has it, `CutHost`
that cutting a host word to a width loses nothing that cutting the number would keep, and
`DivideSignedIs` that the selects around a signed division never let LLVM see a divisor of 0 or
an overflow, and that what they select is the result; then there is one lemma for each operation.
For bytes, `LittleValue` and `LittleDigits` are the two directions of the little order,
`BigIsLittle` and `Swap` say that the big order is that from the other end, and
`StoreInstructionIs` and `LoadInstructionIs` that an instruction and the calls do the same.

`CodeProofs` also proves `CopyAlwaysGoesOn`, `BudgetSpec => []CopyGoesOn`, for any finite range, any
jumps and checks in it and any budget (`BudgetAssumption`). `Sound` says of the search that what is
being visited is on the stack, once (`OnStack`), that what was looked at from a block on it is a
target, finished, or next on the stack (`Looked`), and that finished blocks can be numbered so
that every jump from one goes to a target or to a lower number (`Ranked`). The search ends with
all it reached finished, so a run in the copy between two targets goes down, and what it has left
is at least the number of checks at or below it (`Enough`): each is passed once at most, and
at a target there are as many as the range has. `CopyGoesOn` says nothing of the search, and is
not inductive without.

`PipesProofs` proves, for any threads, processes, descriptors, pipes, capacities, counts and
changes (`PipesAssumption`), the four invariants of the pipes: `PipesTypeCorrect`,
`SmallWritesAlwaysWhole`, `WritesAlwaysHonest` and `NoneEverWaitsInVain`. `PipesIInv` has
`ProcessesOK` (the id of a process is a thread of it that was made, so that nobody has the
descriptors that `clone` fills), `KernelOK` (what is open is of a pipe that was made, and every
buffer is `Whole`), and for each thread `ThreadRight` (one that waits is live with a call and no
signal; the site of a call is at its place and says no more than its count), `Honest` and not
`InVain`. `HonestWrites` and `NoneWaitsInVain` are not inductive alone: what a write does next
depends on its site being its own, and what a waiting call would do on others' descriptors. A
step is the actor's and everyone else's (`StepRight`): another thread keeps its call and its
site (`Stays`), and it is woken, or the change is one that nobody hears of, or it sees what it
saw (`Excused`, `Sees`). A write is cut into what it does not put (`WriteEndsRight`,
`WriteBrokenRight`, `WriteWaitsRight`) and `WritePieceRight`: if a piece leaves something, it
filled the pipe, so there is no room and the wait is with reason.

`HistoryProofs` proves, for any threads, quanta, fuel, distances, limits, counts and models
(`HistoryAssumption`, `NoHistoryAssumption`), `HistoryTypeCorrect`, `AlwaysKeptInOrder` and
`AlwaysRunsAgainLittle`, and, where nothing faults but a first instruction, `AlwaysStepsBack`.
The first three follow from `HistoryIInv`: what is kept is in order with gaps of at most `every`
(`Placed`), the machine is at most `every` after the last of it, a run counts since what it kept
last (`apart = since`), and what runs again is within what is kept. Gaps are needed because `run`
drops what it kept at its own place, and `stepBack` what is after, and the one before must still
be near enough. `RecordIInv` adds what the machine was: every kept state is `past` at its place
and `past` goes on from it by `Ahead` with the quantum kept there (`Tracks`), except at the last
place between runs, which the host may change; no kept state has a model that is not attached, so
that one that may go back goes back whole; and what runs again is at `past` of where it is. That
`Faults` has no more than 0 is used in one place (`InstructionRecords`): a fault finds no
instruction of its call uncounted.

Only model-checked: the liveness properties, `RunnableRuns` and `SchedulerDecides`, which are
outside the prover. Every other property of a passing run is a theorem.

## Not modelled, and the plan

Left out of `Tasks`: the host's `spawnThread` and `forkThread`, futex words shared
between spaces, deadlines by a machine's clock, fuel, `exitSignal` and `parentExecId`,
memory calls. Left out of `Spaces`: contents and maps. Left out of `History`: flushing of
shared memory and output at the end of a piece, checkpoints in files, and waiting
threads. Left out of `Pipes`: deadlines, splice and tee, named pipes, close-on-exec,
calls on pipes inside a handler, and writes of a process that maps files or is watched by
inotify, which finish their site in any case. Left out of the native modules: `fill` and `copyFrom` (of
memories that no other thread has), `dump` and byte arrays, images of cells without pages,
entries of a range, LLVM's own work and how slots are promoted to registers beyond what a site
leaves, the shims for LLVM's disassembler and Z3. In `PagedMemory` a call of `zeroRange` is of one
page, the system refuses a chunk only to `writeMemory` (elsewhere that ends the process), and
nothing stores in what `trim` is given, as its comment asks. In `Chain` every range has a budget,
values are within their widths, observers leave the chain as it is, a range that is made may have
any count of `Had` in place of that of the block it is made for, and writes to code clear what is
made of it. In `Budget` the check of
the budget and its decrement are one, and a range whose target begins with a phi, which
gets no copy, is left out. Pure data (lifting, disassembly, decompilation, loaders, encodings) is out of a
model checker's reach and is proved about in Lean.

The map covers few of the repository's lines of C: most of those are programs of the
test suite that the emulator runs, and tools; what the program does is in Lean.

Next, in this order:

1. `Timers`: deadlines of waiting calls against wakes and signals, in `Pipes`.
2. `Signals`: pending sets, masks, delivery against waiting calls; composed with `Pipes`.
3. `Poll` and epoll readiness, sockets, System V semaphores with undo, io_uring.
4. Ptrace stops and the machine's `wait4`; record locks and their deadlock check.
5. Knowledge base promises, and the scheduler of Primus.
6. `Chain` with an emulator that clears it in the middle of a run, and `cloneMemory`.

------------------------------- MODULE Pipes -------------------------------
(***************************************************************************)
(* Pipes of the Linux machine and the calls that wait on them: writePipe,  *)
(* waitForPipe and what changes descriptors (Bap/Linux/Machine.lean), the  *)
(* pipes of the kernel (Bap/Linux/Kernel.lean), the sites of waiting calls *)
(* (Bap/Linux/Timers.lean) and how a signal ends a wait                    *)
(* (Bap/Linux/Signals.lean).                                               *)
(*                                                                         *)
(* A call that has to wait leaves a site, which says where the call ends   *)
(* and what it wrote, and blocks.  Whatever changes a pipe wakes everyone, *)
(* and each runs its call again, from its registers and its site alone.    *)
(* Between the wake and that run anything may have happened: descriptors   *)
(* are closed or replaced by a thread of the process, the flags of the     *)
(* open file change, a handler of a signal runs and makes calls.           *)
(*                                                                         *)
(* A call is atomic, as one emulator runs one thread at a time.  Writes    *)
(* are those of writeDirect: the process maps no file and nothing watches  *)
(* with inotify.  A handler makes calls but none that waits on a pipe.     *)
(***************************************************************************)
EXTENDS Integers, Sequences, FiniteSets, FiniteSetsExt, Functions

CONSTANTS
    Threads,    \* the ids of threads; a process is named by its first one
    Init1,      \* the first thread
    Nobody,     \* no process, no thread
    Limit,      \* RLIMIT_NOFILE: descriptors are 0 .. Limit - 1
    MaxPipes,   \* bound: a pipe past it is not made
    PipeBuf,    \* PIPE_BUF
    Capacity,   \* what a new pipe holds
    Sizes,      \* what F_SETPIPE_SZ may make it hold
    Places,     \* the addresses of the call instructions of the program
    Nowhere,    \* the place of no call
    Counts,     \* the counts that a read or a write is given
    MaxChanges  \* bound on the calls that change descriptors, flags and sizes, and the signals sent

ASSUME PipesAssumption ==
    /\ Init1 \in Threads /\ Nobody \notin Threads
    /\ Limit \in Nat /\ MaxPipes \in Nat /\ MaxChanges \in Nat
    /\ PipeBuf \in Nat \ {0} /\ Capacity \in Nat /\ Sizes \subseteq Nat
    /\ \A size \in Sizes \cup {Capacity} : size >= PipeBuf
    /\ Counts \subseteq Nat
    /\ Nowhere \notin Places

VARIABLES
    group,          \* thread -> its process, or Nobody before it is made
    live,           \* the threads that have not exited
    descriptors,    \* process -> descriptor -> open file, or Closed
    nonblock,       \* the open files with O_NONBLOCK
    pipes,          \* number of a pipe -> its content
    call,           \* thread -> the call whose instruction it is at, or NoCall
    queue,          \* thread -> the pipe in whose space it waits, or 0
    sites,          \* thread -> the site of its call that waits, or NoSite
    pending,        \* the threads with a signal to be handled
    handling,       \* the threads that run a handler
    result,         \* thread -> how much its last call says that it wrote, or Failed
    put,            \* history: the offsets of what its call put, in order, until one is put twice
    astray,         \* history: the threads whose site is not what their call did (see Strays)
    unheard,        \* history: a change that wakes nobody came since the last wake
    changes         \* how many changes and signals there were, which are bounded

kernel  == <<descriptors, nonblock, pipes>>
signals == <<pending, handling>>
history == <<put, astray, unheard>>
vars == <<group, live, descriptors, nonblock, pipes, call, queue, sites, pending, handling,
          result, put, astray, unheard, changes>>

Fds      == 0 .. Limit - 1
Numbers  == 1 .. MaxPipes
OpenFile == [pipe : Numbers, writable : BOOLEAN]
Closed   == [pipe |-> 0, writable |-> FALSE]    \* what a descriptor that is not open has
Call     == [op : {"read", "write"}, place : Places, fd : Fds, count : Counts]
NoCall   == [op |-> "none", place |-> Nowhere, fd |-> 0, count |-> 0]
Site     == [place : Places, written : Nat]
NoSite   == [place |-> Nowhere, written |-> 0]
Byte     == [by : Threads, of : Counts, at : Nat]
Content  == [buffer : Seq(Byte), capacity : Nat]

\* What a call that fails says, whatever the error (EBADF, EAGAIN, EPIPE, EFAULT or EINTR).
Failed == -1

\* The type of the state; a pipe never holds more than it has room for.
TypeOK ==
    /\ group \in [Threads -> Threads \cup {Nobody}]
    /\ live \subseteq {t \in Threads : group[t] # Nobody}
    /\ descriptors \in [Threads -> [Fds -> OpenFile \cup {Closed}]]
    /\ nonblock \subseteq OpenFile
    /\ DOMAIN pipes \subseteq Numbers
    /\ \A p \in DOMAIN pipes : /\ pipes[p].buffer \in Seq(Byte)
                               /\ pipes[p].capacity \in Nat
                               /\ Len(pipes[p].buffer) <= pipes[p].capacity
    /\ call \in [Threads -> Call \cup {NoCall}]
    /\ queue \in [Threads -> Numbers \cup {0}]
    /\ sites \in [Threads -> Site \cup {NoSite}]
    /\ pending \subseteq live /\ handling \subseteq live
    /\ result \in [Threads -> Nat \cup {Failed}]
    /\ put \in [Threads -> Seq(Nat)]
    /\ astray \subseteq Threads /\ unheard \in BOOLEAN /\ changes \in 0 .. MaxChanges

Init ==
    /\ group = [t \in Threads |-> IF t = Init1 THEN Init1 ELSE Nobody]
    /\ live = {Init1}
    /\ descriptors = [g \in Threads |-> [fd \in Fds |-> Closed]]
    /\ nonblock = {}
    /\ pipes = <<>>
    /\ call = [t \in Threads |-> NoCall]
    /\ queue = [t \in Threads |-> 0]
    /\ sites = [t \in Threads |-> NoSite]
    /\ pending = {} /\ handling = {}
    /\ result = [t \in Threads |-> 0]
    /\ put = [t \in Threads |-> <<>>]
    /\ astray = {} /\ unheard = FALSE /\ changes = 0

-----------------------------------------------------------------------------
(* Reading the kernel. *)

fileOf(t, fd) == descriptors[group[t]][fd]

lowestFree(g, from) == {fd \in Fds : /\ fd >= from /\ descriptors[g][fd] = Closed
                                     /\ \A e \in from .. fd - 1 : descriptors[g][e] # Closed}

\* A live process has a descriptor on this end of the pipe.
pipeHeld(p, toWrite) ==
    \E t \in live, fd \in Fds : fileOf(t, fd) = [pipe |-> p, writable |-> toWrite]

pipeWaiting(p) == Len(pipes[p].buffer)

pipeRoom(p) == pipes[p].capacity - Len(pipes[p].buffer)

-----------------------------------------------------------------------------
(* Waiting calls. *)

\* Everyone that waits on any pipe tries again.
woken == [t \in Threads |-> 0]

wakePipeReaders == queue' = woken /\ unheard' = FALSE

\* The site that a call finds as it starts: its own if it ends where that does, and otherwise none.
entered(t, place) == IF sites[t].place = place THEN sites[t] ELSE NoSite

\* A mutant: the site forgets what was written.
waitOnForgets(t, c, p, written, q) ==
    /\ queue' = [q EXCEPT ![t] = p]
    /\ call' = [call EXCEPT ![t] = c]
    /\ sites' = [sites EXCEPT ![t] = [place |-> c.place, written |-> 0]]
    /\ result' = [result EXCEPT ![t] = 0]

\* The thread waits with its call, in a queue that is `q' but for it.
waitOn(t, c, p, written, q) ==
    /\ queue' = [q EXCEPT ![t] = p]
    /\ call' = [call EXCEPT ![t] = c]
    /\ sites' = [sites EXCEPT ![t] = [place |-> c.place, written |-> written]]
    /\ result' = [result EXCEPT ![t] = 0]

\* The call of a thread is over, with a result, and leaves this site.
return(t, value, site) ==
    /\ call' = [call EXCEPT ![t] = NoCall]
    /\ result' = [result EXCEPT ![t] = value]
    /\ sites' = [sites EXCEPT ![t] = site]

\* A thread can run guest code outside of a handler: a signal is delivered before that.
Runs(t) == t \in live /\ queue[t] = 0 /\ t \notin pending \cup handling

\* A thread runs a call: one that it starts, or the one that it was woken in.
Running(t, c) == Runs(t) /\ (call[t] = c \/ call[t] = NoCall)

\* One more change or signal, of as many as there may be.
Counted == changes < MaxChanges /\ changes' = changes + 1

\* A thread runs a call of the kernel that never waits, after which it has no site.
Brief(t) == /\ Runs(t) /\ call[t] = NoCall
            /\ sites' = [sites EXCEPT ![t] = NoSite]
            /\ result' = [result EXCEPT ![t] = 0]
            /\ put' = [put EXCEPT ![t] = <<>>]
            /\ astray' = astray \ {t}
            /\ UNCHANGED call

-----------------------------------------------------------------------------
(* Signals that a thread is sent, of which the process says what becomes.   *)

\* The process is over: its threads are gone with their waits and sites, and everyone hears of it.
endGroup(g) ==
    LET gone == {t \in live : group[t] = g}
    IN  /\ live' = live \ gone
        /\ pending' = pending \ gone /\ handling' = handling \ gone
        /\ call' = [t \in Threads |-> IF t \in gone THEN NoCall ELSE call[t]]
        /\ sites' = [t \in Threads |-> IF t \in gone THEN NoSite ELSE sites[t]]
        /\ wakePipeReaders

\* SIGPIPE to the thread that runs, whose call ends with `value': ignored, handled or deadly.
brokenPipe(t, value, site) ==
    \/ /\ return(t, value, site)
       /\ wakePipeReaders
       /\ pending' \in {pending, pending \cup {t}}
       /\ UNCHANGED <<live, handling>>
    \/ endGroup(group[t]) /\ UNCHANGED result

\* A handled signal ends the wait of a thread.  A write that wrote some gives that; otherwise
\* the call runs again after a handler of SA_RESTART, or gives EINTR.
interrupted(t, restart) ==
    IF sites[t].written > 0
    THEN return(t, sites[t].written, NoSite)
    ELSE IF restart
    THEN /\ sites' = [sites EXCEPT ![t] = NoSite]
         /\ UNCHANGED <<call, result>>
    ELSE return(t, Failed, NoSite)

\* A signal with a handler is sent to a thread, which is interrupted if it waits.
sendToThread(t, restart) ==
    /\ t \in live
    /\ pending' = pending \cup {t}
    /\ IF queue[t] # 0 THEN interrupted(t, restart) ELSE UNCHANGED <<call, result, sites>>
    /\ Counted
    /\ UNCHANGED <<group, live, kernel, handling, put, astray>>

\* By a timer, a terminal, a tracer or a queue: everyone that waits on a pipe then tries again.
send(t, restart) == sendToThread(t, restart) /\ wakePipeReaders

\* By a thread of the guest, with kill, tgkill, tkill or rt_sigqueueinfo, or as SIGCHLD: only who is
\* sent it waits no more.
kill(t, restart) ==
    /\ sendToThread(t, restart)
    /\ queue' = [queue EXCEPT ![t] = 0]
    /\ UNCHANGED unheard

\* A signal that its process ignores is sent: those who wait try again all the same.
sendIgnored ==
    /\ \E t \in Threads : queue[t] # 0
    /\ wakePipeReaders
    /\ Counted
    /\ UNCHANGED <<group, live, kernel, call, sites, signals, result, put, astray>>

\* A thread that runs now takes the signal: it runs the handler, where it was comes after.
deliver(t) ==
    /\ t \in pending \ handling /\ queue[t] = 0
    /\ pending' = pending \ {t} /\ handling' = handling \cup {t}
    /\ UNCHANGED <<changes, group, live, kernel, call, queue, sites, result, history>>

\* The handler makes a call of the kernel, at a place of its own.
handlerCall(t) ==
    /\ t \in handling
    /\ sites[t] # NoSite
    /\ sites' = [sites EXCEPT ![t] = entered(t, Nowhere)]
    /\ astray' = IF call[t] # NoCall /\ sites[t].written > 0 THEN astray \cup {t} ELSE astray
    /\ UNCHANGED <<changes, group, live, kernel, call, queue, signals, result, put, unheard>>

\* The handler returns: the signals serve that, and no site is looked at.
sigreturn(t) ==
    /\ t \in handling
    /\ handling' = handling \ {t}
    /\ UNCHANGED <<changes, group, live, kernel, call, queue, sites, pending, result, history>>

-----------------------------------------------------------------------------
(* Writes. *)

\* The descriptor is not open, or not to write.
writeError(t, c) == fileOf(t, c.fd) = Closed \/ ~fileOf(t, c.fd).writable

\* The write may wait.
mayWait(t, c) == fileOf(t, c.fd) \notin nonblock

\* What the call wrote before it waited, as its site has it; a write that may not wait does not ask.
done(t, c) == IF mayWait(t, c) THEN entered(t, c.place).written ELSE 0

\* What is left of it, in natural numbers.
rest(t, c) == IF c.count > done(t, c) THEN c.count - done(t, c) ELSE 0

piece(t, c) == Min({pipeRoom(fileOf(t, c.fd).pipe), rest(t, c)})

\* A mutant: a short write is cut as a long one is.
noRoomAtAll(t, c) == piece(t, c) < rest(t, c) /\ piece(t, c) = 0

\* No room for what has to go in at once: all of a write of at most PIPE_BUF bytes, and
\* something of a longer one.
noRoom(t, c) == /\ piece(t, c) < rest(t, c)
                /\ piece(t, c) = 0 \/ c.count <= PipeBuf

\* The site that a write leaves as it ends: only one that may wait finishes it.
siteAfter(t, c) == IF mayWait(t, c) THEN NoSite ELSE entered(t, c.place)

\* The bytes of the call that were put before this run of it.
Before(t) == IF call[t] = NoCall THEN <<>> ELSE put[t]

\* The site says something else than what the call did: it is of a call before it, or the call
\* runs again on a descriptor that is gone or does not wait any more.
Strays(t, c) ==
    LET written == entered(t, c.place).written
    IN  IF call[t] = NoCall THEN written > 0
        ELSE t \in astray \/ (written > 0 /\ (writeError(t, c) \/ ~mayWait(t, c)))

writeRefused(t, c) ==
    /\ writeError(t, c)
    /\ return(t, Failed, entered(t, c.place))
    /\ put' = [put EXCEPT ![t] = Before(t)]
    /\ UNCHANGED <<live, pipes, queue, signals, unheard>>

\* Nothing reads the pipe any more.
writeBroken(t, c) ==
    /\ ~writeError(t, c)
    /\ ~pipeHeld(fileOf(t, c.fd).pipe, FALSE)
    /\ IF done(t, c) = 0 THEN brokenPipe(t, Failed, entered(t, c.place))
       ELSE brokenPipe(t, done(t, c), siteAfter(t, c))
    /\ put' = [put EXCEPT ![t] = Before(t)]
    /\ UNCHANGED pipes

\* There is a reader, and the write has to wait for room.
writeWaits(t, c) ==
    /\ ~writeError(t, c)
    /\ pipeHeld(fileOf(t, c.fd).pipe, FALSE)
    /\ noRoom(t, c)
    /\ IF mayWait(t, c)
       THEN waitOn(t, c, fileOf(t, c.fd).pipe, done(t, c), queue)
       ELSE return(t, Failed, entered(t, c.place)) /\ UNCHANGED queue
    /\ put' = [put EXCEPT ![t] = Before(t)]
    /\ UNCHANGED <<live, pipes, signals, unheard>>

\* The bytes of the next piece can't be read from the memory of the guest.
writeFaults(t, c) ==
    /\ ~writeError(t, c)
    /\ pipeHeld(fileOf(t, c.fd).pipe, FALSE)
    /\ ~noRoom(t, c)
    /\ IF done(t, c) > 0
       THEN return(t, done(t, c), siteAfter(t, c))
       ELSE return(t, Failed, entered(t, c.place))
    /\ put' = [put EXCEPT ![t] = Before(t)]
    /\ UNCHANGED <<live, pipes, queue, signals, unheard>>

\* A piece goes in, everyone is woken, and the write waits for room for the rest, if there is any.
writePiece(t, c) ==
    LET p     == fileOf(t, c.fd).pipe
        after == done(t, c) + piece(t, c)
    IN  /\ ~writeError(t, c)
        /\ pipeHeld(p, FALSE)
        /\ ~noRoom(t, c)
        /\ pipes' = [pipes EXCEPT ![p].buffer = @ \o [i \in 1 .. piece(t, c) |->
                        [by |-> t, of |-> c.count, at |-> done(t, c) + i]]]
        /\ put' = [put EXCEPT ![t] = IF ~IsInjective(Before(t)) THEN @
                                     ELSE Before(t) \o [i \in 1 .. piece(t, c) |-> done(t, c) + i]]
        /\ IF after = c.count \/ ~mayWait(t, c)
           THEN return(t, after, siteAfter(t, c)) /\ queue' = woken
           ELSE waitOn(t, c, p, after, woken)
        /\ unheard' = FALSE
        /\ UNCHANGED <<live, signals>>

write(t, c) ==
    /\ c.op = "write"
    /\ Running(t, c)
    /\ \/ writeRefused(t, c)
       \/ writeBroken(t, c)
       \/ writeWaits(t, c)
       \/ writeFaults(t, c)
       \/ writePiece(t, c)
    /\ astray' = IF Strays(t, c) THEN astray \cup {t} ELSE astray \ {t}
    /\ UNCHANGED <<changes, group, descriptors, nonblock>>

-----------------------------------------------------------------------------
(* Reads. *)

\* A read finds nothing where something may still be written.
waitForPipe(t, c) ==
    LET p == fileOf(t, c.fd).pipe
    IN  /\ fileOf(t, c.fd) # Closed
        /\ pipeWaiting(p) = 0
        /\ pipeHeld(p, TRUE)

readWaits(t, c) ==
    /\ waitForPipe(t, c)
    /\ IF fileOf(t, c.fd) \in nonblock
       THEN return(t, Failed, NoSite) /\ UNCHANGED queue
       ELSE waitOn(t, c, fileOf(t, c.fd).pipe, 0, queue)
    /\ UNCHANGED <<pipes, unheard>>

readRefused(t, c) ==
    /\ ~waitForPipe(t, c)
    /\ fileOf(t, c.fd) = Closed \/ fileOf(t, c.fd).writable
    /\ return(t, Failed, NoSite)
    /\ UNCHANGED <<pipes, queue, unheard>>

\* A mutant: a read wakes nobody.
readIntoQuietly(t, c) ==
    LET p      == fileOf(t, c.fd).pipe
        buffer == pipes[p].buffer
        size   == Min({c.count, Len(buffer)})
    IN  /\ ~waitForPipe(t, c)
        /\ fileOf(t, c.fd) # Closed /\ ~fileOf(t, c.fd).writable
        /\ pipes' = [pipes EXCEPT ![p].buffer = SubSeq(buffer, size + 1, Len(buffer))]
        /\ UNCHANGED <<queue, unheard>>
        /\ return(t, 0, NoSite)

\* What is first in the pipe goes, and whoever waits for room has some.  A fault as it is
\* handed over doesn't bring it back.
readInto(t, c) ==
    LET p      == fileOf(t, c.fd).pipe
        buffer == pipes[p].buffer
        size   == Min({c.count, Len(buffer)})
    IN  /\ ~waitForPipe(t, c)
        /\ fileOf(t, c.fd) # Closed /\ ~fileOf(t, c.fd).writable
        /\ pipes' = [pipes EXCEPT ![p].buffer = SubSeq(buffer, size + 1, Len(buffer))]
        /\ IF size > 0 THEN wakePipeReaders ELSE UNCHANGED <<queue, unheard>>
        /\ return(t, 0, NoSite)

read(t, c) ==
    /\ c.op = "read"
    /\ Running(t, c)
    /\ \/ readWaits(t, c)
       \/ readRefused(t, c)
       \/ readInto(t, c)
    /\ put' = [put EXCEPT ![t] = <<>>]
    /\ astray' = astray \ {t}
    /\ UNCHANGED <<changes, group, live, descriptors, nonblock, signals>>

-----------------------------------------------------------------------------
(* Descriptors and processes. *)

pipe(t, flag) ==
    LET p == Cardinality(DOMAIN pipes) + 1
        g == group[t]
    IN  /\ Brief(t)
        /\ p <= MaxPipes
        /\ \E r \in lowestFree(g, 0) : \E w \in lowestFree(g, r + 1) :
              descriptors' = [descriptors EXCEPT ![g][r] = [pipe |-> p, writable |-> FALSE],
                                                 ![g][w] = [pipe |-> p, writable |-> TRUE]]
        /\ pipes' = Append(pipes, [buffer |-> <<>>, capacity |-> Capacity])
        /\ nonblock' = IF flag THEN nonblock \cup [pipe : {p}, writable : BOOLEAN] ELSE nonblock
        /\ UNCHANGED <<changes, group, live, queue, signals, unheard>>

\* Closing what is not open is an error that wakes everyone too.
close(t, fd) ==
    /\ Brief(t)
    /\ descriptors' = [descriptors EXCEPT ![group[t]][fd] = Closed]
    /\ wakePipeReaders
    /\ Counted
    /\ UNCHANGED <<group, live, nonblock, pipes, signals>>

dup(t, fd) ==
    /\ Brief(t)
    /\ fileOf(t, fd) # Closed
    /\ \E to \in lowestFree(group[t], 0) :
          descriptors' = [descriptors EXCEPT ![group[t]][to] = fileOf(t, fd)]
    /\ Counted
    /\ UNCHANGED <<group, live, nonblock, pipes, queue, signals, unheard>>

dupTo(t, fd, target) ==
    descriptors' = IF fileOf(t, fd) = Closed THEN descriptors
                   ELSE [descriptors EXCEPT ![group[t]][target] = fileOf(t, fd)]

dup2(t, fd, target) ==
    /\ Brief(t)
    /\ dupTo(t, fd, target)
    /\ wakePipeReaders
    /\ Counted
    /\ UNCHANGED <<group, live, nonblock, pipes, signals>>

\* dup3 replaces as dup2 does, refuses a descriptor to itself, and wakes nobody.
dup3(t, fd, target) ==
    /\ Brief(t)
    /\ fd # target
    /\ dupTo(t, fd, target)
    /\ unheard' = (unheard \/ fileOf(t, fd) # Closed)
    /\ Counted
    /\ UNCHANGED <<group, live, nonblock, pipes, queue, signals>>

\* fcntl with F_SETFL, of O_NONBLOCK, which wakes nobody.
setFlags(t, fd, flag) ==
    /\ Brief(t)
    /\ fileOf(t, fd) # Closed
    /\ nonblock' = IF flag THEN nonblock \cup {fileOf(t, fd)} ELSE nonblock \ {fileOf(t, fd)}
    /\ unheard' = TRUE
    /\ Counted
    /\ UNCHANGED <<group, live, descriptors, pipes, queue, signals>>

\* A mutant: the pipe may be made smaller than what it holds.
setPipeSizeUnchecked(t, fd, size) ==
    /\ Brief(t)
    /\ fileOf(t, fd) # Closed
    /\ pipes' = [pipes EXCEPT ![fileOf(t, fd).pipe].capacity = size]
    /\ unheard' = TRUE
    /\ Counted
    /\ UNCHANGED <<group, live, descriptors, nonblock, queue, signals>>

\* fcntl with F_SETPIPE_SZ: not less than it holds; this wakes nobody.
setPipeSize(t, fd, size) ==
    /\ Brief(t)
    /\ fileOf(t, fd) # Closed
    /\ pipeWaiting(fileOf(t, fd).pipe) <= size
    /\ pipes' = [pipes EXCEPT ![fileOf(t, fd).pipe].capacity = size]
    /\ unheard' = TRUE
    /\ Counted
    /\ UNCHANGED <<group, live, descriptors, nonblock, queue, signals>>

\* A thread makes another of its process, or a process with copies of its descriptors.  The
\* emulator serves this, not the kernel, and no site is looked at.
clone(t, child, thread) ==
    LET g == IF thread THEN group[t] ELSE child
    IN  /\ Runs(t) /\ call[t] = NoCall
        /\ group[child] = Nobody
        /\ group' = [group EXCEPT ![child] = g]
        /\ live' = live \cup {child}
        /\ descriptors' = [descriptors EXCEPT ![g] = descriptors[group[t]]]
        /\ UNCHANGED <<changes, nonblock, pipes, call, queue, sites, signals, result, history>>

\* What was told and noted of threads that are gone is forgotten: their ids are not used again.
Forgotten(gone) ==
    /\ result' = [t \in Threads |-> IF t \in gone THEN 0 ELSE result[t]]
    /\ put' = [t \in Threads |-> IF t \in gone THEN <<>> ELSE put[t]]
    /\ astray' = astray \ gone

\* A thread exits, its process goes on.
exitThread(t) ==
    /\ Runs(t) /\ call[t] = NoCall
    /\ \E u \in live \ {t} : group[u] = group[t]
    /\ live' = live \ {t}
    /\ sites' = [sites EXCEPT ![t] = NoSite]
    /\ Forgotten({t})
    /\ UNCHANGED <<changes, group, kernel, call, queue, signals, unheard>>

\* A process ends: by exit_group, by exit of its last thread, or of a signal sent by anyone.
endProcess(g) ==
    /\ \E t \in live : group[t] = g
    /\ endGroup(g)
    /\ Forgotten({t \in live : group[t] = g})
    /\ UNCHANGED <<changes, group, kernel>>

Next ==
    \/ \E t \in Threads :
        \/ \E restart \in BOOLEAN : send(t, restart) \/ kill(t, restart)
        \/ deliver(t) \/ handlerCall(t) \/ sigreturn(t)
        \/ \E c \in Call : read(t, c) \/ write(t, c)
        \/ \E flag \in BOOLEAN : pipe(t, flag)
        \/ \E fd \in Fds : close(t, fd) \/ dup(t, fd)
        \/ \E fd, target \in Fds : dup2(t, fd, target) \/ dup3(t, fd, target)
        \/ \E fd \in Fds, flag \in BOOLEAN : setFlags(t, fd, flag)
        \/ \E fd \in Fds, size \in Sizes : setPipeSize(t, fd, size)
        \/ \E child \in Threads, thread \in BOOLEAN : clone(t, child, thread)
        \/ exitThread(t) \/ endProcess(t)
    \/ sendIgnored

Spec == Init /\ [][Next]_vars

-----------------------------------------------------------------------------
(* Properties. *)

\* The call of a thread that waits would wait if it ran now.
WouldWait(t, c) ==
    IF c.op = "read" THEN waitForPipe(t, c) /\ fileOf(t, c.fd) \notin nonblock
    ELSE /\ ~writeError(t, c) /\ mayWait(t, c)
         /\ pipeHeld(fileOf(t, c.fd).pipe, FALSE)
         /\ noRoom(t, c)

\* Whoever waits on a pipe has reason to: its call could do nothing if it ran now.  So every
\* change that lets a call go on (bytes, room, the end of the last reader or writer, a
\* descriptor closed or replaced) is followed by wakePipeReaders, but for dup3, F_SETFL and
\* F_SETPIPE_SZ, which wake nobody (Machine.lean:1381, 1395, 1396).
NoneWaitsInVain ==
    \A t \in Threads : queue[t] # 0 /\ ~unheard /\ t \notin astray => WouldWait(t, call[t])

\* How many bytes a write has told, or has to tell when it ends: what its site says while it
\* waits or is about to run again, its result once it is over, none of an error.
Told(t) == IF call[t] # NoCall THEN sites[t].written
           ELSE IF result[t] > 0 THEN result[t] ELSE 0

\* A write tells exactly what it put: at any time the bytes of the call that are in the pipe are
\* its first ones, in order and each once, as many as its site says and its result will say,
\* through waits, wakes, signals, faults and the end of the readers (writePipe, interrupted).
\* The exceptions are the threads in `astray'.
HonestWrites ==
    \A t \in live \ astray : put[t] = [i \in 1 .. Told(t) |-> i]

\* A write of at most PIPE_BUF bytes is never cut nor mixed with others: in the pipe each byte
\* of it is followed by the next until its last, whoever else writes (writePipe, Kernel.pipeBuf).
SmallWritesWhole ==
    \A p \in DOMAIN pipes : \A i \in 1 .. pipeWaiting(p) :
        LET byte == pipes[p].buffer[i]
        IN  byte.of <= PipeBuf /\ byte.at < byte.of =>
                /\ i < pipeWaiting(p)
                /\ pipes[p].buffer[i + 1] = [byte EXCEPT !.at = @ + 1]

\* What Site.written says of a write that waits: what it wrote it does not write again.
WrittenOnce == \A t \in Threads : IsInjective(put[t])

=============================================================================

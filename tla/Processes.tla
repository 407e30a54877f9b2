----------------------------- MODULE Processes -----------------------------
(***************************************************************************)
(* What the tasks of the emulator promise of processes, which is what      *)
(* fork, exit and waitpid are to a program: a process has one parent, it   *)
(* ends once, its children then go to the first process, and it is gone    *)
(* only once it has ended and its parent, which has not, has asked for it. *)
(* Ids are never used twice.  Threads, queues and the scheduler are not    *)
(* here: Tasks implements this.                                            *)
(***************************************************************************)
EXTENDS Naturals

CONSTANT MaxTid

VARIABLES
    procs,      \* the processes there are: id -> [parent, over]
    last        \* the highest id in use so far

First == 1
Orphan == 0     \* the parent of the first process

Init ==
    /\ procs = [p \in {First} |-> [parent |-> Orphan, over |-> FALSE]]
    /\ last = First

Running(p) == p \in DOMAIN procs /\ ~procs[p].over

\* The id goes to a thread.
Thread ==
    /\ last < MaxTid
    /\ last' = last + 1
    /\ UNCHANGED procs

\* p has a child.
Fork(p) ==
    /\ Running(p)
    /\ last < MaxTid
    /\ last' = last + 1
    /\ procs' = [q \in DOMAIN procs \cup {last + 1} |->
                    IF q = last + 1 THEN [parent |-> p, over |-> FALSE] ELSE procs[q]]

\* p is over.
End(p) ==
    /\ Running(p)
    /\ procs' = [q \in DOMAIN procs |->
                    [parent |-> IF procs[q].parent = p THEN First ELSE procs[q].parent,
                     over   |-> procs[q].over \/ q = p]]
    /\ UNCHANGED last

\* The parent of p is told that it is over.
Reap(p) ==
    /\ p \in DOMAIN procs
    /\ procs[p].over
    /\ Running(procs[p].parent)
    /\ procs' = [q \in DOMAIN procs \ {p} |-> procs[q]]
    /\ UNCHANGED last

Next == Thread \/ \E p \in 1 .. MaxTid : Fork(p) \/ End(p) \/ Reap(p)

Spec == Init /\ [][Next]_<<procs, last>>
=============================================================================

------------------------------ MODULE History ------------------------------
(***************************************************************************)
(* A machine that keeps a history, to step back: Machine.run, save,        *)
(* restore, keepHistory and stepBack of Bap/Linux/Machine.lean over the    *)
(* turns of runPreemptive (Bap/Emu.lean) and scheduleLoop                  *)
(* (Bap/Emu/Tasks.lean).                                                   *)
(*                                                                         *)
(* What the machine is, its memory, registers and kernel, is all that      *)
(* happened to it: the threads that ran its instructions, in order, and    *)
(* what the host changed.  Its threads can always run; how they block is   *)
(* in Tasks.                                                               *)
(***************************************************************************)
EXTENDS Naturals, Sequences, FiniteSetsExt, SequencesExt

CONSTANTS
    N,              \* the number of threads
    Quanta,         \* the quanta that Machine.run is given
    Fuels,          \* the fuel that it is given
    Everys,         \* what keepHistory is given: how far apart states are kept
    Limits,         \* and how many
    Counts,         \* the instructions that stepBack is asked to undo
    TurnsInPiece,   \* the turns that a piece of a run has at most: 64
    Faults,         \* after so many events the next instruction faults, and is handled
    Models,         \* the models of the runtime that the host may attach
    Host,           \* what the host changed, in what happened
    NoHistory,      \* the machine keeps no history, or nothing was saved
    MaxDid          \* bound on what happens to the machine

ASSUME HistoryAssumption ==
    /\ N \in Nat \ {0}
    /\ Quanta \subseteq Nat \ {0}
    /\ Fuels \subseteq Nat
    /\ Everys \subseteq Nat
    /\ Limits \subseteq Nat
    /\ Counts \subseteq Nat \ {0}
    /\ TurnsInPiece \in Nat \ {0}
    /\ Faults \subseteq Nat
    /\ MaxDid \in Nat
    /\ Host \notin 1 .. N

VARIABLES
    machine,    \* what it is: [did, cur, turnUsed, models]
    history,    \* [every, limit, position, saved], or NoHistory
    slot,       \* what the host saved: [kept, history, past], or NoHistory
    mode,       \* "idle", "run" or "again", while stepBack runs instructions again
    quantum,    \* of the run
    left,       \* fuel that the run has left, from the start of the piece
    since,      \* fuel since the last place where `every' ends a piece
    piece,      \* fuel of the piece
    fuel,       \* fuel of the piece that is left
    steps,      \* instructions of this call of runPreemptive, which are not yet counted
    apart,      \* instructions since what was kept last, which a run counts
    target,     \* the position that stepBack goes to
    past        \* history variable: what the machine was after each instruction since it keeps
                \* a history, and what it is to be now last

running == <<quantum, left, since, piece, fuel, steps, apart, target>>
vars    == <<machine, history, slot, mode, running, past>>

Keeps == history # NoHistory

Smaller(a, b) == IF a < b THEN a ELSE b
Larger(a, b)  == IF a > b THEN a ELSE b

-----------------------------------------------------------------------------
(* What is kept. *)

\* Mutant: what is left of the turn is not kept.
keep_NoTurn(m) == [m EXCEPT !.turnUsed = 0]

\* What the machine is, to go back to.
keep(m) == m

\* Mutant: one more than the limit stays.
push_All(h, m, q) ==
    LET saved == Append(h.saved, [at |-> h.position, quantum |-> q, kept |-> keep(m)])
    IN  [h EXCEPT !.saved = IF Len(saved) > h.limit + 1 THEN Tail(saved) ELSE saved]

\* The history with what the machine is, of which the latest `limit' stay.
push(h, m, q) ==
    LET saved == Append(h.saved, [at |-> h.position, quantum |-> q, kept |-> keep(m)])
    IN  [h EXCEPT !.saved = IF Len(saved) > h.limit
                            THEN SubSeq(saved, Len(saved) - h.limit + 1, Len(saved))
                            ELSE saved]

\* Without what it kept at this very place, which the host may have changed since.
refreshed(h) ==
    IF h.saved # <<>> /\ Last(h.saved).at = h.position
    THEN [h EXCEPT !.saved = Front(h.saved)]
    ELSE h

\* A history that has nothing yet.
fresh(every, limit) == [every |-> every, limit |-> limit, position |-> 0, saved |-> <<>>]

\* What is kept can go back only if each model that is attached has its state in it.
Restorable(kept) == machine.models \subseteq kept.models

\* restoreKept: the models that are attached stay, with the state that they had.
restoreKept(kept) == [kept EXCEPT !.models = machine.models]

-----------------------------------------------------------------------------
(* Running. *)

\* What a run and a step back have for themselves is gone.
RunIsOver ==
    /\ quantum' = 1
    /\ left' = 0 /\ since' = 0 /\ piece' = 0 /\ fuel' = 0
    /\ steps' = 0 /\ apart' = 0 /\ target' = 0

\* The fuel of the next piece: it ends where `every' says from where the run starts.
pieceOf(l, s, q, every) == Smaller(l, Smaller(TurnsInPiece * q, every - s))

\* Where the run without a history ends its pieces.
everyOf(h, q) == IF h = NoHistory THEN TurnsInPiece * q ELSE h.every

StartPiece(l, s, q, every) ==
    /\ left' = l
    /\ since' = s
    /\ piece' = pieceOf(l, s, q, every)
    /\ fuel' = pieceOf(l, s, q, every)
    /\ steps' = 0

\* Machine.run: what the machine is when it starts is kept.
run(q, f) ==
    /\ mode = "idle"
    /\ mode' = "run"
    /\ quantum' = q
    /\ history' = IF Keeps THEN push(refreshed(history), machine, q) ELSE history
    /\ StartPiece(f, 0, q, everyOf(history, q))
    /\ apart' = 0
    /\ UNCHANGED <<machine, slot, target, past>>

\* The machine after its next instruction: a turn that is over has the next thread come.
ranNext(m, q) ==
    LET over == m.turnUsed >= q
        cur  == IF over THEN (m.cur % N) + 1 ELSE m.cur
    IN  [m EXCEPT !.did = Append(@, cur), !.cur = cur,
                  !.turnUsed = IF over THEN 1 ELSE @ + 1]

Remember(m) == past' = IF mode = "again" THEN past ELSE IF Keeps THEN Append(past, m) ELSE <<m>>

\* An instruction of a turn.  What a call of runPreemptive ran is counted when it returns.
instruction ==
    /\ mode # "idle"
    /\ steps < fuel
    /\ Len(machine.did) \notin Faults
    /\ Len(machine.did) < MaxDid
    /\ machine' = ranNext(machine, quantum)
    /\ steps' = steps + 1
    /\ Remember(machine')
    /\ UNCHANGED <<history, slot, mode, quantum, left, since, piece, fuel, apart, target>>

\* A guest faults, and its handler runs or its process is over.  The call of runPreemptive
\* throws, what it ran is forgotten with the turn, and it counts as one instruction.
faulty ==
    /\ mode # "idle"
    /\ steps < fuel
    /\ Len(machine.did) \in Faults
    /\ Len(machine.did) < MaxDid
    /\ machine' = [ranNext(machine, quantum) EXCEPT !.turnUsed = 0]
    /\ steps' = 0
    /\ fuel' = fuel - 1
    /\ Remember(machine')
    /\ UNCHANGED <<history, slot, mode, quantum, left, since, piece, apart, target>>

\* The instructions of a piece that have been counted, where its fuel is used up or it stops.
Ran == piece - fuel + steps

\* Mutant: a state is kept one instruction too late.
advanced_Late(h, m, q, ran, whole) ==
    LET moved == [h EXCEPT !.position = @ + ran]
    IN  IF whole /\ apart + ran > h.every THEN push(moved, m, q) ELSE moved

\* The history after a piece, which is kept where it has run `every' instructions.
advanced(h, m, q, ran, whole) ==
    LET moved == [h EXCEPT !.position = @ + ran]
    IN  IF whole /\ apart + ran >= h.every THEN push(moved, m, q) ELSE moved

\* A breakpoint or the host stops a thread, which ends the run and the turn.  When it runs
\* again, breakpoints are muted.
stops ==
    /\ mode = "run"
    /\ mode' = "idle"
    /\ machine' = [machine EXCEPT !.turnUsed = 0]
    /\ history' = IF Keeps THEN advanced(history, machine, quantum, Ran, FALSE) ELSE history
    /\ past' = [past EXCEPT ![Len(past)] = machine']
    /\ RunIsOver
    /\ UNCHANGED slot

\* The last kept state that is not after the place.
indexOf(h, place) == Max({i \in 1 .. Len(h.saved) : h.saved[i].at <= place})

\* stepBack is done.  What came after is what may not happen again.
Back(h, place) == [h EXCEPT !.position = place, !.saved = SubSeq(@, 1, indexOf(h, place))]

\* A piece ends where its fuel is used up, and the next follows if the run has fuel left.
pieceEnds ==
    /\ mode # "idle"
    /\ steps = fuel
    /\ LET every == everyOf(history, quantum)
           s     == IF since + piece >= every THEN 0 ELSE since + piece
           kept  == mode = "run" /\ Keeps /\ apart + Ran >= every
       IN  \/ /\ left <= piece
              /\ mode' = "idle"
              /\ RunIsOver
           \/ /\ left > piece
              /\ StartPiece(left - piece, s, quantum, every)
              /\ apart' = IF kept THEN 0 ELSE apart + Ran
              /\ UNCHANGED <<mode, quantum, target>>
    /\ history' = IF ~Keeps THEN history
                  ELSE IF mode = "run" THEN advanced(history, machine, quantum, Ran, TRUE)
                  ELSE IF left <= piece THEN Back(history, target)
                  ELSE history
    /\ UNCHANGED <<machine, slot, past>>

-----------------------------------------------------------------------------
(* What the host does between runs. *)

\* Bound: the host has changed nothing yet.
Untouched == machine.models = {} /\ Host \notin Range(machine.did)

\* Memory or registers are written.
hostWrites ==
    /\ mode = "idle"
    /\ Untouched
    /\ Len(machine.did) < MaxDid
    /\ machine' = [machine EXCEPT !.did = Append(@, Host)]
    /\ past' = [past EXCEPT ![Len(past)] = machine']
    /\ UNCHANGED <<history, slot, mode, running>>

\* attachModel: no two models have one id.
attach(model) ==
    /\ mode = "idle"
    /\ Untouched
    /\ model \notin machine.models
    /\ machine' = [machine EXCEPT !.models = @ \cup {model}]
    /\ past' = [past EXCEPT ![Len(past)] = machine']
    /\ UNCHANGED <<history, slot, mode, running>>

\* What was kept before goes, and the position is 0.
keepHistory(every, limit) ==
    /\ mode = "idle"
    /\ history' = fresh(Larger(every, 1), Larger(limit, 1))
    /\ past' = <<machine>>
    /\ UNCHANGED <<machine, slot, mode, running>>

\* Bound: what was saved first stays.
save ==
    /\ mode = "idle"
    /\ slot = NoHistory
    /\ slot' = [kept |-> keep(machine), history |-> history, past |-> past]
    /\ UNCHANGED <<machine, history, mode, running, past>>

\* The machine is what it was saved as, and has the history that it had then.
restore ==
    /\ mode = "idle"
    /\ slot # NoHistory
    /\ Restorable(slot.kept)
    /\ machine' = restoreKept(slot.kept)
    /\ history' = IF ~Keeps THEN NoHistory
                  ELSE IF slot.history # NoHistory THEN slot.history
                  ELSE fresh(history.every, history.limit)
    /\ past' = IF Keeps /\ slot.history # NoHistory THEN slot.past ELSE <<machine'>>
    /\ UNCHANGED <<slot, mode, running>>

\* stepBack goes to what was kept last before the place, and runs the rest again.
stepBack(count) ==
    /\ mode = "idle"
    /\ Keeps
    /\ history.saved # <<>>
    /\ count <= history.position
    /\ history.position - count >= history.saved[1].at
    /\ LET place == history.position - count
           index == indexOf(history, place)
           from  == history.saved[index]
       IN  /\ Restorable(from.kept)
           /\ machine' = restoreKept(from.kept)
           /\ \/ /\ place > from.at
                 /\ mode' = "again"
                 /\ target' = place
                 /\ quantum' = from.quantum
                 /\ StartPiece(place - from.at, 0, from.quantum, history.every)
                 /\ apart' = 0
                 /\ UNCHANGED history
              \/ /\ place = from.at
                 /\ history' = Back(history, place)
                 /\ UNCHANGED <<mode, running>>
    /\ past' = IF count < Len(past) THEN SubSeq(past, 1, Len(past) - count) ELSE <<Head(past)>>
    /\ UNCHANGED slot

-----------------------------------------------------------------------------
Init ==
    /\ machine = [did |-> <<>>, cur |-> 1, turnUsed |-> 0, models |-> {}]
    /\ history = NoHistory
    /\ slot = NoHistory
    /\ mode = "idle"
    /\ quantum = 1
    /\ left = 0 /\ since = 0 /\ piece = 0 /\ fuel = 0
    /\ steps = 0 /\ apart = 0 /\ target = 0
    /\ past = <<machine>>

Next ==
    \/ \E q \in Quanta, f \in Fuels : run(q, f)
    \/ instruction
    \/ faulty
    \/ stops
    \/ pieceEnds
    \/ hostWrites
    \/ \E model \in Models : attach(model)
    \/ \E every \in Everys, limit \in Limits : keepHistory(every, limit)
    \/ save
    \/ restore
    \/ \E count \in Counts : stepBack(count)

Spec == Init /\ [][Next]_vars

-----------------------------------------------------------------------------
(* What holds. *)

Machines == [did : Seq(1 .. N \cup {Host}), cur : 1 .. N, turnUsed : Nat, models : SUBSET Models]
Histories == [every : Nat \ {0}, limit : Nat \ {0}, position : Nat,
              saved : Seq([at : Nat, quantum : Nat \ {0}, kept : Machines])]

\* No history is not taken for one.
ASSUME NoHistoryAssumption == NoHistory \notin Histories

\* The state has its type, and no more is kept than the limit says.
TypeOK ==
    /\ machine \in Machines
    /\ Keeps => history \in Histories /\ Len(history.saved) <= history.limit
    /\ slot # NoHistory => slot.kept \in Machines
    /\ mode \in {"idle", "run", "again"}
    /\ quantum \in Nat \ {0}
    /\ \A count \in {left, since, piece, fuel, steps, apart, target} : count \in Nat
    /\ steps <= fuel /\ fuel <= piece
    /\ past \in Seq(Machines) /\ past # <<>>

\* Machine.stepBack undoes the last instructions as if they had never run: between runs,
\* whatever was run, changed, saved, restored and undone, the machine is what it was after
\* the instructions that are left, down to what is left of the turn.
StepsBack == mode = "idle" => machine = Last(past)

\* A step back runs again at most `every' instructions, as keepHistory says, however runs
\* were stopped and whatever was undone before.
RunsAgainLittle == mode = "again" => left <= history.every

\* What stepBack looks through is in order, with one state for each place and none after
\* where the machine is, so that what it finds is what the last run there started with.
KeptInOrder ==
    Keeps => /\ \A i, j \in 1 .. Len(history.saved) :
                    i < j => history.saved[i].at < history.saved[j].at
             /\ \A i \in 1 .. Len(history.saved) : history.saved[i].at <= history.position
=============================================================================

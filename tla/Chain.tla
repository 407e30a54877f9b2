------------------------------- MODULE Chain -------------------------------
(***************************************************************************)
(* Runs of compiled ranges that go on in native code from one to the next, *)
(* bap_jit_run_chain of native/bap_jit.cpp, as Bap/Primus/Lifted.lean      *)
(* starts them.  What a range computes is free here: it writes what it may *)
(* write, enters as many blocks as its budget lets it, and goes anywhere.  *)
(* The observers of a run are taken to leave the chain as it is.           *)
(***************************************************************************)
EXTENDS Naturals, FiniteSets

CONSTANTS
    Pcs,            \* where ranges start, and where they go
    Variables,      \* the variables of the state, by their numbers
    Values,         \* what one may hold
    Ranges,         \* what is compiled, by its bytes and its lowering
    Had,            \* how many times it may have run when it is made or found among the versions
    OptimizeFrom,   \* optimizeFrom: the executions from which a range is optimized
    OptimizeCheck,  \* optimizeCheck: how many more it runs while it is
    MaxBudget,      \* bound: the blocks that a run may enter after its first
    MaxRuns,        \* bound: the runs in the chain, after which there is nothing more
    MaxObjects,     \* bound: the entries that a run which is not in the chain may make
    MaxCount,       \* bound: the executions that such a run may count to
    None

\* A range, or a block alone: where it starts, whether it goes in the chain at all, whether its
\* optimized program has its variables in the registers of the chain, what has to be bound for it,
\* its outputs, which of them are only written if a flag says so, and a code site where it may
\* stop, with its outputs there.
ChainRange == [at : Pcs, chains : BOOLEAN, direct : BOOLEAN, needs : SUBSET Variables,
               outputs : SUBSET Variables, flagged : SUBSET Variables,
               stop : Pcs \cup {None}, atStop : SUBSET Variables]

\* What is compiled of it, with optimization or without.
ProgramOf(r, improved) ==
    [range |-> r, improved |-> improved, at |-> r.at, direct |-> improved /\ r.direct,
     needs |-> r.needs, outputs |-> r.outputs, flagged |-> r.flagged, stop |-> r.stop, atStop |-> r.atStop]

\* What Lean keeps of it (CachedBlock): whether it is not to be optimized any more, and whether
\* its program is the optimized one.
CachedBlock == {[optimized |-> TRUE,  improved |-> TRUE],
                [optimized |-> TRUE,  improved |-> FALSE],
                [optimized |-> FALSE, improved |-> FALSE]}

ASSUME RangesAssumption ==
    \A r \in Ranges : r \in ChainRange /\ r.flagged \subseteq r.outputs /\ r.atStop \subseteq r.outputs

ASSUME ChainAssumption ==
    /\ OptimizeFrom \in Nat \ {0} /\ OptimizeCheck \in Nat /\ MaxBudget \in Nat
    /\ Had \subseteq Nat \ {0}
    /\ None \notin Nat /\ None \notin Values /\ None \notin Ranges /\ None \notin CachedBlock

VARIABLES
    chain,          \* Chain::entries
    objects,        \* how many entries have been made, as no two are one object
    run,            \* Chain::run
    cached,         \* what Lean has of each range, or None (Engine.ranges, Engine.cache)
    counts,         \* how many times each ran, as Lean counts (CachedBlock.executions)
    optimizing,     \* for each pc, what is compiled in the background there, or None (Engine.optimizing)
    listed,         \* the pcs that Lean knows to be in the chain (Engine.chainAt)
    phase,          \* "lean" between runs, "program" in a range, "after" it, "ended" after the run
    current,        \* where the range of the run starts
    first,          \* whether that is the first
    registers, bound,   \* the variables, and for each 0 if not bound, 2 if written, else 1
    slots,          \* what the range that ran last left in its slots: the outputs it reached
    budget,         \* the budget of the range
    ran,            \* the blocks that it entered after its first
    went,           \* where it went, and whether with a jump and with no Lean code run in an observer
    chained,        \* the blocks entered after the first of all, as the run counts them
    inTurn,         \* history: the variables as Lean would have them, running range by range
    entered,        \* history: the blocks entered after the first of all
    granted,        \* history: the budget of the run
    env,            \* the variables as Lean has them when the run starts
    base,           \* history: the executions of each entry when it was made and as told since
    given           \* what the run gave back: its variables and count, or None if it failed

leanVars == <<cached, counts, optimizing, listed>>
chainVars == <<leanVars, chain, objects, run, phase, current, first, registers, bound, slots,
               budget, ran, went, chained, inTurn, entered, granted, env, base, given>>

Least(a, b) == IF a < b THEN a ELSE b

\* The variables that a run of p which went to pc may have written (outputsAt), and those
\* that it has.
OutputsAt(p, pc) == IF pc = p.stop THEN p.atStop ELSE p.outputs

-----------------------------------------------------------------------------
(* What Lean does before a run. *)

\* What Lean is to run, how many times it ran with this one, what is compiled in the background
\* where it is, and whether the chain is told that.
Prepared(entry, count, task, noted) == [entry |-> entry, count |-> count, task |-> task, noted |-> noted]

\* A range that ran enough is compiled in the background, and is replaced when that is done, or
\* stays as it is if it can't be.  What was compiled there of something else is for nothing.
optimizedVersion(r, count) ==
    LET entry == cached[r]
        task  == optimizing[r.at]
    IN  IF entry.optimized \/ count < OptimizeFrom THEN {Prepared(entry, count, task, FALSE)}
        ELSE IF task = None THEN {Prepared(entry, count, r, TRUE)}
        ELSE IF task # r THEN {Prepared(entry, count, None, FALSE)}
        ELSE {Prepared(entry, count, r, TRUE)}
             \cup {Prepared([optimized |-> TRUE, improved |-> improved], count, None, FALSE) : improved \in BOOLEAN}

\* What there is of r runs once more.  What there is not is made, or found among the versions: it
\* may have run any number of times, and a range is as optimized as the block that it is made
\* for.  A block alone is dropped when a range is made where it is, and may be made again.
prepareGraph(r) ==
    (IF cached[r] = None THEN {} ELSE optimizedVersion(r, counts[r] + 1))
    \cup (IF cached[r] # None /\ r.chains THEN {}
          ELSE {Prepared(entry, count, optimizing[r.at], FALSE) : entry \in CachedBlock, count \in Had})

\* What is not optimized is let run no further than to when it is to be, and what is being so
\* for a while.
Grant(o, allowed) ==
    IF o.entry.optimized THEN allowed
    ELSE IF o.task # None THEN Least(allowed, OptimizeCheck)
    ELSE Least(allowed, OptimizeFrom - Least(OptimizeFrom, o.count))

\* And is put in the chain with when that is.
OptimizeAt(o) ==
    IF o.entry.optimized THEN None
    ELSE IF o.task # None THEN o.count + OptimizeCheck ELSE OptimizeFrom

\* Mutant: what went to the entry that is replaced still goes there.
chain_add_Stale(ch, p, count, optimizeAt) ==
    [pc \in DOMAIN ch \cup {p.at} |->
        IF pc = p.at
        THEN [object |-> objects + 1, program |-> p, executions |-> count, optimizeAt |-> optimizeAt,
              lastNext |-> None, lastTarget |-> None, outputsSaid |-> 0, readyIn |-> 0,
              touched |-> FALSE, runs |-> 0, executed |-> 0]
        ELSE ch[pc]]

\* A range is put where it starts, in place of what was there, and what went to that is to
\* look again.
chain_add(ch, p, count, optimizeAt) ==
    [pc \in DOMAIN ch \cup {p.at} |->
        IF pc = p.at
        THEN [object |-> objects + 1, program |-> p, executions |-> count, optimizeAt |-> optimizeAt,
              lastNext |-> None, lastTarget |-> None, outputsSaid |-> 0, readyIn |-> 0,
              touched |-> FALSE, runs |-> 0, executed |-> 0]
        ELSE IF p.at \in DOMAIN ch THEN [ch[pc] EXCEPT !.lastTarget = None] ELSE ch[pc]]

chain_holds(ch, p) == p.at \in DOMAIN ch /\ ch[p.at].program = p

\* The range at pc is being optimized, and is gone on to for some more.
chain_optimizing(ch, pc) ==
    IF pc \in DOMAIN ch THEN [ch EXCEPT ![pc].optimizeAt = ch[pc].executions + OptimizeCheck] ELSE ch

\* The chain as what Lean has prepared leaves it.
Known(r, o) == IF o.noted THEN chain_optimizing(chain, r.at) ELSE chain

\* A range is put in the chain if it is not the one that Lean knows to be there, and if it is
\* for the chain.  If it is not, Lean forgets what is there, which stays there.
registerChain(r, o) ==
    LET p    == ProgramOf(r, o.entry.improved)
        kept == p.at \in listed /\ chain_holds(Known(r, o), p)
        adds == ~kept /\ r.chains
    IN  /\ chain' = IF adds THEN chain_add(Known(r, o), p, o.count, OptimizeAt(o)) ELSE Known(r, o)
        /\ listed' = IF kept THEN listed ELSE IF adds THEN listed \cup {r.at} ELSE listed \ {r.at}
        /\ objects' = IF adds THEN objects + 1 ELSE objects
        /\ base' = IF adds THEN [base EXCEPT ![r.at] = o.count] ELSE base

\* The run in the chain starts at r, with the variables of the state in its registers.
run_chain(r, state) ==
    /\ run' = run + 1
    /\ phase' = "program" /\ current' = r.at /\ first' = TRUE
    /\ registers' = [v \in Variables |-> state[v]]
    /\ bound' = [v \in Variables |-> IF state[v] = None THEN 0 ELSE 1]
    /\ inTurn' = state /\ env' = state
    /\ slots' = [v \in {} |-> None] /\ ran' = 0 /\ went' = <<None, FALSE>>
    /\ chained' = 0 /\ entered' = 0 /\ given' = None

\* A run of r in the state `state' with `allowed' blocks to enter, which goes on in the chain.
BeginRun(r, state, allowed) ==
    /\ phase = "lean" /\ run < MaxRuns
    /\ \A v \in r.needs : state[v] # None
    /\ \E o \in prepareGraph(r) :
          /\ cached' = [cached EXCEPT ![r] = o.entry]
          /\ counts' = [counts EXCEPT ![r] = o.count]
          /\ optimizing' = [optimizing EXCEPT ![r.at] = o.task]
          /\ registerChain(r, o) /\ r.at \in listed'
          /\ budget' = Grant(o, allowed) /\ granted' = Grant(o, allowed)
    /\ run_chain(r, state)

\* A run of r that does not go on in the chain, as it is observed or interpreted, or is for Lean
\* after r is in the chain.  Lean counts it and the `more' blocks that it entered.
RunsAlone(r, more) ==
    /\ phase = "lean" /\ run < MaxRuns
    /\ \E o \in prepareGraph(r) :
          /\ more <= Grant(o, MaxBudget) /\ o.count + more <= MaxCount
          /\ cached' = [cached EXCEPT ![r] = o.entry]
          /\ counts' = [counts EXCEPT ![r] = o.count + more]
          /\ optimizing' = [optimizing EXCEPT ![r.at] = o.task]
          /\ \/ registerChain(r, o) /\ objects' <= MaxObjects
             \/ chain' = Known(r, o) /\ UNCHANGED <<listed, objects, base>>
    /\ UNCHANGED <<run, phase, current, first, registers, bound, slots, budget, ran, went, chained,
                   inTurn, entered, granted, env, given>>

\* The chain is emptied, when some of what was compiled is to be forgotten, or all of it with
\* what is compiled in the background (clearCache), or none.
clearChain ==
    /\ phase = "lean" /\ run < MaxRuns
    /\ \E forgotten \in SUBSET {r \in Ranges : cached[r] # None}, all \in BOOLEAN :
          /\ all => \A r \in Ranges : cached[r] # None => r \in forgotten
          /\ cached' = [r \in Ranges |-> IF r \in forgotten THEN None ELSE cached[r]]
          /\ counts' = [r \in Ranges |-> IF r \in forgotten THEN 0 ELSE counts[r]]
          /\ optimizing' = IF all THEN [pc \in Pcs |-> None] ELSE optimizing
    /\ chain' = [pc \in {} |-> None] /\ listed' = {}
    /\ base' = [pc \in Pcs |-> 0]
    /\ UNCHANGED <<objects, run, phase, current, first, registers, bound, slots, budget, ran,
                   went, chained, inTurn, entered, granted, env, given>>

-----------------------------------------------------------------------------
(* A range runs. *)

\* The program of the range: its outputs are in the registers if it is direct, and else in
\* its slots, those with a flag if it reached them.
Runs ==
    /\ phase = "program"
    /\ LET p == chain[current].program IN
       \E count \in 0 .. budget, pc \in Pcs, jumps \in BOOLEAN, x \in Values :
       \E reached \in SUBSET OutputsAt(p, pc) :
          /\ OutputsAt(p, pc) \ p.flagged \subseteq reached
          /\ LET wrote == [v \in reached |-> x] IN
             /\ inTurn' = [v \in Variables |-> IF v \in reached THEN x ELSE inTurn[v]]
             /\ slots' = wrote
             /\ registers' = IF p.direct THEN [v \in Variables |-> IF v \in reached THEN x ELSE registers[v]]
                             ELSE registers
          /\ ran' = count /\ went' = <<pc, jumps>>
          /\ entered' = entered + count + (IF first THEN 0 ELSE 1)
    /\ phase' = "after"
    /\ UNCHANGED <<leanVars, chain, objects, run, current, first, bound, budget, chained, granted, env, base, given>>

\* What `written' says of the variables: all those that the range reached, but once it has
\* said in this run those that it always writes, only the ones with a flag.
Said(e, copies) ==
    LET p   == e.program
        all == OutputsAt(p, went[1])
    IN  (IF ~copies /\ went[1] # p.stop /\ e.outputsSaid = run THEN all \cap p.flagged ELSE all)
            \cap DOMAIN slots

SaidIn(e) == IF e.program.direct /\ went[1] # e.program.stop THEN run ELSE e.outputsSaid

Bound(said) == [v \in Variables |-> IF v \in said THEN 2 ELSE bound[v]]

\* The entry of the range that ran, with its counts: Lean has counted the entry of the first.
Counted(e) ==
    LET more == ran + (IF first THEN 0 ELSE 1)
    IN  [e EXCEPT !.executions = @ + more, !.touched = TRUE, !.runs = @ + 1, !.executed = @ + more,
                  !.outputsSaid = SaidIn(e)]

\* Where the range went, as it went there last or by a search: the object there, or none.
TargetOf(e) ==
    IF e.lastNext = went[1] /\ e.lastTarget # None THEN e.lastTarget
    ELSE IF went[1] \in DOMAIN chain THEN chain[went[1]].object ELSE None

At(object) == CHOOSE pc \in DOMAIN chain : chain[pc].object = object

\* Nothing is left of what the run kept for itself.
Returns ==
    /\ current' = None /\ first' = FALSE
    /\ registers' = [v \in Variables |-> None] /\ bound' = [v \in Variables |-> 0]
    /\ slots' = [v \in {} |-> None] /\ budget' = 0 /\ ran' = 0 /\ went' = <<None, FALSE>>
    /\ chained' = 0
    /\ UNCHANGED <<objects, run>>

\* And nothing of what Lean had for it.
Forgotten ==
    /\ phase' = "lean" /\ given' = None
    /\ inTurn' = [v \in Variables |-> None] /\ env' = [v \in Variables |-> None]
    /\ entered' = 0 /\ granted' = 0

\* The run ends with what Lean sees of it: the variables that were written, over them those
\* in the slots of the last range if it has its own, and the executions of each.
Ends(counted, nowBound) ==
    /\ Returns
    /\ phase' = "ended"
    /\ given' = [variables |-> [v \in Variables |->
                    IF ~counted[current].program.direct /\ v \in DOMAIN slots THEN slots[v]
                    ELSE IF nowBound[v] = 2 THEN registers[v] ELSE env[v]],
                 chained |-> chained + ran,
                 executed |-> [pc \in Pcs |-> IF pc \in DOMAIN counted /\ counted[pc].touched
                                              THEN counted[pc].executed ELSE 0]]
    /\ chain' = [pc \in DOMAIN counted |->
                    [counted[pc] EXCEPT !.touched = FALSE, !.runs = 0, !.executed = 0]]
    /\ UNCHANGED <<leanVars, base, inTurn, entered, granted, env>>

\* Lean counts what the run says that it executed, for what was put in the chain.
LeanCounts ==
    /\ phase = "ended"
    /\ counts' = [r \in Ranges |-> IF r.at \in DOMAIN chain /\ chain[r.at].program.range = r
                                   THEN counts[r] + given.executed[r.at] ELSE counts[r]]
    /\ base' = [pc \in Pcs |-> base[pc] + given.executed[pc]]
    /\ Forgotten
    /\ UNCHANGED <<cached, optimizing, listed, chain, objects, run, current, first, registers, bound, slots,
                   budget, ran, went, chained>>

\* Mutant: what a range needs was found bound once, in whatever run.
Ready_Once(target, nowBound) == target.readyIn # 0 \/ \A v \in target.program.needs : nowBound[v] # 0

\* What a range needs is bound, or was found so in this run, in which it stays so.
Ready(target, nowBound) == target.readyIn = run \/ \A v \in target.program.needs : nowBound[v] # 0

\* Mutant: what is not optimized is let run on as long as the run may.
BudgetOf_Unbounded(target, remaining) == remaining - 1

\* The budget of the next range, which comes back by when it is to be optimized.
BudgetOf(target, remaining) ==
    IF target.optimizeAt = None THEN remaining - 1
    ELSE Least(remaining - 1, target.optimizeAt - (target.executions + 1))

\* Mutant: only what the range after it has in its slots is taken from those of the last.
Taken_Needed(e, target) ==
    [v \in Variables |-> IF ~e.program.direct /\ v \in Said(e, TRUE) /\ ~target.program.direct
                         THEN slots[v] ELSE registers[v]]

\* The registers with what the range left in its slots, if it has its own.
Taken(e, target) ==
    [v \in Variables |-> IF ~e.program.direct /\ v \in Said(e, TRUE) THEN slots[v] ELSE registers[v]]

\* Mutant: the block that the next range starts at is not counted.
Onward_Uncounted == chained + ran

\* The blocks entered with the one that the next range starts at.
Onward == chained + ran + 1

\* After a range that went well: to the next, or back to Lean.
Decides ==
    /\ phase = "after"
    /\ LET e        == chain[current]
           told     == Bound(IF e.program.direct THEN Said(e, FALSE) ELSE {})
           counted  == [chain EXCEPT ![current] = Counted(e)]
           ends     == ~went[2] \/ budget - ran < 1
           object   == TargetOf(e)
           found    == [counted EXCEPT ![current].lastNext = went[1], ![current].lastTarget = object]
           to       == At(object)
           target   == found[to]
           due      == target.optimizeAt # None /\ target.executions + 1 >= target.optimizeAt
           taken    == IF e.program.direct THEN told ELSE Bound(Said(e, TRUE))
           ready    == Ready(target, taken)
       IN  \/ /\ ends \/ object = None
              /\ Ends(counted, told)
           \/ /\ ~ends /\ object # None /\ due
              /\ Ends(found, told)
           \/ /\ ~ends /\ object # None /\ ~due /\ ~ready
              /\ Ends(found, taken)
           \/ /\ ~ends /\ object # None /\ ~due /\ ready
              /\ chain' = [found EXCEPT ![to].readyIn = run]
              /\ registers' = Taken(e, target)
              /\ bound' = taken
              /\ chained' = Onward
              /\ budget' = BudgetOf(target, budget - ran)
              /\ slots' = [v \in {} |-> None]
              /\ current' = to /\ first' = FALSE /\ phase' = "program"
              /\ UNCHANGED <<leanVars, objects, run, ran, went, inTurn, entered, granted, env, base, given>>

\* Mutant: a run that failed keeps what it counted.
Fails_Counted ==
    /\ phase = "after"
    /\ Returns /\ Forgotten
    /\ chain' = [pc \in DOMAIN chain |->
                    [chain[pc] EXCEPT !.touched = FALSE, !.runs = 0, !.executed = 0]]
    /\ UNCHANGED <<leanVars, base>>

\* An observer threw in the range: the run is taken back, and what it counted with it.
Fails ==
    /\ phase = "after"
    /\ Returns /\ Forgotten
    /\ chain' = [pc \in DOMAIN chain |->
                    [chain[pc] EXCEPT !.executions = IF chain[pc].touched
                                                     THEN @ - Least(@, chain[pc].executed) ELSE @,
                                      !.touched = FALSE, !.runs = 0, !.executed = 0]]
    /\ UNCHANGED <<leanVars, base>>
-----------------------------------------------------------------------------
ChainInit ==
    /\ chain = [pc \in {} |-> None] /\ objects = 0 /\ run = 0
    /\ cached = [r \in Ranges |-> None] /\ counts = [r \in Ranges |-> 0]
    /\ optimizing = [pc \in Pcs |-> None] /\ listed = {} /\ base = [pc \in Pcs |-> 0]
    /\ phase = "lean" /\ current = None /\ first = FALSE
    /\ registers = [v \in Variables |-> None] /\ bound = [v \in Variables |-> 0]
    /\ slots = [v \in {} |-> None] /\ budget = 0 /\ ran = 0 /\ went = <<None, FALSE>>
    /\ chained = 0
    /\ inTurn = [v \in Variables |-> None] /\ env = [v \in Variables |-> None]
    /\ entered = 0 /\ granted = 0 /\ given = None

ChainNext ==
    \/ \E r \in Ranges, state \in [Variables -> {None, 0}], allowed \in 1 .. MaxBudget : BeginRun(r, state, allowed)
    \/ \E r \in Ranges, more \in 0 .. MaxBudget : RunsAlone(r, more)
    \/ Runs \/ Decides \/ Fails \/ LeanCounts
    \/ clearChain

ChainSpec == ChainInit /\ [][ChainNext]_chainVars
-----------------------------------------------------------------------------
\* Where a range remembers to have gone last is what is there now (lastTarget): no run goes on
\* to an entry that Lean has replaced or cleared since.
LastTargetFresh ==
    \A pc \in DOMAIN chain : chain[pc].lastTarget # None =>
        /\ chain[pc].lastNext \in DOMAIN chain
        /\ chain[chain[pc].lastNext].object = chain[pc].lastTarget

\* A range runs only when the variables that it reads have been bound, by those that ran
\* before it in the run or before that (required, readyIn).
NeedsMet == phase = "program" => \A v \in chain[current].program.needs : inTurn[v] # None

\* Each range starts with the variables, and the run gives them back, as if Lean had run the
\* ranges in turn (obligation 17): whatever ranges with registers and with slots follow each
\* other, whatever outputs they reached, and wherever the run ends.
AsInTurn ==
    /\ phase = "program" =>
          \A v \in Variables : IF bound[v] = 0 THEN inTurn[v] = None ELSE registers[v] = inTurn[v]
    /\ given # None => given.variables = inTurn

\* A run says how many blocks it entered after its first, and they are within its budget.
BlocksCounted == given # None => given.chained = entered /\ entered <= granted

\* Between runs, the executions of an entry are those it was made with and those that Lean
\* was told of since, none of them of a run that failed and was taken back.
ExecutionsTold ==
    phase = "lean" => \A pc \in DOMAIN chain :
        /\ chain[pc].executions = base[pc]
        /\ ~chain[pc].touched /\ chain[pc].executed = 0

\* The most that a range which is yet to be optimized is let run before Lean sees to it.
Longest == IF OptimizeFrom > OptimizeCheck THEN OptimizeFrom - 1 ELSE OptimizeCheck

Optimized(pc) == cached[chain[pc].program.range].optimized

\* No run keeps what is yet to be optimized from Lean for longer than that, however much it may
\* run in all, whether it starts there or goes there, and however often it comes there again:
\* whatever Lean has of it, what is compiled in the background where it is, of it or of something
\* else, and whatever the chain still has of when it was to be optimized.
ComesBack ==
    \A pc \in DOMAIN chain : ~Optimized(pc) =>
        /\ chain[pc].executed <= Longest
        /\ given # None => given.executed[pc] <= Longest

\* "what isn't optimized comes back to the dispatcher by when it has run enough to be, as the chain
\* counts its runs as `prepareGraph` and `recordChained` do" (registerChain): what a run goes on
\* to that is neither optimized nor being so is back by optimizeFrom, as Lean counts.
BackByWhenDue ==
    phase = "program" /\ ~first /\ ~Optimized(current) /\ optimizing[current] = None =>
        counts[chain[current].program.range] + chain[current].executed + 1 + budget <= OptimizeFrom
=============================================================================

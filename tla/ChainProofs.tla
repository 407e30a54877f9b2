---------------------------- MODULE ChainProofs ----------------------------
(***************************************************************************)
(* Proofs about Chain: what is said there of runs holds for any ranges,    *)
(* whatever they read and write, and any number of runs of any length.     *)
(***************************************************************************)
EXTENDS Chain, TLAPS

-----------------------------------------------------------------------------
(* The inductive invariant. *)

Programs == {ProgramOf(r, improved) : r \in Ranges, improved \in BOOLEAN}
Entry == [object : Nat, program : Programs, executions : Nat, optimizeAt : Nat \cup {None},
          lastNext : Pcs \cup {None}, lastTarget : Nat \cup {None}, outputsSaid : Nat,
          readyIn : Nat, touched : BOOLEAN, runs : Nat, executed : Nat]
Data == Values \cup {None, 0}

\* What is in the chain, for the numbers of entries and runs that there were: each entry is where
\* its range starts, an object of its own, and of what Lean has, which is optimized if the chain is not
\* to come back for it.
EntriesRight ==
    /\ objects \in Nat /\ run \in Nat
    /\ chain = [pc \in DOMAIN chain |-> chain[pc]] /\ DOMAIN chain \subseteq Pcs
    /\ \A pc \in DOMAIN chain :
          /\ chain[pc] \in Entry /\ chain[pc].program.at = pc
          /\ chain[pc].object <= objects
          /\ chain[pc].outputsSaid <= run /\ chain[pc].readyIn <= run
          /\ chain[pc].program.range.chains /\ cached[chain[pc].program.range] # None
          /\ chain[pc].optimizeAt = None => Optimized(pc)
    /\ \A pc, at \in DOMAIN chain : chain[pc].object = chain[at].object => pc = at

RunTypeOK ==
    /\ phase \in {"lean", "program", "after", "ended"} /\ first \in BOOLEAN
    /\ registers \in [Variables -> Data] /\ bound \in [Variables -> 0 .. 2]
    /\ inTurn \in [Variables -> Data] /\ env \in [Variables -> Data]
    /\ budget \in Nat /\ ran \in Nat /\ chained \in Nat /\ entered \in Nat /\ granted \in Nat
    /\ cached \in [Ranges -> CachedBlock \cup {None}] /\ counts \in [Ranges -> Nat] /\ base \in [Pcs -> Nat]

Underway == phase \in {"program", "after"}

\* The executions of an entry are those that it was made with and told and those of the run, and
\* it is to be optimized not too long after the former.
CountsRight ==
    /\ \A pc \in DOMAIN chain :
          /\ chain[pc].optimizeAt # None => chain[pc].optimizeAt <= base[pc] + Longest
          /\ ~chain[pc].touched => chain[pc].executed = 0
          /\ phase # "ended" => chain[pc].executions = base[pc] + chain[pc].executed
          /\ ~Underway => ~chain[pc].touched
          /\ phase = "ended" => chain[pc].executions = base[pc] + given.executed[pc]
    /\ phase = "ended" => given.executed \in [Pcs -> Nat]

\* What an entry remembers of this run: the outputs that it always writes are written, and what
\* it needs is bound.
MarksRight ==
    Underway => \A pc \in DOMAIN chain :
        /\ chain[pc].outputsSaid = run =>
              \A v \in chain[pc].program.outputs \ chain[pc].program.flagged : bound[v] = 2
        /\ chain[pc].readyIn = run => \A v \in chain[pc].program.needs : bound[v] # 0

\* A variable is as Lean would have it, with these marks and these values.
VariableRight(v, mark, value) ==
    /\ mark = 0 <=> inTurn[v] = None
    /\ mark # 0 => value = inTurn[v]
    /\ mark # 2 => inTurn[v] = env[v]

Margin == IF first THEN 0 ELSE 1

\* A range is about to run.
ProgramRight ==
    phase = "program" =>
        /\ \A v \in Variables : VariableRight(v, bound[v], registers[v])
        /\ \A v \in chain[current].program.needs : bound[v] # 0
        /\ chained = entered + Margin
        /\ ~Optimized(current) => chain[current].executed + Margin + budget <= Longest

\* A range ran, and the run has not looked at what it left.
AfterRight ==
    phase = "after" =>
        LET p == chain[current].program IN
        /\ went[1] \in Pcs
        /\ DOMAIN slots \subseteq OutputsAt(p, went[1])
        /\ OutputsAt(p, went[1]) \ p.flagged \subseteq DOMAIN slots
        /\ \A v \in Variables :
              IF v \in DOMAIN slots
              THEN inTurn[v] = slots[v] /\ slots[v] \in Values /\ (p.direct => registers[v] = slots[v])
              ELSE VariableRight(v, bound[v], registers[v])
        /\ ran <= budget
        /\ entered = chained + ran
        /\ ~Optimized(current) => chain[current].executed + Margin + ran <= Longest

\* The run keeps to its budget, and says what it did when it ends.
SpentRight ==
    /\ Underway => current \in DOMAIN chain /\ chained + budget <= granted
    /\ phase = "ended" => given.variables = inTurn /\ given.chained = entered /\ entered <= granted
    /\ phase # "ended" => given = None

ChainIInv == /\ EntriesRight /\ RunTypeOK /\ CountsRight /\ MarksRight
             /\ ProgramRight /\ AfterRight /\ SpentRight
             /\ LastTargetFresh /\ ComesBack

-----------------------------------------------------------------------------
(* What follows from it, and its start. *)

LEMMA ProgramFacts ==
    ASSUME NEW p \in Programs
    PROVE  /\ p.at \in Pcs /\ p.direct \in BOOLEAN /\ p.range \in Ranges
           /\ p.needs \subseteq Variables /\ p.outputs \subseteq Variables
           /\ p.flagged \subseteq p.outputs /\ p.atStop \subseteq p.outputs
           /\ \A pc : OutputsAt(p, pc) \subseteq Variables /\ OutputsAt(p, pc) \subseteq p.outputs
  <1>1. PICK r \in Ranges, improved \in BOOLEAN : p = ProgramOf(r, improved)
    BY DEF Programs
  <1>2. /\ p.at = r.at /\ p.direct = (improved /\ r.direct) /\ p.range = r /\ p.needs = r.needs
        /\ p.outputs = r.outputs /\ p.flagged = r.flagged /\ p.atStop = r.atStop
    BY <1>1 DEF ProgramOf
  <1>3. /\ r.at \in Pcs /\ r.direct \in BOOLEAN /\ r.needs \subseteq Variables /\ r.outputs \subseteq Variables
        /\ r.flagged \subseteq r.outputs /\ r.atStop \subseteq r.outputs
    BY RangesAssumption DEF ChainRange
  <1> QED BY <1>2, <1>3 DEF OutputsAt

LEMMA ProgramOfFacts ==
    ASSUME NEW r \in Ranges, NEW improved \in BOOLEAN
    PROVE  /\ ProgramOf(r, improved) \in Programs
           /\ ProgramOf(r, improved).at = r.at /\ ProgramOf(r, improved).range = r
           /\ ProgramOf(r, improved).needs = r.needs
           /\ r.at \in Pcs /\ r.needs \subseteq Variables /\ r.chains \in BOOLEAN
  BY RangesAssumption DEF Programs, ProgramOf, ChainRange

LEMMA CachedFacts == ASSUME NEW e \in CachedBlock PROVE e.improved \in BOOLEAN /\ e.optimized \in BOOLEAN
  <1>1. CASE e = [optimized |-> TRUE, improved |-> TRUE]
    BY <1>1
  <1>2. CASE e = [optimized |-> TRUE, improved |-> FALSE]
    BY <1>2
  <1>3. CASE e = [optimized |-> FALSE, improved |-> FALSE]
    BY <1>3
  <1> QED BY <1>1, <1>2, <1>3 DEF CachedBlock

LEMMA LongestFacts == Longest \in Nat /\ OptimizeFrom <= Longest + 1 /\ OptimizeCheck <= Longest
  BY ChainAssumption DEF Longest

LEMMA ImpliesNeedsMet == ChainIInv => NeedsMet
  <1> SUFFICES ASSUME ChainIInv, phase = "program", NEW v \in chain[current].program.needs
               PROVE  inTurn[v] # None
    BY DEF NeedsMet
  <1>1. current \in DOMAIN chain /\ chain[current].program \in Programs
    BY DEF ChainIInv, SpentRight, Underway, EntriesRight, Entry
  <1>2. v \in Variables
    BY <1>1, ProgramFacts
  <1> QED BY <1>2 DEF ChainIInv, ProgramRight, VariableRight

LEMMA ImpliesAsInTurn == ChainIInv => AsInTurn
  BY DEF ChainIInv, ProgramRight, VariableRight, SpentRight, AsInTurn

LEMMA ImpliesBlocksCounted == ChainIInv => BlocksCounted
  BY DEF ChainIInv, SpentRight, BlocksCounted

LEMMA ImpliesExecutionsTold == ChainIInv => ExecutionsTold
  <1> SUFFICES ASSUME ChainIInv, phase = "lean", NEW pc \in DOMAIN chain
               PROVE  /\ chain[pc].executions = base[pc]
                      /\ ~chain[pc].touched /\ chain[pc].executed = 0
    BY DEF ExecutionsTold
  <1> QED BY DEF ChainIInv, CountsRight, Underway, EntriesRight, RunTypeOK

LEMMA ChainInitRight == ChainInit => ChainIInv
  <1> SUFFICES ASSUME ChainInit PROVE ChainIInv
    OBVIOUS
  <1>1. DOMAIN chain = {} /\ chain = [pc \in DOMAIN chain |-> chain[pc]]
    BY DEF ChainInit
  <1>2. EntriesRight
    BY <1>1 DEF ChainInit, EntriesRight
  <1>3. RunTypeOK
    <2>1. /\ registers \in [Variables -> Data] /\ inTurn \in [Variables -> Data]
          /\ env \in [Variables -> Data]
      BY DEF ChainInit, Data
    <2>2. /\ bound \in [Variables -> 0 .. 2] /\ counts \in [Ranges -> Nat] /\ base \in [Pcs -> Nat]
          /\ cached \in [Ranges -> CachedBlock \cup {None}]
      BY DEF ChainInit
    <2> QED BY <2>1, <2>2 DEF ChainInit, RunTypeOK
  <1>4. CountsRight /\ LastTargetFresh /\ ComesBack
    BY <1>1 DEF ChainInit, CountsRight, LastTargetFresh, ComesBack
  <1>5. MarksRight /\ ProgramRight /\ AfterRight /\ SpentRight
    BY DEF ChainInit, MarksRight, ProgramRight, AfterRight, SpentRight, Underway
  <1> QED BY <1>2, <1>3, <1>4, <1>5 DEF ChainIInv

-----------------------------------------------------------------------------
(* A run begins. *)

\* Two entries of one object that agree but for when it is optimized and where it went last.
Alike(e, f) ==
    /\ e \in Entry
    /\ e.object = f.object /\ e.program = f.program /\ e.executions = f.executions
    /\ e.outputsSaid = f.outputsSaid /\ e.readyIn = f.readyIn
    /\ e.touched = f.touched /\ e.executed = f.executed

\* What is prepared is no less optimized than what there was, if that is in the chain.
LEMMA PreparedFacts ==
    ASSUME ChainIInv, NEW r \in Ranges, NEW o \in prepareGraph(r)
    PROVE  /\ o.entry \in CachedBlock /\ o.count \in Nat /\ o.count >= 1
           /\ r.chains /\ cached[r] # None /\ cached[r].optimized => o.entry.optimized
  <1>1. counts[r] \in Nat /\ cached[r] \in CachedBlock \cup {None}
    BY DEF ChainIInv, RunTypeOK
  <1>2. \/ cached[r] # None /\ o \in optimizedVersion(r, counts[r] + 1)
        \/ /\ ~(cached[r] # None /\ r.chains)
           /\ \E entry \in CachedBlock, count \in Had : o = Prepared(entry, count, optimizing[r.at], FALSE)
    <2> DEFINE hit == IF cached[r] = None THEN {} ELSE optimizedVersion(r, counts[r] + 1)
               made == {Prepared(entry, count, optimizing[r.at], FALSE) : entry \in CachedBlock, count \in Had}
               miss == IF cached[r] # None /\ r.chains THEN {} ELSE made
    <2>1. o \in hit \cup miss
      BY DEF prepareGraph, Prepared
    <2>2. o \in made => \E entry \in CachedBlock, count \in Had : o = Prepared(entry, count, optimizing[r.at], FALSE)
      BY DEF Prepared
    <2> HIDE DEF made
    <2>3. CASE o \in hit
      BY <2>3
    <2>4. CASE o \in miss
      BY <2>2, <2>4
    <2> QED BY <2>1, <2>3, <2>4
  <1>3. CASE cached[r] # None /\ o \in optimizedVersion(r, counts[r] + 1)
    <2>1. \E entry \in CachedBlock : \E task, noted :
             /\ o = Prepared(entry, counts[r] + 1, task, noted)
             /\ cached[r].optimized => entry.optimized
      <3>1. \A improved \in BOOLEAN : [optimized |-> TRUE, improved |-> improved] \in CachedBlock
        BY DEF CachedBlock
      <3> QED BY <3>1, <1>1, <1>3 DEF optimizedVersion
    <2> QED BY <2>1, <1>1 DEF Prepared
  <1>4. CASE /\ ~(cached[r] # None /\ r.chains)
             /\ \E entry \in CachedBlock, count \in Had : o = Prepared(entry, count, optimizing[r.at], FALSE)
    BY <1>4, ChainAssumption DEF Prepared
  <1> QED BY <1>2, <1>3, <1>4

\* That it is being optimized makes the chain come back for it soon enough.
LEMMA KnownFacts ==
    ASSUME ChainIInv, phase = "lean", NEW r \in Ranges, NEW o
    PROVE  LET known == Known(r, o) IN
           /\ DOMAIN known = DOMAIN chain /\ known = [pc \in DOMAIN known |-> known[pc]]
           /\ \A pc \in DOMAIN chain :
                 /\ Alike(known[pc], chain[pc])
                 /\ known[pc].lastNext = chain[pc].lastNext /\ known[pc].lastTarget = chain[pc].lastTarget
                 /\ known[pc].optimizeAt = None => chain[pc].optimizeAt = None
                 /\ known[pc].optimizeAt # None => known[pc].optimizeAt <= base[pc] + Longest
  <1> DEFINE known == Known(r, o)
  <1>1. /\ DOMAIN known = DOMAIN chain /\ known = [pc \in DOMAIN known |-> known[pc]]
        /\ \A pc \in DOMAIN chain :
              \/ known[pc] = chain[pc]
              \/ known[pc] = [chain[pc] EXCEPT !.optimizeAt = chain[pc].executions + OptimizeCheck]
    BY DEF Known, chain_optimizing, ChainIInv, EntriesRight
  <1> HIDE DEF known
  <1>2. ASSUME NEW pc \in DOMAIN chain
        PROVE  /\ Alike(known[pc], chain[pc])
               /\ known[pc].lastNext = chain[pc].lastNext /\ known[pc].lastTarget = chain[pc].lastTarget
               /\ known[pc].optimizeAt = None => chain[pc].optimizeAt = None
               /\ known[pc].optimizeAt # None => known[pc].optimizeAt <= base[pc] + Longest
    <2>1. /\ chain[pc] \in Entry /\ chain[pc].executions \in Nat /\ pc \in Pcs
          /\ chain[pc].executions + OptimizeCheck \in Nat
      BY ChainAssumption DEF ChainIInv, EntriesRight, Entry
    <2>2. /\ chain[pc].executions = base[pc] /\ base[pc] \in Nat
          /\ chain[pc].optimizeAt # None => chain[pc].optimizeAt <= base[pc] + Longest
      <3>1. base[pc] \in Nat
        BY <2>1 DEF ChainIInv, RunTypeOK
      <3>2. /\ ~chain[pc].touched /\ chain[pc].executed = 0
            /\ chain[pc].executions = base[pc] + chain[pc].executed
            /\ chain[pc].optimizeAt # None => chain[pc].optimizeAt <= base[pc] + Longest
        BY DEF ChainIInv, CountsRight, Underway
      <3> QED BY <3>1, <3>2, <2>1
    <2>3. CASE known[pc] = chain[pc]
      BY <2>1, <2>2, <2>3 DEF Alike
    <2>4. CASE known[pc] = [chain[pc] EXCEPT !.optimizeAt = chain[pc].executions + OptimizeCheck]
      <3>1. /\ Alike(known[pc], chain[pc]) /\ known[pc].lastNext = chain[pc].lastNext
            /\ known[pc].lastTarget = chain[pc].lastTarget
            /\ known[pc].optimizeAt = chain[pc].executions + OptimizeCheck
        BY <2>1, <2>4 DEF Alike, Entry
      <3> QED BY <3>1, <2>1, <2>2, LongestFacts, ChainAssumption
    <2> QED BY <2>3, <2>4, <1>1
  <1> QED BY <1>1, <1>2 DEF known

\* What Lean does to the chain before a run of r, which it is to count n times then.
Turned(r, o, n) ==
    /\ phase = "lean"
    /\ cached' = [cached EXCEPT ![r] = o.entry]
    /\ counts' = [counts EXCEPT ![r] = n]
    /\ \/ registerChain(r, o)
       \/ chain' = Known(r, o) /\ UNCHANGED <<listed, objects, base>>

\* What the chain is then.
TurnedRight ==
    /\ objects' \in Nat
    /\ chain' = [pc \in DOMAIN chain' |-> chain'[pc]] /\ DOMAIN chain' \subseteq Pcs
    /\ \A pc \in DOMAIN chain' :
          /\ chain'[pc] \in Entry /\ chain'[pc].program.at = pc
          /\ chain'[pc].object <= objects'
          /\ chain'[pc].outputsSaid <= run /\ chain'[pc].readyIn <= run
          /\ chain'[pc].program.range.chains /\ cached'[chain'[pc].program.range] # None
          /\ chain'[pc].optimizeAt = None => cached'[chain'[pc].program.range].optimized
          /\ ~chain'[pc].touched /\ chain'[pc].executed = 0 /\ chain'[pc].executions = base'[pc]
          /\ chain'[pc].optimizeAt # None => chain'[pc].optimizeAt <= base'[pc] + Longest
    /\ \A pc, at \in DOMAIN chain' : chain'[pc].object = chain'[at].object => pc = at
    /\ LastTargetFresh'
    /\ cached' \in [Ranges -> CachedBlock \cup {None}] /\ counts' \in [Ranges -> Nat] /\ base' \in [Pcs -> Nat]

LEMMA TurnedChain ==
    ASSUME ChainIInv, NEW r \in Ranges, NEW o \in prepareGraph(r), NEW n \in Nat, Turned(r, o, n)
    PROVE  TurnedRight
  <1> DEFINE known == Known(r, o)
             p == ProgramOf(r, o.entry.improved)
             kept == p.at \in listed /\ chain_holds(known, p)
             adds == ~kept /\ r.chains
             new == [object |-> objects + 1, program |-> p, executions |-> o.count, optimizeAt |-> OptimizeAt(o),
                     lastNext |-> None, lastTarget |-> None, outputsSaid |-> 0, readyIn |-> 0,
                     touched |-> FALSE, runs |-> 0, executed |-> 0]
  <1>1. /\ o.entry \in CachedBlock /\ o.count \in Nat /\ o.count >= 1 /\ o.entry # None
        /\ r.chains /\ cached[r] # None /\ cached[r].optimized => o.entry.optimized
    BY PreparedFacts, ChainAssumption
  <1>2. /\ p \in Programs /\ p.at = r.at /\ p.range = r /\ r.at \in Pcs /\ r.chains \in BOOLEAN
    <2>1. o.entry.improved \in BOOLEAN
      BY <1>1, CachedFacts
    <2> QED BY <2>1, ProgramOfFacts
  <1>3. /\ DOMAIN known = DOMAIN chain /\ known = [pc \in DOMAIN known |-> known[pc]]
        /\ \A pc \in DOMAIN chain :
              /\ Alike(known[pc], chain[pc])
              /\ known[pc].lastNext = chain[pc].lastNext /\ known[pc].lastTarget = chain[pc].lastTarget
              /\ known[pc].optimizeAt = None => chain[pc].optimizeAt = None
              /\ known[pc].optimizeAt # None => known[pc].optimizeAt <= base[pc] + Longest
    BY KnownFacts DEF Turned
  <1>4. /\ cached' = [cached EXCEPT ![r] = o.entry] /\ counts' = [counts EXCEPT ![r] = n] /\ phase = "lean"
        /\ \/ chain' = known /\ objects' = objects /\ base' = base
           \/ /\ chain' = chain_add(known, p, o.count, OptimizeAt(o)) /\ r.chains
              /\ objects' = objects + 1 /\ base' = [base EXCEPT ![r.at] = o.count]
    <2>1. CASE registerChain(r, o)
      BY Zenon, <2>1 DEF registerChain, Turned
    <2>2. CASE chain' = Known(r, o) /\ UNCHANGED <<listed, objects, base>>
      BY <2>2 DEF Turned
    <2> QED BY <2>1, <2>2 DEF Turned
  <1>5. /\ objects \in Nat /\ DOMAIN chain \subseteq Pcs /\ chain = [pc \in DOMAIN chain |-> chain[pc]]
        /\ counts \in [Ranges -> Nat] /\ base \in [Pcs -> Nat] /\ cached \in [Ranges -> CachedBlock \cup {None}]
    BY DEF ChainIInv, EntriesRight, RunTypeOK
  <1>6. /\ cached' \in [Ranges -> CachedBlock \cup {None}] /\ counts' \in [Ranges -> Nat] /\ base' \in [Pcs -> Nat]
        /\ objects' \in Nat /\ objects <= objects'
    BY <1>1, <1>2, <1>4, <1>5
  <1>7. ASSUME NEW pc \in DOMAIN chain
        PROVE  /\ chain[pc] \in Entry /\ chain[pc].program.at = pc /\ chain[pc].object <= objects
               /\ chain[pc].outputsSaid <= run /\ chain[pc].readyIn <= run /\ chain[pc].object \in Nat
               /\ chain[pc].program.range.chains /\ cached'[chain[pc].program.range] # None
               /\ chain[pc].optimizeAt = None => cached'[chain[pc].program.range].optimized
               /\ ~chain[pc].touched /\ chain[pc].executed = 0 /\ chain[pc].executions = base[pc]
    <2>1. /\ chain[pc] \in Entry /\ chain[pc].program.at = pc /\ chain[pc].object <= objects
          /\ chain[pc].outputsSaid <= run /\ chain[pc].readyIn <= run /\ chain[pc].object \in Nat
          /\ chain[pc].program.range.chains /\ cached[chain[pc].program.range] # None
          /\ chain[pc].optimizeAt = None => cached[chain[pc].program.range].optimized
          /\ chain[pc].program \in Programs /\ pc \in Pcs
      BY DEF ChainIInv, EntriesRight, Entry, Optimized
    <2>2. chain[pc].program.range \in Ranges
      BY <2>1, ProgramFacts
    <2>3. cached'[chain[pc].program.range] =
            IF chain[pc].program.range = r THEN o.entry ELSE cached[chain[pc].program.range]
      BY <2>2, <1>4, <1>5
    <2>4. /\ cached'[chain[pc].program.range] # None
          /\ chain[pc].optimizeAt = None => cached'[chain[pc].program.range].optimized
      BY <2>1, <2>3, <1>1
    <2>5. ~chain[pc].touched /\ chain[pc].executed = 0 /\ chain[pc].executions = base[pc]
      <3>1. base[pc] \in Nat
        BY <2>1, <1>5
      <3>2. ~chain[pc].touched /\ chain[pc].executed = 0 /\ chain[pc].executions = base[pc] + chain[pc].executed
        BY <1>4 DEF ChainIInv, CountsRight, Underway
      <3> QED BY <3>1, <3>2
    <2> QED BY <2>1, <2>4, <2>5
  <1>8. /\ \A pc, at \in DOMAIN chain : chain[pc].object = chain[at].object => pc = at
        /\ \A pc \in DOMAIN chain : chain[pc].lastTarget # None =>
              chain[pc].lastNext \in DOMAIN chain /\ chain[chain[pc].lastNext].object = chain[pc].lastTarget
    BY DEF ChainIInv, EntriesRight, LastTargetFresh
  <1> HIDE DEF known, new, p, kept, adds
  <1>9. CASE chain' = known /\ objects' = objects /\ base' = base
    <2>1. \A pc \in DOMAIN chain' :
          /\ chain'[pc] \in Entry /\ chain'[pc].program.at = pc
          /\ chain'[pc].object <= objects'
          /\ chain'[pc].outputsSaid <= run /\ chain'[pc].readyIn <= run
          /\ chain'[pc].program.range.chains /\ cached'[chain'[pc].program.range] # None
          /\ chain'[pc].optimizeAt = None => cached'[chain'[pc].program.range].optimized
          /\ ~chain'[pc].touched /\ chain'[pc].executed = 0 /\ chain'[pc].executions = base'[pc]
          /\ chain'[pc].optimizeAt # None => chain'[pc].optimizeAt <= base'[pc] + Longest
      BY <1>3, <1>7, <1>9 DEF Alike
    <2>2. /\ \A pc, at \in DOMAIN chain' : chain'[pc].object = chain'[at].object => pc = at
          /\ LastTargetFresh'
      BY <1>3, <1>8, <1>9 DEF Alike, LastTargetFresh
    <2>3. chain' = [pc \in DOMAIN chain' |-> chain'[pc]] /\ DOMAIN chain' \subseteq Pcs
      BY <1>3, <1>5, <1>9
    <2> QED BY <2>1, <2>2, <2>3, <1>6 DEF TurnedRight
  <1>10. CASE /\ chain' = chain_add(known, p, o.count, OptimizeAt(o)) /\ r.chains
              /\ objects' = objects + 1 /\ base' = [base EXCEPT ![r.at] = o.count]
    <2>1. chain' = [pc \in DOMAIN chain \cup {r.at} |->
                      IF pc = r.at THEN new
                      ELSE IF r.at \in DOMAIN chain THEN [known[pc] EXCEPT !.lastTarget = None] ELSE known[pc]]
      BY Zenon, <1>2, <1>3, <1>10 DEF chain_add, new
    <2>2. /\ OptimizeAt(o) \in Nat \cup {None}
          /\ OptimizeAt(o) = None => o.entry.optimized
          /\ OptimizeAt(o) # None => OptimizeAt(o) <= o.count + Longest
      BY <1>1, LongestFacts, ChainAssumption DEF OptimizeAt
    <2>3. /\ new \in Entry /\ new.object = objects + 1 /\ new.program = p /\ new.executions = o.count
          /\ new.optimizeAt = OptimizeAt(o) /\ new.lastTarget = None /\ new.outputsSaid = 0
          /\ new.readyIn = 0 /\ ~new.touched /\ new.executed = 0
      BY <1>1, <1>2, <1>5, <2>2 DEF new, Entry
    <2>4. /\ DOMAIN chain' = DOMAIN chain \cup {r.at} /\ chain' = [pc \in DOMAIN chain' |-> chain'[pc]]
          /\ chain'[r.at] = new /\ DOMAIN chain' \subseteq Pcs
      BY <2>1, <1>2, <1>5
    <2>5. ASSUME NEW pc \in DOMAIN chain' \ {r.at}
          PROVE  /\ pc \in DOMAIN chain /\ Alike(chain'[pc], chain[pc])
                 /\ chain'[pc].optimizeAt = known[pc].optimizeAt
                 /\ chain'[pc].lastNext = chain[pc].lastNext
                 /\ chain'[pc].lastTarget = IF r.at \in DOMAIN chain THEN None ELSE chain[pc].lastTarget
      <3>1. pc \in DOMAIN chain
        BY <2>4
      <3>2. /\ Alike(known[pc], chain[pc]) /\ known[pc] \in Entry
            /\ known[pc].lastNext = chain[pc].lastNext /\ known[pc].lastTarget = chain[pc].lastTarget
        BY <3>1, <1>3 DEF Alike
      <3>3. chain'[pc] = IF r.at \in DOMAIN chain THEN [known[pc] EXCEPT !.lastTarget = None] ELSE known[pc]
        BY <2>1, <3>1
      <3> QED BY <3>1, <3>2, <3>3 DEF Alike, Entry
    <2>6. LastTargetFresh'
      <3>1. ASSUME NEW pc \in DOMAIN chain', chain'[pc].lastTarget # None
            PROVE  /\ chain'[pc].lastNext \in DOMAIN chain'
                   /\ chain'[chain'[pc].lastNext].object = chain'[pc].lastTarget
        <4>1. pc # r.at /\ pc \in DOMAIN chain
          BY <3>1, <2>3, <2>4
        <4>2. r.at \notin DOMAIN chain /\ chain'[pc].lastTarget = chain[pc].lastTarget
              /\ chain'[pc].lastNext = chain[pc].lastNext
          BY <4>1, <3>1, <2>5
        <4>3. chain[pc].lastNext \in DOMAIN chain /\ chain[pc].lastNext # r.at
          BY <4>1, <4>2, <3>1, <1>8
        <4> QED BY <4>1, <4>2, <4>3, <3>1, <1>8, <2>4, <2>5 DEF Alike
      <3> QED BY <3>1 DEF LastTargetFresh
    <2>7. ASSUME NEW pc \in DOMAIN chain'
          PROVE  /\ chain'[pc] \in Entry /\ chain'[pc].program.at = pc
                 /\ chain'[pc].object <= objects'
                 /\ chain'[pc].outputsSaid <= run /\ chain'[pc].readyIn <= run
                 /\ chain'[pc].program.range.chains /\ cached'[chain'[pc].program.range] # None
                 /\ chain'[pc].optimizeAt = None => cached'[chain'[pc].program.range].optimized
                 /\ ~chain'[pc].touched /\ chain'[pc].executed = 0 /\ chain'[pc].executions = base'[pc]
                 /\ chain'[pc].optimizeAt # None => chain'[pc].optimizeAt <= base'[pc] + Longest
      <3>1. CASE pc = r.at
        <4>1. chain'[pc] = new /\ base'[pc] = o.count /\ cached'[r] = o.entry /\ run \in Nat
          BY <3>1, <2>4, <1>2, <1>4, <1>5, <1>10 DEF ChainIInv, EntriesRight
        <4> QED BY <4>1, <3>1, <2>2, <2>3, <1>1, <1>2, <1>5, <1>10
      <3>2. CASE pc # r.at
        <4>1. /\ pc \in DOMAIN chain /\ Alike(chain'[pc], chain[pc]) /\ base'[pc] = base[pc] /\ pc \in Pcs
              /\ chain'[pc].optimizeAt = known[pc].optimizeAt
          BY <3>2, <2>4, <2>5, <1>5, <1>10
        <4>2. chain[pc].object <= objects' /\ chain[pc].object \in Nat
          BY <4>1, <1>5, <1>7, <1>10
        <4> QED BY <4>1, <4>2, <1>3, <1>7 DEF Alike
      <3> QED BY <3>1, <3>2
    <2>8. ASSUME NEW pc \in DOMAIN chain', NEW at \in DOMAIN chain', chain'[pc].object = chain'[at].object
          PROVE  pc = at
      <3>1. \A a \in DOMAIN chain' \ {r.at} : a \in DOMAIN chain /\ chain'[a].object = chain[a].object
        BY <2>5 DEF Alike
      <3> QED BY <3>1, <2>3, <2>4, <2>8, <1>5, <1>7, <1>8
    <2> QED BY <2>4, <2>6, <2>7, <2>8, <1>6 DEF TurnedRight
  <1> QED BY <1>4, <1>9, <1>10

LEMMA BeginRight ==
    ASSUME ChainIInv, NEW r \in Ranges, NEW state \in [Variables -> {None, 0}],
           NEW allowed \in 1 .. MaxBudget, BeginRun(r, state, allowed)
    PROVE  ChainIInv'
  <1>1. PICK o \in prepareGraph(r) :
          /\ cached' = [cached EXCEPT ![r] = o.entry]
          /\ counts' = [counts EXCEPT ![r] = o.count]
          /\ optimizing' = [optimizing EXCEPT ![r.at] = o.task]
          /\ registerChain(r, o) /\ r.at \in listed'
          /\ budget' = Grant(o, allowed) /\ granted' = Grant(o, allowed)
    BY Zenon DEF BeginRun, run_chain
  <1> DEFINE p == ProgramOf(r, o.entry.improved)
  <1>2. /\ o.entry \in CachedBlock /\ o.count \in Nat /\ o.count >= 1
    BY PreparedFacts
  <1>3. /\ run' = run + 1 /\ phase = "lean" /\ phase' = "program" /\ current' = r.at /\ first' = TRUE
        /\ registers' = [v \in Variables |-> state[v]]
        /\ bound' = [v \in Variables |-> IF state[v] = None THEN 0 ELSE 1]
        /\ inTurn' = state /\ env' = state /\ ran' = 0
        /\ chained' = 0 /\ entered' = 0 /\ given' = None
        /\ \A v \in r.needs : state[v] # None
    BY DEF BeginRun, run_chain
  <1>4. TurnedRight
    <2>1. Turned(r, o, o.count)
      BY <1>1, <1>3 DEF Turned
    <2> QED BY <2>1, <1>2, TurnedChain
  <1>5. p \in Programs /\ p.at = r.at /\ p.range = r /\ p.needs = r.needs /\ r.needs \subseteq Variables
    <2>1. o.entry.improved \in BOOLEAN
      BY <1>2, CachedFacts
    <2> QED BY <2>1, ProgramOfFacts
  <1>6. r.at \in DOMAIN chain' /\ chain'[r.at].program = p
    <2> DEFINE kept == p.at \in listed /\ chain_holds(Known(r, o), p)
               adds == ~kept /\ r.chains
    <2>1. /\ chain' = IF adds THEN chain_add(Known(r, o), p, o.count, OptimizeAt(o)) ELSE Known(r, o)
          /\ listed' = IF kept THEN listed ELSE IF adds THEN listed \cup {r.at} ELSE listed \ {r.at}
      BY Zenon, <1>1 DEF registerChain
    <2>2. CASE kept
      BY <2>1, <2>2, <1>5 DEF chain_holds
    <2>3. CASE adds
      <3>1. chain' = chain_add(Known(r, o), p, o.count, OptimizeAt(o))
        BY <2>1, <2>3
      <3> HIDE DEF p, kept, adds
      <3> QED BY <3>1, <1>5 DEF chain_add
    <2>4. CASE ~kept /\ ~adds
      BY <2>1, <2>4, <1>1
    <2> QED BY <2>2, <2>3, <2>4
  <1>7. /\ budget' \in Nat /\ granted' = budget'
        /\ ~o.entry.optimized => budget' <= Longest
    BY <1>1, <1>2, LongestFacts, ChainAssumption DEF Grant, Least
  <1>8. cached'[r] = o.entry
    BY <1>1 DEF ChainIInv, RunTypeOK
  <1> HIDE DEF p
  <1>9. RunTypeOK'
    <2>1. registers' \in [Variables -> Data] /\ inTurn' \in [Variables -> Data] /\ env' \in [Variables -> Data]
      BY <1>3 DEF Data
    <2>2. bound' \in [Variables -> 0 .. 2]
      BY <1>3
    <2> QED BY <2>1, <2>2, <1>3, <1>4, <1>7 DEF RunTypeOK, TurnedRight
  <1>10. \A pc \in DOMAIN chain' : /\ chain'[pc].outputsSaid <= run /\ chain'[pc].readyIn <= run /\ run \in Nat
                                   /\ chain'[pc].outputsSaid \in Nat /\ chain'[pc].readyIn \in Nat
    BY <1>4 DEF TurnedRight, Entry, ChainIInv, EntriesRight
  <1>11. EntriesRight'
    <2>1. run' \in Nat /\ run \in Nat
      BY <1>3 DEF ChainIInv, EntriesRight
    <2> QED BY <2>1, <1>3, <1>4, <1>10 DEF EntriesRight, TurnedRight, Optimized
  <1>12. \A pc \in DOMAIN chain' : base'[pc] \in Nat
    BY <1>4 DEF TurnedRight
  <1>13. CountsRight'
    BY <1>3, <1>4, <1>12 DEF CountsRight, TurnedRight, Underway
  <1>14. MarksRight'
    BY <1>3, <1>10 DEF MarksRight
  <1>15. ProgramRight'
    <2>1. \A v \in Variables : VariableRight(v, bound[v], registers[v])'
      BY <1>3, ChainAssumption DEF VariableRight
    <2>2. chain'[current'].program = p /\ \A v \in p.needs : bound'[v] # 0
      BY <1>3, <1>5, <1>6
    <2>3. chain'[current'].executed = 0
      BY <1>3, <1>4, <1>6 DEF TurnedRight
    <2>4. Optimized(current)' <=> o.entry.optimized
      BY <1>3, <1>5, <1>6, <1>8 DEF Optimized
    <2>5. ~Optimized(current)' => chain'[current'].executed + 0 + budget' <= Longest
      BY <2>3, <2>4, <1>7
    <2> QED BY <2>1, <2>2, <2>5, <1>3 DEF ProgramRight, Margin
  <1>16. AfterRight' /\ SpentRight'
    <2>1. AfterRight'
      BY Zenon, <1>3 DEF AfterRight
    <2>2. chained' + budget' <= granted'
      <3>1. chained' = 0 /\ budget' \in Nat /\ granted' = budget'
        BY Zenon, <1>3, <1>7
      <3>2. \A n \in Nat : 0 + n <= n
        OBVIOUS
      <3> QED BY <3>1, <3>2
    <2>3. SpentRight'
      BY <2>2, <1>3, <1>6 DEF SpentRight, Underway
    <2> QED BY <2>1, <2>3
  <1>17. ComesBack'
    BY <1>3, <1>4, LongestFacts DEF ComesBack, TurnedRight
  <1>18. LastTargetFresh'
    BY <1>4 DEF TurnedRight
  <1> QED BY <1>9, <1>11, <1>13, <1>14, <1>15, <1>16, <1>17, <1>18 DEF ChainIInv

\* Outside a run there is nothing to say of it.
LEMMA OutsideRight ==
    ASSUME phase' = "lean", given' = None
    PROVE  MarksRight' /\ ProgramRight' /\ AfterRight' /\ SpentRight'
  BY DEF MarksRight, ProgramRight, AfterRight, SpentRight, Underway

LEMMA AloneRight ==
    ASSUME ChainIInv, NEW r \in Ranges, NEW more \in 0 .. MaxBudget, RunsAlone(r, more)
    PROVE  ChainIInv'
  <1>1. PICK o \in prepareGraph(r) :
          /\ cached' = [cached EXCEPT ![r] = o.entry]
          /\ counts' = [counts EXCEPT ![r] = o.count + more]
          /\ \/ registerChain(r, o) /\ objects' <= MaxObjects
             \/ chain' = Known(r, o) /\ UNCHANGED <<listed, objects, base>>
    BY Zenon DEF RunsAlone
  <1>2. /\ phase = "lean"
        /\ UNCHANGED <<run, phase, current, first, registers, bound, slots, budget, ran, went, chained,
                       inTurn, entered, granted, env, given>>
    BY DEF RunsAlone
  <1>3. TurnedRight
    <2>1. o.count + more \in Nat
      BY PreparedFacts, ChainAssumption
    <2>2. Turned(r, o, o.count + more)
      BY Zenon, <1>1, <1>2 DEF Turned
    <2> QED BY <2>1, <2>2, TurnedChain
  <1>4. given = None
    BY <1>2 DEF ChainIInv, SpentRight
  <1>5. RunTypeOK'
    BY <1>2, <1>3 DEF ChainIInv, RunTypeOK, TurnedRight
  <1>6. EntriesRight'
    <2>1. run' \in Nat /\ run' = run
      BY <1>2 DEF ChainIInv, EntriesRight
    <2> QED BY <2>1, <1>3 DEF EntriesRight, TurnedRight, Optimized
  <1>7. \A pc \in DOMAIN chain' : base'[pc] \in Nat
    BY <1>3 DEF TurnedRight
  <1>8. CountsRight'
    BY <1>2, <1>3, <1>7 DEF CountsRight, TurnedRight, Underway
  <1>9. ComesBack' /\ LastTargetFresh'
    BY <1>2, <1>3, <1>4, LongestFacts DEF ComesBack, TurnedRight
  <1> QED BY <1>2, <1>4, <1>5, <1>6, <1>8, <1>9, OutsideRight DEF ChainIInv

-----------------------------------------------------------------------------
(* A range runs. *)

LEMMA RunsRight == ASSUME ChainIInv, Runs PROVE ChainIInv'
  <1> DEFINE p == chain[current].program
  <1>1. PICK count \in 0 .. budget, pc \in Pcs, jumps \in BOOLEAN, x \in Values :
        \E reached \in SUBSET OutputsAt(p, pc) :
          /\ OutputsAt(p, pc) \ p.flagged \subseteq reached
          /\ LET wrote == [v \in reached |-> x] IN
             /\ inTurn' = [v \in Variables |-> IF v \in reached THEN x ELSE inTurn[v]]
             /\ slots' = wrote
             /\ registers' = IF p.direct THEN [v \in Variables |-> IF v \in reached THEN x ELSE registers[v]]
                             ELSE registers
          /\ ran' = count /\ went' = <<pc, jumps>>
          /\ entered' = entered + count + (IF first THEN 0 ELSE 1)
    BY Zenon DEF Runs
  <1>2. PICK reached \in SUBSET OutputsAt(p, pc) :
          /\ OutputsAt(p, pc) \ p.flagged \subseteq reached
          /\ inTurn' = [v \in Variables |-> IF v \in reached THEN x ELSE inTurn[v]]
          /\ slots' = [v \in reached |-> x]
          /\ registers' = IF p.direct THEN [v \in Variables |-> IF v \in reached THEN x ELSE registers[v]]
                          ELSE registers
          /\ ran' = count /\ went' = <<pc, jumps>>
          /\ entered' = entered + count + Margin
    BY <1>1 DEF Margin
  <1>3. /\ phase = "program" /\ phase' = "after"
        /\ UNCHANGED <<cached, counts, chain, objects, run, current, first, bound, budget, chained, granted,
                       env, base, given>>
    BY DEF Runs, leanVars
  <1>4. /\ budget \in Nat /\ count \in Nat /\ count <= budget /\ Margin \in Nat
        /\ chained \in Nat /\ entered \in Nat /\ granted \in Nat
    BY DEF ChainIInv, RunTypeOK, Margin
  <1>5. current \in DOMAIN chain /\ p \in Programs /\ chain[current] \in Entry
    BY <1>3 DEF ChainIInv, SpentRight, Underway, EntriesRight, Entry
  <1>6. p.direct \in BOOLEAN /\ reached \subseteq Variables /\ x \in Data /\ x # None
    BY <1>5, ProgramFacts, ChainAssumption DEF Data
  <1>7. EntriesRight' /\ LastTargetFresh' /\ ComesBack'
    BY <1>3 DEF ChainIInv, EntriesRight, LastTargetFresh, ComesBack, Optimized
  <1>8. RunTypeOK'
    <2>1. inTurn' \in [Variables -> Data]
      BY <1>2, <1>6 DEF ChainIInv, RunTypeOK
    <2>2. registers' \in [Variables -> Data]
      BY <1>2, <1>6 DEF ChainIInv, RunTypeOK
    <2>3. entered' \in Nat
      BY <1>2, <1>4
    <2> QED BY <2>1, <2>2, <2>3, <1>2, <1>3, <1>4 DEF ChainIInv, RunTypeOK
  <1>9. CountsRight' /\ MarksRight'
    BY <1>3 DEF ChainIInv, CountsRight, MarksRight, Underway
  <1>10. SpentRight' /\ ProgramRight'
    BY <1>3 DEF ChainIInv, SpentRight, ProgramRight, Underway
  <1>11. AfterRight'
    <2>1. went'[1] = pc /\ DOMAIN slots' = reached /\ chain'[current'].program = p
      BY <1>2, <1>3
    <2>2. ASSUME NEW v \in Variables, v \in reached
          PROVE  inTurn'[v] = slots'[v] /\ slots'[v] \in Values /\ (p.direct => registers'[v] = slots'[v])
      BY <1>2, <2>2
    <2>3. ASSUME NEW v \in Variables, v \notin reached
          PROVE  VariableRight(v, bound[v], registers[v])'
      <3>1. inTurn'[v] = inTurn[v] /\ registers'[v] = registers[v] /\ bound'[v] = bound[v] /\ env'[v] = env[v]
        BY <1>2, <1>3, <2>3
      <3>2. VariableRight(v, bound[v], registers[v])
        BY <1>3 DEF ChainIInv, ProgramRight
      <3> QED BY <3>1, <3>2 DEF VariableRight
    <2>4. entered' = chained' + ran'
      BY <1>2, <1>3, <1>4 DEF ChainIInv, ProgramRight
    <2>5. ASSUME ~Optimized(current)
          PROVE  chain[current].executed + Margin + count <= Longest
      <3>1. chain[current].executed \in Nat
        BY <1>5 DEF Entry
      <3>2. chain[current].executed + Margin + budget <= Longest
        BY <1>3, <2>5 DEF ChainIInv, ProgramRight
      <3> QED BY <3>1, <3>2, <1>4, LongestFacts
    <2>6. Margin' = Margin
      BY <1>3 DEF Margin
    <2>7. \A v \in Variables :
              IF v \in DOMAIN slots'
              THEN inTurn'[v] = slots'[v] /\ slots'[v] \in Values /\ (p.direct => registers'[v] = slots'[v])
              ELSE VariableRight(v, bound[v], registers[v])'
      BY <2>1, <2>2, <2>3
    <2>8. /\ DOMAIN slots' \subseteq OutputsAt(p, went'[1])
          /\ OutputsAt(p, went'[1]) \ p.flagged \subseteq DOMAIN slots'
          /\ ran' <= budget' /\ went'[1] \in Pcs
      BY <2>1, <1>2, <1>3, <1>4
    <2>9. ~Optimized(current)' => chain'[current'].executed + Margin' + ran' <= Longest
      BY <2>5, <2>6, <1>2, <1>3 DEF Optimized
    <2> QED BY Zenon, <2>1, <2>4, <2>7, <2>8, <2>9 DEF AfterRight, OutputsAt
  <1> QED BY <1>7, <1>8, <1>9, <1>10, <1>11 DEF ChainIInv

-----------------------------------------------------------------------------
(* After a range. *)

\* The marks of the variables with those that the range reached.
Mark == [v \in Variables |-> IF v \in DOMAIN slots THEN 2 ELSE bound[v]]

\* All that a range reached is said, or was said before in the run.
LEMMA SaidRight ==
    ASSUME ChainIInv, phase = "after"
    PROVE  LET e == chain[current] IN
           /\ Bound(Said(e, TRUE)) = Mark
           /\ Bound(Said(e, FALSE)) = Mark
           /\ Bound({}) = bound
           /\ went[1] # e.program.stop => \A v \in e.program.outputs \ e.program.flagged : Mark[v] = 2
  <1> DEFINE e == chain[current]
             p == e.program
             all == OutputsAt(p, went[1])
  <1>1. current \in DOMAIN chain /\ p \in Programs
    BY DEF ChainIInv, SpentRight, Underway, EntriesRight, Entry
  <1>2. DOMAIN slots \subseteq all /\ all \ p.flagged \subseteq DOMAIN slots
        /\ all \subseteq Variables /\ p.outputs \subseteq Variables
    BY <1>1, ProgramFacts DEF ChainIInv, AfterRight
  <1>3. bound \in [Variables -> 0 .. 2]
    BY DEF ChainIInv, RunTypeOK
  <1>4. Said(e, TRUE) = DOMAIN slots
    BY <1>2 DEF Said
  <1>5. \A v \in DOMAIN slots : v \in Said(e, FALSE) \/ bound[v] = 2
    <2>1. e.outputsSaid = run => \A v \in p.outputs \ p.flagged : bound[v] = 2
      BY <1>1 DEF ChainIInv, MarksRight, Underway
    <2>2. all \subseteq p.outputs
      BY <1>1, ProgramFacts
    <2> QED BY <2>1, <2>2, <1>2 DEF Said
  <1>6. Said(e, FALSE) \subseteq DOMAIN slots
    BY DEF Said
  <1>7. went[1] # p.stop => p.outputs \ p.flagged \subseteq DOMAIN slots
    BY <1>2 DEF OutputsAt
  <1>8. Bound(Said(e, TRUE)) = Mark /\ Bound({}) = bound
    BY <1>3, <1>4 DEF Bound, Mark
  <1>9. Bound(Said(e, FALSE)) = Mark
    BY <1>3, <1>5, <1>6 DEF Bound, Mark
  <1> QED BY <1>2, <1>7, <1>8, <1>9 DEF Mark

\* A chain that differs from that of the run by what is noted after a range.
NotedRight(ch) ==
    /\ DOMAIN ch = DOMAIN chain /\ ch = [pc \in DOMAIN ch |-> ch[pc]]
    /\ \A pc \in DOMAIN chain :
          /\ ch[pc] \in Entry /\ ch[pc].object = chain[pc].object /\ ch[pc].program = chain[pc].program
          /\ ch[pc].optimizeAt = chain[pc].optimizeAt /\ ch[pc].readyIn = chain[pc].readyIn
          /\ ch[pc].executions = base[pc] + ch[pc].executed
          /\ ~ch[pc].touched => ch[pc].executed = 0
          /\ ~Optimized(pc) => ch[pc].executed <= Longest
          /\ ch[pc].outputsSaid <= run
          /\ ch[pc].outputsSaid = run =>
                \A v \in ch[pc].program.outputs \ ch[pc].program.flagged : Mark[v] = 2
          /\ ch[pc].lastTarget # None => /\ ch[pc].lastNext \in DOMAIN chain
                                         /\ chain[ch[pc].lastNext].object = ch[pc].lastTarget

\* The fields of an entry with more executions.
More(e, m, s) == [e EXCEPT !.executions = @ + m, !.touched = TRUE, !.runs = @ + 1, !.executed = @ + m,
                           !.outputsSaid = s]

LEMMA CountedFields ==
    ASSUME NEW e \in Entry, NEW m \in Nat, NEW s \in Nat
    PROVE  LET c == More(e, m, s) IN
           /\ c \in Entry /\ c.object = e.object /\ c.program = e.program /\ c.optimizeAt = e.optimizeAt
           /\ c.readyIn = e.readyIn /\ c.executions = e.executions + m /\ c.executed = e.executed + m
           /\ c.touched = TRUE /\ c.outputsSaid = s /\ c.lastNext = e.lastNext
           /\ c.lastTarget = e.lastTarget
  <1>1. /\ e = [object |-> e.object, program |-> e.program, executions |-> e.executions,
                optimizeAt |-> e.optimizeAt, lastNext |-> e.lastNext, lastTarget |-> e.lastTarget,
                outputsSaid |-> e.outputsSaid, readyIn |-> e.readyIn, touched |-> e.touched,
                runs |-> e.runs, executed |-> e.executed]
        /\ e.executions + m \in Nat /\ e.runs + 1 \in Nat /\ e.executed + m \in Nat
    BY DEF Entry
  <1>2. More(e, m, s) = [object |-> e.object, program |-> e.program, executions |-> e.executions + m,
             optimizeAt |-> e.optimizeAt, lastNext |-> e.lastNext, lastTarget |-> e.lastTarget,
             outputsSaid |-> s, readyIn |-> e.readyIn, touched |-> TRUE,
             runs |-> e.runs + 1, executed |-> e.executed + m]
    <2>1. PICK c : c = [e EXCEPT !.executions = @ + m, !.touched = TRUE, !.runs = @ + 1, !.executed = @ + m,
                                 !.outputsSaid = s]
      OBVIOUS
    <2>2. c = [object |-> e.object, program |-> e.program, executions |-> e.executions + m,
               optimizeAt |-> e.optimizeAt, lastNext |-> e.lastNext, lastTarget |-> e.lastTarget,
               outputsSaid |-> s, readyIn |-> e.readyIn, touched |-> TRUE,
               runs |-> e.runs + 1, executed |-> e.executed + m]
      BY <1>1, <2>1
    <2> QED BY Zenon, <2>1, <2>2 DEF More
  <1> QED BY <1>1, <1>2 DEF Entry

LEMMA CountedRight ==
    ASSUME ChainIInv, phase = "after"
    PROVE  NotedRight([chain EXCEPT ![current] = Counted(chain[current])])
  <1> DEFINE e == chain[current]
             c == Counted(e)
             more == ran + Margin
             ch == [chain EXCEPT ![current] = c]
  <1>1. /\ current \in DOMAIN chain /\ e \in Entry /\ current \in Pcs /\ e.program \in Programs
        /\ chain = [pc \in DOMAIN chain |-> chain[pc]]
    BY DEF ChainIInv, SpentRight, Underway, EntriesRight, Entry
  <1>2. ran \in Nat /\ Margin \in Nat /\ run \in Nat /\ more \in Nat /\ base[current] \in Nat
    BY <1>1 DEF ChainIInv, RunTypeOK, EntriesRight, Margin
  <1>3. c = More(e, more, SaidIn(e))
    BY DEF Counted, Margin, More
  <1>4. SaidIn(e) \in Nat /\ SaidIn(e) <= run
    BY <1>1, <1>2 DEF SaidIn, Entry, ChainIInv, EntriesRight
  <1>5. /\ e.executions \in Nat /\ e.executed \in Nat /\ e.runs \in Nat
    BY <1>1 DEF Entry
  <1> HIDE DEF c, more
  <1>6. /\ c \in Entry /\ c.object = e.object /\ c.program = e.program /\ c.optimizeAt = e.optimizeAt
        /\ c.readyIn = e.readyIn /\ c.executions = e.executions + more /\ c.executed = e.executed + more
        /\ c.touched = TRUE /\ c.outputsSaid = SaidIn(e) /\ c.lastNext = e.lastNext
        /\ c.lastTarget = e.lastTarget
    <2> HIDE DEF e
    <2>1. e \in Entry /\ more \in Nat /\ SaidIn(e) \in Nat
      BY <1>1, <1>2, <1>4
    <2> DEFINE d == More(e, more, SaidIn(e))
    <2>2. /\ d \in Entry /\ d.object = e.object /\ d.program = e.program /\ d.optimizeAt = e.optimizeAt
          /\ d.readyIn = e.readyIn /\ d.executions = e.executions + more /\ d.executed = e.executed + more
          /\ d.touched = TRUE /\ d.outputsSaid = SaidIn(e) /\ d.lastNext = e.lastNext
          /\ d.lastTarget = e.lastTarget
      <3> HIDE DEF more
      <3> QED BY <2>1, CountedFields
    <2> HIDE DEF d
    <2>3. c = d
      BY <1>3 DEF d
    <2> QED BY <2>2, <2>3
  <1>7. c.executions = base[current] + c.executed
    <2>1. e.executions = base[current] + e.executed
      BY <1>1 DEF ChainIInv, CountsRight
    <2> QED BY <2>1, <1>2, <1>5, <1>6
  <1>8. ~Optimized(current) => c.executed <= Longest
    <2>1. ~Optimized(current) => e.executed + Margin + ran <= Longest
      BY DEF ChainIInv, AfterRight
    <2> QED BY <2>1, <1>2, <1>5, <1>6, LongestFacts DEF more
  <1>9. c.outputsSaid = run => \A v \in c.program.outputs \ c.program.flagged : Mark[v] = 2
    <2>1. ASSUME e.outputsSaid = run, NEW v \in e.program.outputs \ e.program.flagged
          PROVE  Mark[v] = 2
      <3>1. v \in Variables
        BY <1>1, ProgramFacts
      <3>2. bound[v] = 2
        BY <1>1, <2>1 DEF ChainIInv, MarksRight, Underway
      <3> QED BY <3>1, <3>2 DEF Mark
    <2>2. went[1] # e.program.stop => \A v \in e.program.outputs \ e.program.flagged : Mark[v] = 2
      BY SaidRight
    <2> QED BY <2>1, <2>2, <1>6 DEF SaidIn
  <1>10. ASSUME NEW pc \in DOMAIN chain
         PROVE  /\ chain[pc] \in Entry /\ chain[pc].executions = base[pc] + chain[pc].executed
                /\ ~chain[pc].touched => chain[pc].executed = 0
                /\ ~Optimized(pc) => chain[pc].executed <= Longest
                /\ chain[pc].outputsSaid <= run
                /\ chain[pc].outputsSaid = run =>
                      \A v \in chain[pc].program.outputs \ chain[pc].program.flagged : Mark[v] = 2
                /\ chain[pc].lastTarget # None => /\ chain[pc].lastNext \in DOMAIN chain
                                                  /\ chain[chain[pc].lastNext].object = chain[pc].lastTarget
    <2>1. chain[pc] \in Entry /\ chain[pc].outputsSaid <= run /\ chain[pc].program \in Programs
      BY DEF ChainIInv, EntriesRight, Entry
    <2>2. chain[pc].executions = base[pc] + chain[pc].executed /\ (~chain[pc].touched => chain[pc].executed = 0)
      BY DEF ChainIInv, CountsRight
    <2>3. ASSUME chain[pc].outputsSaid = run, NEW v \in chain[pc].program.outputs \ chain[pc].program.flagged
          PROVE  Mark[v] = 2
      <3>1. v \in Variables
        BY <2>1, ProgramFacts
      <3>2. bound[v] = 2
        BY <2>3 DEF ChainIInv, MarksRight, Underway
      <3> QED BY <3>1, <3>2 DEF Mark
    <2> QED BY <2>1, <2>2, <2>3 DEF ChainIInv, ComesBack, LastTargetFresh
  <1>11. /\ DOMAIN ch = DOMAIN chain /\ ch = [pc \in DOMAIN ch |-> ch[pc]]
         /\ \A pc \in DOMAIN chain : ch[pc] = IF pc = current THEN c ELSE chain[pc]
    BY <1>1
  <1> HIDE DEF ch
  <1>12. NotedRight(ch)
    <2>1. ASSUME NEW pc \in DOMAIN chain, pc = current
          PROVE  /\ ch[pc] \in Entry /\ ch[pc].object = chain[pc].object /\ ch[pc].program = chain[pc].program
                 /\ ch[pc].optimizeAt = chain[pc].optimizeAt /\ ch[pc].readyIn = chain[pc].readyIn
                 /\ ch[pc].executions = base[pc] + ch[pc].executed
                 /\ ~ch[pc].touched => ch[pc].executed = 0
                 /\ ~Optimized(pc) => ch[pc].executed <= Longest
                 /\ ch[pc].outputsSaid <= run
                 /\ ch[pc].outputsSaid = run =>
                       \A v \in ch[pc].program.outputs \ ch[pc].program.flagged : Mark[v] = 2
                 /\ ch[pc].lastTarget # None => /\ ch[pc].lastNext \in DOMAIN chain
                                                /\ chain[ch[pc].lastNext].object = ch[pc].lastTarget
      <3>1. ch[pc] = c
        BY <2>1, <1>11
      <3> QED BY <3>1, <2>1, <1>4, <1>6, <1>7, <1>8, <1>9, <1>10
    <2>2. \A pc \in DOMAIN chain : pc # current => ch[pc] = chain[pc]
      BY <1>11
    <2> QED BY <2>1, <2>2, <1>10, <1>11 DEF NotedRight
  <1> QED BY <1>12 DEF ch, c

\* Where a range went is found where it is now, if there is anything.
LEMMA TargetRight ==
    ASSUME ChainIInv, phase = "after"
    PROVE  LET object == TargetOf(chain[current]) IN
           /\ object # None => /\ went[1] \in DOMAIN chain /\ object = chain[went[1]].object
                               /\ At(object) = went[1]
           /\ object \in Nat \cup {None}
  <1> DEFINE object == TargetOf(chain[current])
  <1>1. current \in DOMAIN chain
    BY DEF ChainIInv, SpentRight, Underway
  <1>2. object # None => went[1] \in DOMAIN chain /\ object = chain[went[1]].object
    BY <1>1 DEF TargetOf, ChainIInv, LastTargetFresh
  <1>3. \A pc, at \in DOMAIN chain : chain[pc].object = chain[at].object => pc = at
    BY DEF ChainIInv, EntriesRight
  <1>4. \A pc \in DOMAIN chain : chain[pc].object \in Nat
    BY DEF ChainIInv, EntriesRight, Entry
  <1> HIDE DEF object
  <1>5. object # None => At(object) = went[1]
    BY <1>2, <1>3 DEF At
  <1> QED BY <1>2, <1>4, <1>5 DEF object

LEMMA FoundRight ==
    ASSUME ChainIInv, phase = "after", NEW ch, NotedRight(ch)
    PROVE  NotedRight([ch EXCEPT ![current].lastNext = went[1],
                                 ![current].lastTarget = TargetOf(chain[current])])
  <1> DEFINE object == TargetOf(chain[current])
             f == [ch EXCEPT ![current].lastNext = went[1], ![current].lastTarget = object]
             e == ch[current]
             g == [e EXCEPT !.lastNext = went[1], !.lastTarget = object]
  <1>1. current \in DOMAIN chain /\ went[1] \in Pcs
    BY DEF ChainIInv, SpentRight, Underway, AfterRight
  <1>2. object \in Nat \cup {None}
        /\ (object # None => went[1] \in DOMAIN chain /\ object = chain[went[1]].object)
    BY TargetRight
  <1> HIDE DEF object
  <1>3. e \in Entry
    BY <1>1 DEF NotedRight
  <1>4. /\ DOMAIN f = DOMAIN chain /\ f = [pc \in DOMAIN f |-> f[pc]]
        /\ f[current] = g /\ \A pc \in DOMAIN chain : pc # current => f[pc] = ch[pc]
    BY <1>1 DEF NotedRight
  <1> HIDE DEF f
  <1>5. /\ g \in Entry /\ g.object = e.object /\ g.program = e.program /\ g.optimizeAt = e.optimizeAt
        /\ g.readyIn = e.readyIn /\ g.executions = e.executions /\ g.executed = e.executed
        /\ g.touched = e.touched /\ g.outputsSaid = e.outputsSaid /\ g.lastNext = went[1]
        /\ g.lastTarget = object
    BY <1>1, <1>2, <1>3 DEF Entry
  <1> HIDE DEF g
  <1>6. ASSUME NEW pc \in DOMAIN chain
        PROVE  /\ f[pc] \in Entry /\ f[pc].object = chain[pc].object /\ f[pc].program = chain[pc].program
               /\ f[pc].optimizeAt = chain[pc].optimizeAt /\ f[pc].readyIn = chain[pc].readyIn
               /\ f[pc].executions = base[pc] + f[pc].executed
               /\ ~f[pc].touched => f[pc].executed = 0
               /\ ~Optimized(pc) => f[pc].executed <= Longest
               /\ f[pc].outputsSaid <= run
               /\ f[pc].outputsSaid = run =>
                     \A v \in f[pc].program.outputs \ f[pc].program.flagged : Mark[v] = 2
               /\ f[pc].lastTarget # None => /\ f[pc].lastNext \in DOMAIN chain
                                             /\ chain[f[pc].lastNext].object = f[pc].lastTarget
    <2>1. CASE pc = current
      <3>1. f[pc] = g
        BY <2>1, <1>4
      <3> QED BY <3>1, <2>1, <1>2, <1>5 DEF NotedRight
    <2>2. CASE pc # current
      <3>1. f[pc] = ch[pc]
        BY <2>2, <1>4
      <3> QED BY <3>1 DEF NotedRight
    <2> QED BY <2>1, <2>2
  <1>7. NotedRight(f)
    BY <1>4, <1>6 DEF NotedRight
  <1> QED BY <1>7 DEF f, object

\* The fields of an entry when a run has ended.
Cleared(e, n) == [e EXCEPT !.executions = n, !.touched = FALSE, !.runs = 0, !.executed = 0]

LEMMA ClearedFields ==
    ASSUME NEW e \in Entry, NEW n \in Nat
    PROVE  LET c == Cleared(e, n) IN
           /\ c \in Entry /\ c.object = e.object /\ c.program = e.program /\ c.optimizeAt = e.optimizeAt
           /\ c.readyIn = e.readyIn /\ c.executions = n /\ c.executed = 0 /\ ~c.touched
           /\ c.outputsSaid = e.outputsSaid /\ c.lastNext = e.lastNext /\ c.lastTarget = e.lastTarget
  <1>1. e = [object |-> e.object, program |-> e.program, executions |-> e.executions,
             optimizeAt |-> e.optimizeAt, lastNext |-> e.lastNext, lastTarget |-> e.lastTarget,
             outputsSaid |-> e.outputsSaid, readyIn |-> e.readyIn, touched |-> e.touched,
             runs |-> e.runs, executed |-> e.executed]
    BY DEF Entry
  <1>2. PICK c : c = [e EXCEPT !.executions = n, !.touched = FALSE, !.runs = 0, !.executed = 0]
    OBVIOUS
  <1>3. c = [object |-> e.object, program |-> e.program, executions |-> n,
             optimizeAt |-> e.optimizeAt, lastNext |-> e.lastNext, lastTarget |-> e.lastTarget,
             outputsSaid |-> e.outputsSaid, readyIn |-> e.readyIn, touched |-> FALSE,
             runs |-> 0, executed |-> 0]
    BY <1>1, <1>2
  <1>4. /\ c.object = e.object /\ c.program = e.program /\ c.optimizeAt = e.optimizeAt
        /\ c.readyIn = e.readyIn /\ c.executions = n /\ c.executed = 0 /\ ~c.touched
        /\ c.outputsSaid = e.outputsSaid /\ c.lastNext = e.lastNext /\ c.lastTarget = e.lastTarget
    BY <1>3
  <1>5. /\ e.object \in Nat /\ e.program \in Programs /\ e.optimizeAt \in Nat \cup {None}
        /\ e.lastNext \in Pcs \cup {None} /\ e.lastTarget \in Nat \cup {None}
        /\ e.outputsSaid \in Nat /\ e.readyIn \in Nat
    BY DEF Entry
  <1>6. c \in Entry
    BY <1>3, <1>5 DEF Entry
  <1> QED BY Zenon, <1>2, <1>4, <1>6 DEF Cleared

LEMMA EndsRight ==
    ASSUME ChainIInv, phase = "after", NEW ch, NotedRight(ch), NEW nowBound,
           \A v \in Variables : v \notin DOMAIN slots => nowBound[v] = bound[v],
           chain[current].program.direct => \A v \in Variables : v \in DOMAIN slots => nowBound[v] = 2,
           Ends(ch, nowBound)
    PROVE  ChainIInv'
  <1>0. current \in DOMAIN chain /\ chain[current].program \in Programs
    BY DEF ChainIInv, SpentRight, Underway, EntriesRight, Entry
  <1>1. /\ phase' = "ended" /\ UNCHANGED <<cached, counts, base, inTurn, entered, granted, env, objects, run>>
        /\ first' = FALSE /\ budget' = 0 /\ ran' = 0 /\ chained' = 0
        /\ registers' = [v \in Variables |-> None] /\ bound' = [v \in Variables |-> 0]
    BY DEF Ends, Returns, leanVars
  <1>2. chain' = [pc \in DOMAIN ch |-> [ch[pc] EXCEPT !.touched = FALSE, !.runs = 0, !.executed = 0]]
    BY DEF Ends
  <1>3. given' = [variables |-> [v \in Variables |->
                    IF ~ch[current].program.direct /\ v \in DOMAIN slots THEN slots[v]
                    ELSE IF nowBound[v] = 2 THEN registers[v] ELSE env[v]],
                  chained |-> chained + ran,
                  executed |-> [pc \in Pcs |-> IF pc \in DOMAIN ch /\ ch[pc].touched
                                               THEN ch[pc].executed ELSE 0]]
    BY DEF Ends
  <1>4. ASSUME NEW pc \in DOMAIN chain
        PROVE  /\ chain'[pc] \in Entry /\ chain'[pc].object = ch[pc].object
               /\ chain'[pc].program = ch[pc].program /\ chain'[pc].optimizeAt = ch[pc].optimizeAt
               /\ chain'[pc].readyIn = ch[pc].readyIn /\ chain'[pc].executions = ch[pc].executions
               /\ chain'[pc].executed = 0 /\ ~chain'[pc].touched
               /\ chain'[pc].outputsSaid = ch[pc].outputsSaid
               /\ chain'[pc].lastNext = ch[pc].lastNext /\ chain'[pc].lastTarget = ch[pc].lastTarget
    <2>1. ch[pc] \in Entry /\ pc \in DOMAIN ch
      BY DEF NotedRight
    <2>2. ch[pc].executions \in Nat
      BY <2>1 DEF Entry
    <2>3. chain'[pc] = Cleared(ch[pc], ch[pc].executions)
      <3>1. chain'[pc] = [ch[pc] EXCEPT !.touched = FALSE, !.runs = 0, !.executed = 0]
        BY <1>2, <2>1
      <3> QED BY <3>1, <2>1 DEF Entry, Cleared
    <2> QED BY <2>1, <2>2, <2>3, ClearedFields
  <1>5. DOMAIN chain' = DOMAIN chain /\ chain' = [pc \in DOMAIN chain' |-> chain'[pc]]
    BY <1>2 DEF NotedRight
  <1>6. EntriesRight' /\ LastTargetFresh'
    <2>1. ASSUME NEW pc \in DOMAIN chain
          PROVE  /\ chain'[pc] \in Entry /\ chain'[pc].object = chain[pc].object
                 /\ chain'[pc].program = chain[pc].program /\ chain'[pc].optimizeAt = chain[pc].optimizeAt
                 /\ chain'[pc].readyIn = chain[pc].readyIn /\ chain'[pc].outputsSaid <= run
                 /\ chain'[pc].lastTarget # None =>
                       /\ chain'[pc].lastNext \in DOMAIN chain
                       /\ chain[chain'[pc].lastNext].object = chain'[pc].lastTarget
      BY <1>4 DEF NotedRight
    <2>2. EntriesRight'
      BY <2>1, <1>1, <1>5 DEF ChainIInv, EntriesRight, Optimized
    <2> QED BY <2>1, <2>2, <1>5 DEF LastTargetFresh
  <1>7. RunTypeOK'
    <2>1. registers' \in [Variables -> Data] /\ bound' \in [Variables -> 0 .. 2]
      BY <1>1 DEF Data
    <2> QED BY <2>1, <1>1 DEF ChainIInv, RunTypeOK
  <1>8. CountsRight'
    <2>1. /\ given'.executed = [pc \in Pcs |-> IF pc \in DOMAIN ch /\ ch[pc].touched
                                               THEN ch[pc].executed ELSE 0]
          /\ given'.executed \in [Pcs -> Nat]
      <3>1. \A pc \in DOMAIN ch : ch[pc].executed \in Nat
        BY DEF NotedRight, Entry
      <3> QED BY <3>1, <1>3
    <2>2. ASSUME NEW pc \in DOMAIN chain'
          PROVE  chain'[pc].executions = base'[pc] + given'.executed[pc]
      <3>1. pc \in DOMAIN chain /\ pc \in Pcs /\ pc \in DOMAIN ch
        BY <1>5 DEF NotedRight, ChainIInv, EntriesRight
      <3>2. given'.executed[pc] = ch[pc].executed
        BY <2>1, <3>1 DEF NotedRight
      <3>3. chain'[pc].executions = ch[pc].executions /\ ch[pc].executions = base[pc] + ch[pc].executed
        BY <3>1, <1>4 DEF NotedRight
      <3> QED BY <3>2, <3>3, <1>1
    <2>3. ASSUME NEW pc \in DOMAIN chain'
          PROVE  /\ chain'[pc].optimizeAt # None => chain'[pc].optimizeAt <= base'[pc] + Longest
                 /\ ~chain'[pc].touched /\ chain'[pc].executed = 0
      <3>1. chain'[pc].optimizeAt = chain[pc].optimizeAt /\ ~chain'[pc].touched /\ chain'[pc].executed = 0
        BY <1>4, <1>5 DEF NotedRight
      <3> QED BY <3>1, <1>1, <1>5 DEF ChainIInv, CountsRight
    <2> QED BY <2>1, <2>2, <2>3, <1>1 DEF CountsRight, Underway
  <1>9. MarksRight' /\ ProgramRight' /\ AfterRight'
    BY <1>1 DEF MarksRight, ProgramRight, AfterRight, Underway
  <1>10. SpentRight'
    <2>1. given'.variables = [v \in Variables |->
                    IF ~ch[current].program.direct /\ v \in DOMAIN slots THEN slots[v]
                    ELSE IF nowBound[v] = 2 THEN registers[v] ELSE env[v]]
          /\ given'.chained = chained + ran
      BY <1>3
    <2>2. ch[current].program = chain[current].program
      BY <1>0 DEF NotedRight
    <2>3. ASSUME NEW v \in Variables PROVE given'.variables[v] = inTurn[v]
      <3>1. CASE v \in DOMAIN slots
        BY <3>1, <2>1, <2>2 DEF ChainIInv, AfterRight
      <3>2. CASE v \notin DOMAIN slots
        <4>1. VariableRight(v, bound[v], registers[v])
          BY <3>2 DEF ChainIInv, AfterRight
        <4> QED BY <3>2, <4>1, <2>1 DEF VariableRight
      <3> QED BY <3>1, <3>2
    <2>4. given'.variables = inTurn'
      BY <2>1, <2>3, <1>1 DEF ChainIInv, RunTypeOK
    <2>5. given'.chained = entered' /\ entered' <= granted'
      BY <2>1, <1>1 DEF ChainIInv, AfterRight, SpentRight, Underway, RunTypeOK
    <2> QED BY <2>4, <2>5, <1>1 DEF SpentRight, Underway
  <1>11. ComesBack'
    <2>1. ASSUME NEW pc \in DOMAIN chain', ~Optimized(pc)'
          PROVE  chain'[pc].executed <= Longest /\ given'.executed[pc] <= Longest
      <3>1. /\ pc \in DOMAIN chain /\ pc \in Pcs /\ pc \in DOMAIN ch /\ chain'[pc].executed = 0
            /\ chain'[pc].program = chain[pc].program
        BY <1>4, <1>5 DEF NotedRight, ChainIInv, EntriesRight
      <3>2. ~Optimized(pc)
        BY <2>1, <3>1, <1>1 DEF Optimized
      <3>3. given'.executed[pc] = IF ch[pc].touched THEN ch[pc].executed ELSE 0
        BY <3>1, <1>3
      <3> QED BY <3>1, <3>2, <3>3, LongestFacts DEF NotedRight
    <2> QED BY <2>1 DEF ComesBack
  <1> QED BY <1>6, <1>7, <1>8, <1>9, <1>10, <1>11 DEF ChainIInv

\* The run goes on to another range, or to the same again.
GoesOn(found, to, taken) ==
    /\ chain' = [found EXCEPT ![to].readyIn = run]
    /\ registers' = Taken(chain[current], found[to])
    /\ bound' = taken
    /\ chained' = Onward
    /\ budget' = BudgetOf(found[to], budget - ran)
    /\ current' = to /\ first' = FALSE /\ phase' = "program"
    /\ UNCHANGED <<cached, counts, objects, run, ran, went, inTurn, entered, granted, env, base, given>>

LEMMA GoesOnRight ==
    ASSUME ChainIInv, phase = "after", NEW found, NotedRight(found), NEW to \in DOMAIN chain,
           ~(budget - ran < 1),
           ~(found[to].optimizeAt # None /\ found[to].executions + 1 >= found[to].optimizeAt),
           Ready(found[to], Mark),
           GoesOn(found, to, Mark)
    PROVE  ChainIInv'
  <1> DEFINE e == chain[current]
             target == found[to]
  <1>1. /\ current \in DOMAIN chain /\ e.program \in Programs /\ DOMAIN found = DOMAIN chain
        /\ target \in Entry /\ run \in Nat /\ to \in Pcs /\ target.program \in Programs
        /\ target.program = chain[to].program /\ target.readyIn = chain[to].readyIn
    BY DEF ChainIInv, SpentRight, Underway, EntriesRight, Entry, NotedRight
  <1>2. /\ budget \in Nat /\ ran \in Nat /\ ran <= budget /\ chained \in Nat /\ entered \in Nat /\ granted \in Nat
        /\ bound \in [Variables -> 0 .. 2] /\ Mark \in [Variables -> 0 .. 2]
    BY DEF ChainIInv, RunTypeOK, AfterRight, Mark
  <1>3. /\ DOMAIN chain' = DOMAIN chain /\ chain' = [pc \in DOMAIN chain' |-> chain'[pc]]
        /\ chain'[to] = [target EXCEPT !.readyIn = run]
        /\ \A pc \in DOMAIN chain : pc # to => chain'[pc] = found[pc]
    BY <1>1 DEF GoesOn, NotedRight
  <1>4. ASSUME NEW pc \in DOMAIN chain
        PROVE  /\ chain'[pc] \in Entry /\ chain'[pc].object = found[pc].object
               /\ chain'[pc].program = found[pc].program /\ chain'[pc].optimizeAt = found[pc].optimizeAt
               /\ chain'[pc].readyIn = IF pc = to THEN run ELSE found[pc].readyIn
               /\ chain'[pc].executions = found[pc].executions
               /\ chain'[pc].executed = found[pc].executed /\ chain'[pc].touched = found[pc].touched
               /\ chain'[pc].outputsSaid = found[pc].outputsSaid
               /\ chain'[pc].lastNext = found[pc].lastNext /\ chain'[pc].lastTarget = found[pc].lastTarget
    <2>1. CASE pc = to
      BY <2>1, <1>1, <1>3 DEF Entry
    <2>2. CASE pc # to
      BY <2>2, <1>3 DEF NotedRight
    <2> QED BY <2>1, <2>2
  <1>5. /\ phase' = "program" /\ current' = to /\ first' = FALSE /\ bound' = Mark
        /\ UNCHANGED <<cached, counts, objects, run, ran, went, inTurn, entered, granted, env, base, given>>
        /\ chained' = chained + ran + 1 /\ budget' = BudgetOf(target, budget - ran)
        /\ registers' = Taken(e, target)
    BY DEF GoesOn, Onward
  <1>6. /\ budget' \in Nat /\ budget' <= budget - ran - 1
        /\ ~Optimized(to) => target.executed + 1 + budget' <= Longest
    <2>1. target.executions \in Nat /\ target.optimizeAt \in Nat \cup {None} /\ target.executed \in Nat
      BY <1>1 DEF Entry
    <2>2. /\ budget' \in Nat /\ budget' <= budget - ran - 1
          /\ target.optimizeAt # None => target.executions + 1 + budget' <= target.optimizeAt
      BY <2>1, <1>2, <1>5, ChainAssumption DEF BudgetOf, Least
    <2>3. /\ ~Optimized(to) => target.optimizeAt # None
          /\ target.optimizeAt # None => target.optimizeAt <= base[to] + Longest
          /\ target.executions = base[to] + target.executed /\ base[to] \in Nat
      BY <1>1 DEF NotedRight, ChainIInv, EntriesRight, CountsRight, RunTypeOK
    <2> QED BY <2>1, <2>2, <2>3, LongestFacts
  <1>7. \A v \in target.program.needs : v \in Variables /\ Mark[v] # 0
    <2>1. target.readyIn = run => \A v \in target.program.needs : bound[v] # 0
      BY <1>1 DEF ChainIInv, MarksRight, Underway
    <2> QED BY <2>1, <1>1, <1>2, ProgramFacts DEF Ready, Mark
  <1>8. ASSUME NEW v \in Variables
        PROVE  VariableRight(v, bound[v], registers[v])' /\ registers'[v] \in Data
    <2>1. /\ registers'[v] = IF ~e.program.direct /\ v \in Said(e, TRUE) THEN slots[v] ELSE registers[v]
          /\ bound'[v] = IF v \in DOMAIN slots THEN 2 ELSE bound[v]
          /\ inTurn'[v] = inTurn[v] /\ env'[v] = env[v]
      BY <1>5 DEF Taken, Mark
    <2>2. Said(e, TRUE) = DOMAIN slots
      BY DEF Said, ChainIInv, AfterRight
    <2>3. registers[v] \in Data
      BY DEF ChainIInv, RunTypeOK
    <2>4. CASE v \in DOMAIN slots
      <3>1. inTurn[v] = slots[v] /\ slots[v] \in Values /\ (e.program.direct => registers[v] = slots[v])
        BY <2>4 DEF ChainIInv, AfterRight
      <3>2. registers'[v] = slots[v] /\ slots[v] # None /\ slots[v] \in Data
        BY <2>1, <2>2, <2>4, <3>1, ChainAssumption DEF Data
      <3>3. bound'[v] = 2 /\ inTurn'[v] = slots[v]
        BY <3>1, <2>1, <2>4
      <3> QED BY <3>2, <3>3 DEF VariableRight
    <2>5. CASE v \notin DOMAIN slots
      <3>1. VariableRight(v, bound[v], registers[v])
        BY <2>5 DEF ChainIInv, AfterRight
      <3> QED BY <3>1, <2>1, <2>2, <2>3, <2>5 DEF VariableRight
    <2> QED BY <2>4, <2>5
  <1>9. EntriesRight' /\ LastTargetFresh' /\ ComesBack'
    <2>1. ASSUME NEW pc \in DOMAIN chain
          PROVE  /\ chain'[pc] \in Entry /\ chain'[pc].object = chain[pc].object
                 /\ chain'[pc].program = chain[pc].program /\ chain'[pc].optimizeAt = chain[pc].optimizeAt
                 /\ chain'[pc].readyIn = (IF pc = to THEN run ELSE chain[pc].readyIn)
                 /\ chain'[pc].outputsSaid <= run
                 /\ ~Optimized(pc) => chain'[pc].executed <= Longest
                 /\ chain'[pc].lastTarget # None =>
                       /\ chain'[pc].lastNext \in DOMAIN chain
                       /\ chain[chain'[pc].lastNext].object = chain'[pc].lastTarget
      BY <1>4 DEF NotedRight
    <2>2. EntriesRight'
      BY <2>1, <1>1, <1>3, <1>5 DEF ChainIInv, EntriesRight, Optimized
    <2>3. given' = None
      BY <1>5 DEF ChainIInv, SpentRight
    <2>4. ComesBack'
      BY <2>1, <2>3, <1>3, <1>5 DEF ComesBack, Optimized
    <2> QED BY <2>1, <2>2, <2>4, <1>3 DEF LastTargetFresh
  <1>10. RunTypeOK'
    <2>1. registers' \in [Variables -> Data]
      <3>1. registers' = [v \in Variables |-> registers'[v]]
        BY <1>5 DEF Taken
      <3> QED BY <3>1, <1>8
    <2>2. bound' \in [Variables -> 0 .. 2] /\ chained' \in Nat
      BY <1>2, <1>5
    <2> QED BY <2>1, <2>2, <1>5, <1>6 DEF ChainIInv, RunTypeOK
  <1>11. CountsRight'
    <2>1. ASSUME NEW pc \in DOMAIN chain'
          PROVE  /\ chain'[pc].optimizeAt # None => chain'[pc].optimizeAt <= base'[pc] + Longest
                 /\ ~chain'[pc].touched => chain'[pc].executed = 0
                 /\ chain'[pc].executions = base'[pc] + chain'[pc].executed
      <3>1. pc \in DOMAIN chain /\ chain'[pc].optimizeAt = chain[pc].optimizeAt
        BY <1>3, <1>4 DEF NotedRight
      <3>2. chain[pc].optimizeAt # None => chain[pc].optimizeAt <= base[pc] + Longest
        BY <3>1 DEF ChainIInv, CountsRight
      <3> QED BY <3>1, <3>2, <1>4, <1>5 DEF NotedRight
    <2> QED BY <2>1, <1>5 DEF ChainIInv, CountsRight, Underway
  <1>12. MarksRight'
    <2>1. ASSUME NEW pc \in DOMAIN chain', chain'[pc].outputsSaid = run',
                 NEW v \in chain'[pc].program.outputs \ chain'[pc].program.flagged
          PROVE  bound'[v] = 2
      BY <2>1, <1>3, <1>4, <1>5 DEF NotedRight
    <2>2. ASSUME NEW pc \in DOMAIN chain', chain'[pc].readyIn = run', NEW v \in chain'[pc].program.needs
          PROVE  bound'[v] # 0
      <3>1. pc \in DOMAIN chain /\ chain'[pc].program = chain[pc].program /\ chain[pc].program \in Programs
            /\ found[pc].readyIn = chain[pc].readyIn
        BY <1>3, <1>4 DEF NotedRight, ChainIInv, EntriesRight, Entry
      <3>2. CASE pc = to
        BY <3>1, <3>2, <2>2, <1>1, <1>5, <1>7
      <3>3. CASE pc # to
        <4>1. bound[v] # 0
          BY <3>1, <3>3, <2>2, <1>4, <1>5 DEF ChainIInv, MarksRight, Underway
        <4>2. v \in Variables
          BY <3>1, <2>2, ProgramFacts
        <4> QED BY <4>1, <4>2, <1>5 DEF Mark
      <3> QED BY <3>2, <3>3
    <2> QED BY <2>1, <2>2 DEF MarksRight
  <1>13. ProgramRight'
    <2>1. /\ chain'[current'].program = target.program /\ chain'[current'].executed = target.executed
          /\ Optimized(current)' <=> Optimized(to)
      BY <1>1, <1>4, <1>5 DEF Optimized
    <2>2. chained' = entered' + 1
      BY <1>2, <1>5 DEF ChainIInv, AfterRight
    <2> QED BY <2>1, <2>2, <1>5, <1>6, <1>7, <1>8 DEF ProgramRight, Margin
  <1>14. AfterRight' /\ SpentRight'
    <2>1. chained + budget <= granted
      BY DEF ChainIInv, SpentRight, Underway
    <2>2. chained' + budget' <= granted'
      BY <2>1, <1>2, <1>5, <1>6
    <2> QED BY <2>2, <1>3, <1>5 DEF AfterRight, ChainIInv, SpentRight, Underway
  <1> QED BY <1>9, <1>10, <1>11, <1>12, <1>13, <1>14 DEF ChainIInv

LEMMA DecidesRight == ASSUME ChainIInv, Decides PROVE ChainIInv'
  <1> DEFINE e       == chain[current]
             told    == Bound(IF e.program.direct THEN Said(e, FALSE) ELSE {})
             counted == [chain EXCEPT ![current] = Counted(e)]
             ends    == ~went[2] \/ budget - ran < 1
             object  == TargetOf(e)
             found   == [counted EXCEPT ![current].lastNext = went[1], ![current].lastTarget = object]
             to      == At(object)
             target  == found[to]
             due     == target.optimizeAt # None /\ target.executions + 1 >= target.optimizeAt
             taken   == IF e.program.direct THEN told ELSE Bound(Said(e, TRUE))
  <1>1. phase = "after"
    BY DEF Decides
  <1>2. \/ Ends(counted, told)
        \/ Ends(found, told)
        \/ Ends(found, taken)
        \/ ~ends /\ object # None /\ ~due /\ Ready(target, taken) /\ GoesOn(found, to, taken)
    BY Zenon DEF Decides, GoesOn, leanVars
  <1>3. NotedRight(counted)
    BY <1>1, CountedRight
  <1>4. NotedRight(found)
    BY <1>1, <1>3, FoundRight
  <1>5. /\ told = IF e.program.direct THEN Mark ELSE bound
        /\ taken = Mark
    BY <1>1, SaidRight
  <1>6. object # None => to \in DOMAIN chain
    BY <1>1, TargetRight
  <1>7. /\ \A v \in Variables : v \notin DOMAIN slots => told[v] = bound[v] /\ taken[v] = bound[v]
        /\ e.program.direct => \A v \in Variables : v \in DOMAIN slots => told[v] = 2 /\ taken[v] = 2
    BY <1>5 DEF Mark
  <1> HIDE DEF told, counted, object, found, to, taken
  <1>8. CASE Ends(counted, told)
    BY <1>1, <1>3, <1>7, <1>8, EndsRight
  <1>9. CASE Ends(found, told)
    BY <1>1, <1>4, <1>7, <1>9, EndsRight
  <1>10. CASE Ends(found, taken)
    BY <1>1, <1>4, <1>7, <1>10, EndsRight
  <1>11. CASE ~ends /\ object # None /\ ~due /\ Ready(target, taken) /\ GoesOn(found, to, taken)
    BY <1>1, <1>4, <1>5, <1>6, <1>11, GoesOnRight
  <1> QED BY <1>2, <1>8, <1>9, <1>10, <1>11

-----------------------------------------------------------------------------
(* What ends without a next range, and what Lean does. *)

LEMMA FailsRight == ASSUME ChainIInv, Fails PROVE ChainIInv'
  <1>1. /\ phase = "after" /\ phase' = "lean" /\ given' = None
        /\ first' = FALSE /\ budget' = 0 /\ ran' = 0 /\ chained' = 0 /\ entered' = 0 /\ granted' = 0
        /\ registers' = [v \in Variables |-> None] /\ bound' = [v \in Variables |-> 0]
        /\ inTurn' = [v \in Variables |-> None] /\ env' = [v \in Variables |-> None]
        /\ UNCHANGED <<cached, counts, objects, run, base>>
    BY DEF Fails, Returns, Forgotten, leanVars
  <1> DEFINE n(pc) == IF chain[pc].touched THEN chain[pc].executions - Least(chain[pc].executions, chain[pc].executed)
                      ELSE chain[pc].executions
  <1>2. /\ DOMAIN chain' = DOMAIN chain /\ chain' = [pc \in DOMAIN chain' |-> chain'[pc]]
    BY DEF Fails
  <1>3. ASSUME NEW pc \in DOMAIN chain
        PROVE  /\ chain'[pc] \in Entry /\ chain'[pc].object = chain[pc].object
               /\ chain'[pc].program = chain[pc].program /\ chain'[pc].optimizeAt = chain[pc].optimizeAt
               /\ chain'[pc].readyIn = chain[pc].readyIn /\ chain'[pc].executions = base[pc]
               /\ chain'[pc].executed = 0 /\ ~chain'[pc].touched
               /\ chain'[pc].outputsSaid = chain[pc].outputsSaid
               /\ chain'[pc].lastNext = chain[pc].lastNext /\ chain'[pc].lastTarget = chain[pc].lastTarget
               /\ base[pc] \in Nat /\ base[pc] <= chain[pc].executions
    <2>1. chain[pc] \in Entry /\ chain[pc].executions \in Nat /\ chain[pc].executed \in Nat /\ pc \in Pcs
      BY DEF ChainIInv, EntriesRight, Entry
    <2>2. base[pc] \in Nat
      BY <2>1 DEF ChainIInv, RunTypeOK
    <2>3. chain[pc].executions = base[pc] + chain[pc].executed /\ (~chain[pc].touched => chain[pc].executed = 0)
      BY <1>1 DEF ChainIInv, CountsRight
    <2>4. n(pc) = base[pc]
      BY <2>1, <2>2, <2>3 DEF Least
    <2>5. chain'[pc] = Cleared(chain[pc], n(pc))
      BY DEF Fails, Cleared
    <2>6. chain'[pc] = Cleared(chain[pc], base[pc]) /\ base[pc] <= chain[pc].executions
      BY <2>1, <2>2, <2>3, <2>4, <2>5
    <2> DEFINE c == Cleared(chain[pc], base[pc])
    <2>7. /\ c \in Entry /\ c.object = chain[pc].object /\ c.program = chain[pc].program
          /\ c.optimizeAt = chain[pc].optimizeAt /\ c.readyIn = chain[pc].readyIn
          /\ c.executions = base[pc] /\ c.executed = 0 /\ ~c.touched
          /\ c.outputsSaid = chain[pc].outputsSaid /\ c.lastNext = chain[pc].lastNext
          /\ c.lastTarget = chain[pc].lastTarget
      BY <2>1, <2>2, ClearedFields
    <2> HIDE DEF c
    <2>8. chain'[pc] = c
      BY <2>6 DEF c
    <2> QED BY <2>2, <2>6, <2>7, <2>8
  <1>4. EntriesRight'
    BY <1>1, <1>2, <1>3 DEF ChainIInv, EntriesRight, Optimized
  <1>5. LastTargetFresh'
    BY <1>2, <1>3 DEF ChainIInv, LastTargetFresh
  <1>6. ComesBack'
    BY <1>1, <1>2, <1>3, LongestFacts DEF ComesBack
  <1>7. RunTypeOK'
    <2>1. /\ registers' \in [Variables -> Data] /\ bound' \in [Variables -> 0 .. 2]
          /\ inTurn' \in [Variables -> Data] /\ env' \in [Variables -> Data]
      BY <1>1 DEF Data
    <2> QED BY <2>1, <1>1 DEF ChainIInv, RunTypeOK
  <1>8. CountsRight'
    <2>1. \A pc \in DOMAIN chain : chain[pc].optimizeAt # None => chain[pc].optimizeAt <= base[pc] + Longest
      BY DEF ChainIInv, CountsRight
    <2>2. \A pc \in DOMAIN chain' : chain'[pc].executions = base'[pc] + chain'[pc].executed
      BY <1>1, <1>2, <1>3
    <2> QED BY <2>1, <2>2, <1>1, <1>2, <1>3 DEF CountsRight, Underway
  <1> QED BY <1>1, <1>4, <1>5, <1>6, <1>7, <1>8, OutsideRight DEF ChainIInv

LEMMA LeanCountsRight == ASSUME ChainIInv, LeanCounts PROVE ChainIInv'
  <1>1. /\ phase = "ended" /\ phase' = "lean" /\ given' = None
        /\ inTurn' = [v \in Variables |-> None] /\ env' = [v \in Variables |-> None]
        /\ entered' = 0 /\ granted' = 0
        /\ counts' = [r \in Ranges |-> IF r.at \in DOMAIN chain /\ chain[r.at].program.range = r
                                       THEN counts[r] + given.executed[r.at] ELSE counts[r]]
        /\ base' = [pc \in Pcs |-> base[pc] + given.executed[pc]]
        /\ UNCHANGED <<cached, chain, objects, run, current, first, registers, bound, slots, budget, ran, went, chained>>
    BY DEF LeanCounts, Forgotten
  <1>2. given.executed \in [Pcs -> Nat] /\ counts \in [Ranges -> Nat] /\ base \in [Pcs -> Nat]
    BY <1>1 DEF ChainIInv, CountsRight, RunTypeOK
  <1>3. EntriesRight' /\ LastTargetFresh' /\ ComesBack'
    BY <1>1 DEF ChainIInv, EntriesRight, LastTargetFresh, ComesBack, Optimized
  <1>4. RunTypeOK'
    <2>1. /\ inTurn' \in [Variables -> Data] /\ env' \in [Variables -> Data]
      BY <1>1 DEF Data
    <2>2. counts' \in [Ranges -> Nat] /\ base' \in [Pcs -> Nat]
      <3>1. \A r \in Ranges : r.at \in Pcs
        BY RangesAssumption DEF ChainRange
      <3> QED BY <3>1, <1>1, <1>2
    <2> QED BY <2>1, <2>2, <1>1 DEF ChainIInv, RunTypeOK
  <1>5. CountsRight'
    <2>1. ASSUME NEW pc \in DOMAIN chain
          PROVE  /\ chain'[pc].optimizeAt # None => chain'[pc].optimizeAt <= base'[pc] + Longest
                 /\ ~chain'[pc].touched /\ chain'[pc].executed = 0
                 /\ chain'[pc].executions = base'[pc] + chain'[pc].executed
      <3>1. pc \in Pcs /\ chain'[pc] = chain[pc] /\ chain[pc].optimizeAt \in Nat \cup {None}
        BY <1>1 DEF ChainIInv, EntriesRight, Entry
      <3>2. /\ ~chain[pc].touched /\ chain[pc].executed = 0
            /\ chain[pc].executions = base[pc] + given.executed[pc]
            /\ chain[pc].optimizeAt # None => chain[pc].optimizeAt <= base[pc] + Longest
        BY <1>1 DEF ChainIInv, CountsRight, Underway
      <3>3. /\ base'[pc] = base[pc] + given.executed[pc] /\ base'[pc] \in Nat
            /\ base[pc] \in Nat /\ given.executed[pc] \in Nat
        BY <3>1, <1>1, <1>2
      <3> QED BY <3>1, <3>2, <3>3, LongestFacts
    <2> QED BY <2>1, <1>1 DEF CountsRight, Underway
  <1> QED BY <1>1, <1>3, <1>4, <1>5, OutsideRight DEF ChainIInv

LEMMA ClearRight == ASSUME ChainIInv, clearChain PROVE ChainIInv'
  <1>1. /\ phase = "lean" /\ DOMAIN chain' = {} /\ chain' = [pc \in DOMAIN chain' |-> chain'[pc]]
        /\ base' = [pc \in Pcs |-> 0]
        /\ UNCHANGED <<objects, run, phase, current, first, registers, bound, slots, budget, ran,
                       went, chained, inTurn, entered, granted, env, given>>
    BY DEF clearChain
  <1>2. EntriesRight' /\ LastTargetFresh' /\ ComesBack'
    BY <1>1 DEF ChainIInv, EntriesRight, LastTargetFresh, ComesBack
  <1>3. RunTypeOK'
    <2>1. base' \in [Pcs -> Nat]
      BY <1>1
    <2>2. cached' \in [Ranges -> CachedBlock \cup {None}] /\ counts' \in [Ranges -> Nat]
      BY DEF clearChain, ChainIInv, RunTypeOK
    <2> QED BY <2>1, <2>2, <1>1 DEF ChainIInv, RunTypeOK
  <1>4. CountsRight'
    BY <1>1 DEF ChainIInv, RunTypeOK, CountsRight, Underway
  <1>5. given' = None
    BY <1>1 DEF ChainIInv, SpentRight
  <1> QED BY <1>1, <1>2, <1>3, <1>4, <1>5, OutsideRight DEF ChainIInv

LEMMA ChainStays == ASSUME ChainIInv, UNCHANGED chainVars PROVE ChainIInv'
  <1>1. EntriesRight' /\ RunTypeOK'
    BY DEF chainVars, leanVars, ChainIInv, EntriesRight, RunTypeOK, Optimized
  <1>2. CountsRight' /\ MarksRight'
    BY DEF chainVars, leanVars, ChainIInv, CountsRight, MarksRight, Underway
  <1>3. ProgramRight'
    BY DEF chainVars, leanVars, ChainIInv, ProgramRight, VariableRight, Margin, Optimized
  <1>4. AfterRight'
    BY DEF chainVars, leanVars, ChainIInv, AfterRight, VariableRight, Margin, OutputsAt, Optimized
  <1>5. SpentRight' /\ LastTargetFresh' /\ ComesBack'
    BY DEF chainVars, leanVars, ChainIInv, SpentRight, Underway, LastTargetFresh, ComesBack, Optimized
  <1> QED BY <1>1, <1>2, <1>3, <1>4, <1>5 DEF ChainIInv

-----------------------------------------------------------------------------
(* Theorems. *)

LEMMA ChainAlwaysRight == ChainSpec => []ChainIInv
  <1>1. ChainInit => ChainIInv
    BY ChainInitRight
  <1>2. ChainIInv /\ [ChainNext]_chainVars => ChainIInv'
    <2> SUFFICES ASSUME ChainIInv, [ChainNext]_chainVars PROVE ChainIInv'
      OBVIOUS
    <2>1. CASE \E r \in Ranges, state \in [Variables -> {None, 0}], allowed \in 1 .. MaxBudget :
                  BeginRun(r, state, allowed)
      BY <2>1, BeginRight
    <2>8. CASE \E r \in Ranges, more \in 0 .. MaxBudget : RunsAlone(r, more)
      BY <2>8, AloneRight
    <2>2. CASE Runs
      BY <2>2, RunsRight
    <2>3. CASE Decides
      BY <2>3, DecidesRight
    <2>4. CASE Fails
      BY <2>4, FailsRight
    <2>5. CASE LeanCounts
      BY <2>5, LeanCountsRight
    <2>6. CASE clearChain
      BY <2>6, ClearRight
    <2>7. CASE UNCHANGED chainVars
      BY <2>7, ChainStays
    <2> QED BY Zenon, <2>1, <2>2, <2>3, <2>4, <2>5, <2>6, <2>7, <2>8 DEF ChainNext
  <1> QED BY <1>1, <1>2, PTL DEF ChainSpec

\* No run goes on to an entry that was replaced or cleared (lastTarget), for any ranges.
THEOREM TargetsStayFresh == ChainSpec => []LastTargetFresh
  <1>1. ChainIInv => LastTargetFresh
    BY DEF ChainIInv
  <1> QED BY <1>1, ChainAlwaysRight, PTL

\* A range runs only with what it reads bound, for any ranges and runs of any length.
THEOREM NeedsAlwaysMet == ChainSpec => []NeedsMet
  BY ImpliesNeedsMet, ChainAlwaysRight, PTL

\* A run computes what Lean computes range by range, whatever the ranges read and write, whether
\* they have slots or registers, and wherever it ends (obligation 17).
THEOREM AlwaysAsInTurn == ChainSpec => []AsInTurn
  BY ImpliesAsInTurn, ChainAlwaysRight, PTL

\* A run says how many blocks it entered, and they are within its budget, for any budget.
THEOREM BlocksAlwaysCounted == ChainSpec => []BlocksCounted
  BY ImpliesBlocksCounted, ChainAlwaysRight, PTL

\* The executions that entries count are those that Lean was told of, for any number of runs
\* that end or fail.
THEOREM ExecutionsAlwaysTold == ChainSpec => []ExecutionsTold
  BY ImpliesExecutionsTold, ChainAlwaysRight, PTL

\* No run keeps a range that is yet to be optimized from Lean for longer than optimizeFrom or
\* optimizeCheck let it, for any of both, any budget, and however what Lean has of ranges, what it
\* compiles in the background and what the chain was told of it have come apart.
THEOREM AlwaysComesBack == ChainSpec => []ComesBack
  <1>1. ChainIInv => ComesBack
    BY DEF ChainIInv
  <1> QED BY <1>1, ChainAlwaysRight, PTL
=============================================================================

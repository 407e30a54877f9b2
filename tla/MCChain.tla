------------------------------ MODULE MCChain ------------------------------
(* Runs in the chain on small instances. *)
EXTENDS Chain

\* Two ranges that go on to each other with what they write, one with an output that it may not
\* reach, one with a site where it may stop before it has written all.
MCWriters == {
    [at |-> 1, chains |-> TRUE, direct |-> TRUE, needs |-> {"x"}, outputs |-> {"x", "y"},
     flagged |-> {"y"}, stop |-> None, atStop |-> {}],
    [at |-> 2, chains |-> TRUE, direct |-> TRUE, needs |-> {"y"}, outputs |-> {"x", "y"},
     flagged |-> {}, stop |-> 3, atStop |-> {"y"}]}

\* Two ranges that only count; and one with the block alone where it starts, which runs when no
\* other may be entered.
Counter(pc, chains) == [at |-> pc, chains |-> chains, direct |-> FALSE, needs |-> {}, outputs |-> {},
                        flagged |-> {}, stop |-> None, atStop |-> {}]
MCCounters == {Counter(1, TRUE), Counter(2, TRUE)}
MCAlone == {Counter(1, TRUE), Counter(1, FALSE)}
MCRanges == MCWriters \cup MCCounters \cup MCAlone

GoesOn == Runs \/ Decides \/ Fails \/ LeanCounts \/ clearChain

\* Those that write, in up to three ranges of a run, with whatever is bound before, until they
\* have run enough; and those that count, with runs of some of them out of the chain between.
Write ==
    \/ \E r \in MCWriters, state \in [Variables -> {None, 0}] :
          BeginRun(r, state, 2) /\ counts'[r] < OptimizeFrom
    \/ GoesOn
Count(those, apart, allowed) ==
    \/ \E r \in those : BeginRun(r, [v \in Variables |-> None], allowed)
    \/ \E r \in apart, more \in 0 .. MaxBudget : RunsAlone(r, more)
    \/ GoesOn
=============================================================================

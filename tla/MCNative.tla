------------------------------ MODULE MCNative ------------------------------
(* The native side of the emulator on small instances. *)
EXTENDS PagedMemory, MCChain, Cells, Budget, Ops, TLC

\* Addresses: two words of one page, and a page that shares a node with it, and one that doesn't.
A == <<0, 0, 0>>
A1 == <<0, 0, 1>>
B == <<0, 1, 0>>
C == <<1, 0, 0>>

Part(a, bytes, way) == [at |-> a, bytes |-> bytes, way |-> way]
Low(v)  == [o \in {0} |-> v]
High(v) == [o \in {1} |-> v]
Whole(v) == [o \in {0, 1} |-> v]
Load1 == [o \in {} |-> 0]

MCCalls == {
    [kind |-> "read",  pieces |-> <<Part(A, Load1, "slow")>>],
    [kind |-> "write", pieces |-> <<Part(A, High(1), "slow"), Part(B, Low(1), "slow")>>],
    [kind |-> "write", pieces |-> <<Part(A, Low(0), "slow")>>],
    [kind |-> "zero",  pieces |-> <<Part(A, Whole(0), "slow"), Part(A1, Low(0), "slow")>>],
    [kind |-> "run",   pieces |-> <<Part(B, Load1, "fast"), Part(A, Low(1), "fast"), Part(A1, Load1, "fast")>>],
    [kind |-> "run",   pieces |-> <<Part(A1, High(1), "slow"), Part(C, Low(1), "rest")>>]}

\* Ranges of addresses that Lean lets through.
Lets1(a, b, reads, writes) == [first |-> a, last |-> b, reads |-> reads, writes |-> writes]
MCUpdates == {
    [removed |-> {},  added |-> {Lets1(0, 1, TRUE, TRUE)}],
    [removed |-> {0}, added |-> {Lets1(0, 0, TRUE, FALSE), Lets1(1, 2, TRUE, TRUE)}]}

\* A behaviour is one of one component, while the others stay as they start.
VARIABLE part

NativeInit ==
    /\ Init /\ ChainInit /\ CellsInit /\ BudgetInit /\ OpsInit
    /\ part \in {"memory", "writers", "counters", "apart", "alone", "cells", "budget", "ops"}
NativeNext ==
    /\ \/ part = "memory" /\ Next /\ UNCHANGED <<chainVars, cellVars, budgetVars, computed>>
       \/ /\ \/ part = "writers"  /\ Write
             \/ part = "counters" /\ Count(MCCounters, {}, MaxBudget)
             \/ part = "apart"    /\ Count(MCCounters, {Counter(1, TRUE)}, 1)
             \/ part = "alone"    /\ Count(MCAlone, {Counter(1, FALSE)}, MaxBudget)
          /\ UNCHANGED <<vars, cellVars, budgetVars, computed>>
       \/ part = "cells" /\ CellsNext /\ UNCHANGED <<vars, chainVars, budgetVars, computed>>
       \/ part = "budget" /\ BudgetNext /\ UNCHANGED <<vars, chainVars, cellVars, computed>>
       \/ part = "ops" /\ OpsNext /\ UNCHANGED <<vars, chainVars, cellVars, budgetVars>>
    /\ UNCHANGED part
NativeSpec == NativeInit /\ [][NativeNext]_<<vars, chainVars, cellVars, budgetVars, computed, part>>

MCSymmetry == Permutations(Nodes) \cup Permutations(Threads)
=============================================================================

------------------------------- MODULE Budget -------------------------------
(***************************************************************************)
(* The copy that bap_jit_compile makes of an optimized range so as not to  *)
(* leave at each block for its budget (native/bap_jit.cpp): where it looks *)
(* at the budget instead, by a search in depth for what jumps back go to,  *)
(* and a run of the two.  A block is one of LLVM's.  Those that check end  *)
(* in the branch of enterBlock (Lifted.lean), which goes on if there is    *)
(* any budget left, to where one is taken of it, and else leaves.  What is *)
(* taken is taken at the check here, as only a code site can leave between *)
(* the two and no jump back goes between them.  A range of which           *)
(* a target begins with a phi has no copy, and is not of interest here.    *)
(***************************************************************************)
EXTENDS Naturals, Sequences, FiniteSets

CONSTANTS
    Blocks,         \* the blocks of the range
    Start,          \* the one it starts at
    MaxBlocks       \* bound: the budget of a run

ASSUME BudgetAssumption == IsFiniteSet(Blocks) /\ Start \in Blocks /\ MaxBlocks \in Nat

VARIABLES
    successors,     \* of each block, without the leave of those that check
    checking,       \* the blocks that end in a check of the budget
    stage,          \* "compile", "search", "run", or "left"
    stack, visit, targets,      \* of the search
    inCopy, block, rest         \* the run: in the copy or not, where, and its budget

budgetVars == <<successors, checking, stage, stack, visit, targets, inCopy, block, rest>>

checks == Cardinality(checking)

Compile(succ, checked) ==
    /\ checked # {}
    /\ \A b \in checked : Len(succ[b]) = 1
    /\ successors' = succ /\ checking' = checked
    /\ stage' = "search"
    /\ stack' = <<[block |-> Start, at |-> 1]>>
    /\ visit' = [visit EXCEPT ![Start] = 1]
    /\ UNCHANGED <<targets, inCopy, block, rest>>

\* Mutant: a jump back to the block it is in is none.
Search_NotItself ==
    /\ stage = "search" /\ stack # << >>
    /\ LET n == Len(stack)
           top == stack[n]
       IN  \/ /\ top.at <= Len(successors[top.block])
              /\ LET next == successors[top.block][top.at]
                     moved == [stack EXCEPT ![n].at = @ + 1]
                 IN  /\ targets' = IF visit[next] = 1 /\ next # top.block THEN targets \cup {next} ELSE targets
                     /\ visit' = IF visit[next] = 0 THEN [visit EXCEPT ![next] = 1] ELSE visit
                     /\ stack' = IF visit[next] = 0 THEN Append(moved, [block |-> next, at |-> 1]) ELSE moved
           \/ /\ top.at > Len(successors[top.block])
              /\ visit' = [visit EXCEPT ![top.block] = 2]
              /\ stack' = SubSeq(stack, 1, n - 1)
              /\ UNCHANGED targets
    /\ UNCHANGED <<successors, checking, stage, inCopy, block, rest>>

\* One turn of the search: a jump back goes to what is still on the stack.
Search ==
    /\ stage = "search" /\ stack # << >>
    /\ LET n == Len(stack)
           top == stack[n]
       IN  \/ /\ top.at <= Len(successors[top.block])
              /\ LET next == successors[top.block][top.at]
                     moved == [stack EXCEPT ![n].at = @ + 1]
                 IN  /\ targets' = IF visit[next] = 1 THEN targets \cup {next} ELSE targets
                     /\ visit' = IF visit[next] = 0 THEN [visit EXCEPT ![next] = 1] ELSE visit
                     /\ stack' = IF visit[next] = 0 THEN Append(moved, [block |-> next, at |-> 1]) ELSE moved
           \/ /\ top.at > Len(successors[top.block])
              /\ visit' = [visit EXCEPT ![top.block] = 2]
              /\ stack' = SubSeq(stack, 1, n - 1)
              /\ UNCHANGED targets
    /\ UNCHANGED <<successors, checking, stage, inCopy, block, rest>>

\* A run starts where the start is checked: in the copy if the budget is enough for it.
Enter(budgetOf) ==
    /\ stage = "search" /\ stack = << >>
    /\ stage' = "run"
    /\ block' = Start /\ rest' = budgetOf
    /\ inCopy' = (budgetOf >= checks)
    /\ UNCHANGED <<successors, checking, stack, visit, targets>>

\* A block of the copy goes on whatever the budget is, and one of the range only if there is
\* some; what comes to a target from the copy stays in it if the budget is enough.
Jump(next) ==
    /\ stage = "run"
    /\ \E k \in DOMAIN successors[block] : successors[block][k] = next
    /\ block \in checking => inCopy \/ rest # 0
    /\ LET now == IF block \in checking THEN rest - 1 ELSE rest IN
       /\ rest' = now
       /\ inCopy' = (inCopy /\ (next \in targets => now >= checks))
    /\ block' = next
    /\ UNCHANGED <<successors, checking, stage, stack, visit, targets>>

\* The run ends: for want of budget, or as the block does.
Leave ==
    /\ stage = "run"
    /\ \/ block \in checking /\ ~inCopy /\ rest = 0
       \/ successors[block] = << >>
    /\ stage' = "left"
    /\ UNCHANGED <<successors, checking, stack, visit, targets, inCopy, block, rest>>
-----------------------------------------------------------------------------
BudgetInit ==
    /\ successors = [b \in Blocks |-> << >>] /\ checking = {}
    /\ stage = "compile"
    /\ stack = << >> /\ visit = [b \in Blocks |-> 0] /\ targets = {}
    /\ inCopy = FALSE /\ block = Start /\ rest = 0

BudgetNext ==
    \/ /\ stage = "compile"
       /\ \E checked \in SUBSET Blocks :
          \E succ \in [Blocks -> {<< >>} \cup {<<b>> : b \in Blocks} \cup {<<b, c>> : b, c \in Blocks}] :
             Compile(succ, checked)
    \/ Search
    \/ \E budgetOf \in 0 .. MaxBlocks : Enter(budgetOf)
    \/ \E next \in Blocks : Jump(next)
    \/ Leave

BudgetSpec == BudgetInit /\ [][BudgetNext]_budgetVars
-----------------------------------------------------------------------------
\* The copy does what the range does: it comes to no check at which the range would have left,
\* whatever the graph of the range is and whatever way round its loops a run goes (the comment
\* on the copy: "each check here would have gone on").
CopyGoesOn == stage = "run" /\ inCopy /\ block \in checking => rest # 0
=============================================================================

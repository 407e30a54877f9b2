------------------------------- MODULE Cells -------------------------------
(***************************************************************************)
(* What a compiled program and the Lean code that observes it share while  *)
(* it runs, BapCells of native/bap_jit.cpp: which accesses need no call of *)
(* the memory observer, the code site that waits until something reads the *)
(* pc, what an error stops, and what the Lean code of a site reads of the  *)
(* slots.  What the program computes, and what the observers do, is free:  *)
(* they may return, stop the run, throw, and change the filter.            *)
(***************************************************************************)
EXTENDS Naturals

CONSTANTS
    Sites,          \* the pcs of the code sites of the program
    FlushSites,     \* those of them that leave the slots for Lean, if it is optimized
    Top,            \* the last address, after which 64 bits start again
    Sizes,          \* the sizes of accesses
    Outputs,        \* the outputs of the program
    Contents,       \* what one may hold
    Updates,        \* what Lean asks updateMemoryFilter for: first addresses and new ranges
    MaxSerial,      \* bound: the runs
    Nought          \* none of them

VARIABLES
    filter,         \* MemoryFilter::ranges
    running, serial, optimized, quietSites,
    leanRan, pendingSite,
    quiet,          \* quietFirst and quietLast, of loads and of stores
    failed,         \* there is an error
    pageEntries,    \* compiled code has the page of the accesses in hand
    regs,           \* the outputs as the program has them: none if not reached yet
    slotsOf,        \* the slots of the outputs, as they are in the state
    flushedPc,
    siteReport,     \* of which run the slots were said, and what was said of each
    fresh, mirror,  \* LiveCache: nothing was asked yet in this run, and what Lean has
    site, leanPc,   \* history: the code site that the program is after, and the pc of Lean
    last            \* history: what happened last

run_     == <<serial, optimized, quietSites>>
live     == <<regs, slotsOf, flushedPc, siteReport, fresh, mirror>>
cellVars == <<filter, running, run_, leanRan, pendingSite, quiet, failed, pageEntries, live, site, leanPc, last>>

Range == [first : 0 .. Top, last : 0 .. Top, reads : BOOLEAN, writes : BOOLEAN]

\* An access has a byte and is no longer than all of memory.
ASSUME CellsAssumption ==
    /\ Top \in Nat /\ Sizes \subseteq 1 .. Top + 1
    /\ Nought \notin Sites /\ Nought \notin Range
    /\ \A u \in Updates : u.added \subseteq Range

NoQuiet == [w \in BOOLEAN |-> [first |-> 1, last |-> 0]]
Lets(r, write) == IF write THEN r.writes ELSE r.reads

\* The last address of an access, in the 64 bits of an address.
LastOf(address, size) == (address + size - 1) % (Top + 1)

-----------------------------------------------------------------------------
(* MemoryFilter. *)

\* By the last range that starts no later than the access.
quietRange(address, size, write) ==
    LET below == {r \in filter : r.first <= address} IN
    IF LastOf(address, size) < address \/ below = {} THEN Nought
    ELSE LET r == CHOOSE q \in below : \A o \in below : o.first <= q.first
         IN  IF LastOf(address, size) <= r.last /\ Lets(r, write) THEN r ELSE Nought

\* Whether a range goes in apart from those there.
Fits(ranges, r) ==
    /\ r.first <= r.last
    /\ \A q \in ranges : q.first > r.first => q.first > r.last
    /\ \A q \in ranges : q.first <= r.first => q.last < r.first

\* The filter is left as it was or updated: the ranges that start at `removed' are taken out,
\* and those `added' put in, in any order, up to one that is not apart.
Updated ==
    \/ filter' = filter
    \/ \E u \in Updates :
          LET kept == {r \in filter : r.first \notin u.removed} IN
          \E put \in SUBSET u.added :
             /\ \A r \in put : Fits((kept \cup put) \ {r}, r)
             /\ put # u.added => \E r \in u.added \ put : ~Fits(kept \cup put, r)
             /\ filter' = kept \cup put

-----------------------------------------------------------------------------
(* Calls of Lean code. *)

forgetQuiet == quiet' = NoQuiet

\* Mutant: compiled code keeps the pages that it has in hand.
failCells_Pages == failed' = TRUE /\ quiet' = NoQuiet /\ UNCHANGED pageEntries

\* Nothing takes effect any more.
failCells == failed' = TRUE /\ quiet' = NoQuiet /\ pageEntries' = FALSE

Fine == UNCHANGED <<failed, pageEntries>>

\* Mutant: Lean asks for all again, and is told what it was not told yet.
SaidBefore_NoReset == IF siteReport.serial # serial THEN [o \in Outputs |-> Nought] ELSE siteReport.said

\* What was said of the slots that Lean still has: of this run, and since its cache was made.
SaidBefore ==
    IF siteReport.serial # serial \/ fresh THEN [o \in Outputs |-> Nought] ELSE siteReport.said

\* The Lean code of a site may ask what the run is there (liveChanges): it is told the slots
\* that are not what was last said of them in this run, or nothing if they cannot be had.
LiveChanges(pc) ==
    \/ /\ ~optimized \/ flushedPc' = pc
       /\ LET changed == {o \in Outputs : slotsOf'[o] # Nought /\ slotsOf'[o] # SaidBefore[o]}
              over(f) == [o \in Outputs |-> IF o \in changed THEN slotsOf'[o] ELSE f[o]]
          IN  /\ siteReport' = [serial |-> serial, said |-> over(SaidBefore)]
              /\ mirror' = over(mirror)
       /\ fresh' = FALSE
       /\ last' = [what |-> "live"]
    \/ /\ UNCHANGED <<siteReport, fresh, mirror>>
       /\ last' = [what |-> "site"]

\* The Lean code of a site makes a run of its own, whose sites may ask too: it leaves Lean no
\* cache of this one, and the report as it was or of that run (serial 0 for that of another).
NestedRun ==
    /\ running /\ last.what \in {"live", "site"} /\ ~fresh
    /\ fresh' = TRUE /\ mirror' = [o \in Outputs |-> Nought]
    /\ siteReport' \in {siteReport, [serial |-> 0, said |-> [o \in Outputs |-> Nought]]}
    /\ last' = [what |-> "nested"]
    /\ UNCHANGED <<filter, running, run_, leanRan, pendingSite, quiet, failed, pageEntries, regs, slotsOf,
                   flushedPc, site, leanPc>>

\* A program begins where the step is, which the code observer has been told of.
BeginProgram(pc, isOptimized, quietly) ==
    /\ ~running /\ serial < MaxSerial
    /\ running' = TRUE /\ serial' = serial + 1
    /\ optimized' = isOptimized /\ quietSites' = quietly
    /\ leanRan' = FALSE /\ pendingSite' = Nought /\ quiet' = NoQuiet /\ failed' = FALSE /\ pageEntries' = FALSE
    /\ regs' = [o \in Outputs |-> Nought] /\ slotsOf' = [o \in Outputs |-> Nought]
    /\ flushedPc' = Nought /\ fresh' = TRUE /\ mirror' = [o \in Outputs |-> Nought]
    /\ site' = pc /\ leanPc' = pc /\ last' = [what |-> "begin"]
    /\ Updated
    /\ UNCHANGED siteReport

EndProgram ==
    /\ running
    /\ running' = FALSE /\ last' = [what |-> "end"]
    /\ UNCHANGED <<filter, run_, leanRan, pendingSite, quiet, failed, pageEntries, live, site, leanPc>>

\* The program reaches an output: what is not optimized has it in its slot at once.
Writes(o, v) ==
    /\ running
    /\ regs' = [regs EXCEPT ![o] = v]
    /\ slotsOf' = IF optimized THEN slotsOf ELSE [slotsOf EXCEPT ![o] = v]
    /\ last' = [what |-> "write"]
    /\ UNCHANGED <<filter, running, run_, leanRan, pendingSite, quiet, failed, pageEntries, flushedPc, siteReport,
                   fresh, mirror, site, leanPc>>

\* A code site waits where it would only set the pc.
SiteWaits(pc) ==
    /\ running /\ ~failed /\ quietSites /\ ~leanRan
    /\ pendingSite' = pc /\ site' = pc
    /\ last' = [what |-> "waits"]
    /\ UNCHANGED <<filter, running, run_, leanRan, quiet, failed, pageEntries, live, leanPc>>

\* And else calls the code observer, with the slots as they are if the site is to leave them.
SiteCalls(pc) ==
    /\ running /\ ~failed /\ ~(quietSites /\ ~leanRan)
    /\ site' = pc /\ leanPc' = pc
    /\ slotsOf' = IF optimized /\ pc \in FlushSites THEN regs ELSE slotsOf
    /\ flushedPc' = IF optimized /\ pc \in FlushSites THEN pc ELSE flushedPc
    /\ LiveChanges(pc)
    /\ Updated
    /\ \/ forgetQuiet /\ Fine /\ UNCHANGED running
       \/ forgetQuiet /\ Fine /\ running' = FALSE
       \/ failCells /\ running' = FALSE
    /\ UNCHANGED <<run_, leanRan, pendingSite, regs>>

\* After an error a site ends the program.
SiteFailed ==
    /\ running /\ failed
    /\ running' = FALSE /\ last' = [what |-> "end"]
    /\ UNCHANGED <<filter, run_, leanRan, pendingSite, quiet, failed, pageEntries, live, site, leanPc>>

\* Mutant: the site that waited is not told before the access that reads the pc.
Waited_Untold == UNCHANGED leanPc /\ pendingSite' = Nought

\* The site that waited is told to the code observer before the memory observer.
Waited == leanPc' = (IF pendingSite # Nought THEN pendingSite ELSE leanPc) /\ pendingSite' = Nought

\* Mutant: what the memory observer may have changed of what is quiet is not looked at again.
Observed_Remembers == UNCHANGED quiet

Observed == forgetQuiet

\* The access itself: with the page in hand an instruction does it, whatever else there is,
\* and else the call that finds the page does it unless there is an error.
Effect == pageEntries' \/ ~failed'

\* An access, of a load or a store.  Compiled code first looks at the last range that was let
\* through, then the filter does, and else the observers are called.
Accesses(write, address, size) ==
    /\ running
    /\ LET end    == LastOf(address, size)
           cached == quiet[write].first <= address /\ end <= quiet[write].last /\ end >= address
           range  == quietRange(address, size, write)
           lets   == \E r \in filter : /\ r.first <= address /\ address + size - 1 <= r.last
                                       /\ Lets(r, write)
           does(calls) == last' = [what |-> "access", before |-> failed, after |-> failed', calls |-> calls,
                                   lets |-> lets, pcRight |-> leanPc' = site, effect |-> Effect]
       IN  \/ /\ cached \/ failed
              /\ UNCHANGED <<filter, leanRan, pendingSite, quiet, failed, leanPc>>
              /\ pageEntries' = (pageEntries \/ ~failed)
              /\ does(FALSE)
           \/ /\ ~cached /\ ~failed /\ range # Nought
              /\ quiet' = [quiet EXCEPT ![write] = [first |-> range.first, last |-> range.last]]
              /\ UNCHANGED <<filter, leanRan, pendingSite, failed, leanPc>>
              /\ pageEntries' = TRUE
              /\ does(FALSE)
           \/ \* The observers are called, and let the access be.
              /\ ~cached /\ ~failed /\ range = Nought
              /\ leanRan' = TRUE
              /\ Waited /\ Updated /\ Observed
              /\ pageEntries' = TRUE
              /\ UNCHANGED failed
              /\ does(TRUE)
           \/ \* The memory observer throws.
              /\ ~cached /\ ~failed /\ range = Nought
              /\ leanRan' = TRUE
              /\ Waited /\ Updated /\ failCells
              /\ does(TRUE)
           \/ \* The code observer of the site that waited stops the run or throws.
              /\ ~cached /\ ~failed /\ range = Nought /\ pendingSite # Nought
              /\ leanRan' = TRUE
              /\ Waited /\ Updated /\ failCells
              /\ does(FALSE)
    /\ UNCHANGED <<running, run_, live, site>>
-----------------------------------------------------------------------------
CellsInit ==
    /\ filter = {} /\ running = FALSE /\ serial = 0 /\ optimized = FALSE /\ quietSites = FALSE
    /\ leanRan = FALSE /\ pendingSite = Nought /\ quiet = NoQuiet /\ failed = FALSE /\ pageEntries = FALSE
    /\ regs = [o \in Outputs |-> Nought] /\ slotsOf = [o \in Outputs |-> Nought]
    /\ flushedPc = Nought /\ siteReport = [serial |-> 0, said |-> [o \in Outputs |-> Nought]]
    /\ fresh = TRUE /\ mirror = [o \in Outputs |-> Nought]
    /\ site = Nought /\ leanPc = Nought /\ last = [what |-> "end"]

CellsNext ==
    \/ \E pc \in Sites, isOptimized \in BOOLEAN, quietly \in BOOLEAN : BeginProgram(pc, isOptimized, quietly)
    \/ \E o \in Outputs, v \in Contents : Writes(o, v)
    \/ \E pc \in Sites : SiteWaits(pc) \/ SiteCalls(pc)
    \/ \E write \in BOOLEAN, address \in 0 .. Top, size \in Sizes : Accesses(write, address, size)
    \/ SiteFailed
    \/ NestedRun
    \/ EndProgram

CellsSpec == CellsInit /\ [][CellsNext]_cellVars
-----------------------------------------------------------------------------
\* The memory observer is called for an access if and only if it does not lie wholly within one
\* range that the filter lets it through in now, whatever range was let through before and
\* whatever Lean code changed since, but for a run that fails at the site that waited
\* (obligation 16: quietRange, and quietFirst and quietLast of compiled code).
QuietSound ==
    last.what = "access" /\ ~last.before => /\ last.calls => ~last.lets
                                            /\ ~last.calls /\ ~last.after => last.lets

\* When the memory observer is called Lean has the pc of the code site that the program is
\* after, also if that site waited.
PcKnown == last.what = "access" /\ last.calls => last.pcRight

\* After an error no access takes effect and no observer is called (obligation 4).
AfterError == last.what = "access" => /\ last.after => ~last.effect
                                      /\ last.before => ~last.calls

\* What Lean has of a run at a site where it asked is what the program has there, whatever it
\* was told before in this run or in another.
LiveRight == last.what = "live" => \A o \in Outputs : regs[o] # Nought => mirror[o] = regs[o]
=============================================================================

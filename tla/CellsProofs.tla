---------------------------- MODULE CellsProofs ----------------------------
(***************************************************************************)
(* Proofs about Cells: what is said there of the observers of a compiled   *)
(* program holds for addresses of any width, any filter, and any number of *)
(* runs, sites and outputs.                                                *)
(***************************************************************************)
EXTENDS Cells, TLAPS, WellFoundedInduction

-----------------------------------------------------------------------------
(* The filter. *)

\* Ranges of the filter have no address in common.
Apart(ranges) ==
    /\ ranges \subseteq Range
    /\ \A r \in ranges : r.first <= r.last
    /\ \A r, q \in ranges : r # q => r.last < q.first \/ q.last < r.first

\* A range that the filter has for the whole access.
Within(r, address, size, write) ==
    r \in filter /\ r.first <= address /\ address + size - 1 <= r.last /\ Lets(r, write)

\* An access starts again at 0 exactly if its last address is before its first.
LEMMA LastOfFacts ==
    ASSUME NEW address \in 0 .. Top, NEW size \in Sizes
    PROVE  /\ LastOf(address, size) \in 0 .. Top
           /\ LastOf(address, size) >= address => LastOf(address, size) = address + size - 1
           /\ address + size - 1 <= Top => LastOf(address, size) = address + size - 1
  <1>1. Top \in Nat /\ size \in 1 .. Top + 1 /\ address \in Nat /\ address <= Top
    BY CellsAssumption
  <1> DEFINE x == address + size - 1
  <1>2. x \in Nat /\ x <= Top + Top /\ x - (Top + 1) < address
    BY <1>1
  <1>3. ASSUME x <= Top PROVE x % (Top + 1) = x
    BY <1>1, <1>2, <1>3
  <1>4. ASSUME x > Top PROVE x % (Top + 1) = x - (Top + 1)
    BY <1>1, <1>2, <1>4
  <1> QED BY <1>1, <1>2, <1>3, <1>4 DEF LastOf

\* Among the ranges that start no later than an address there is one that starts last.
LEMMA LastBelow ==
    ASSUME NEW address \in Nat, NEW below, below # {},
           \A r \in below : r.first \in Nat /\ r.first <= address
    PROVE  \E q \in below : \A o \in below : o.first <= q.first
  <1> DEFINE T == {address - r.first : r \in below}
  <1>1. T \subseteq Nat /\ T # {}
    OBVIOUS
  <1>2. PICK x \in T : \A y \in T : ~(<<y, x>> \in OpToRel(<, Nat))
    BY <1>1, WFMin, NatLessThanWellFounded
  <1>3. PICK q \in below : x = address - q.first
    OBVIOUS
  <1>4. ASSUME NEW o \in below PROVE o.first <= q.first
    <2>1. address - o.first \in T /\ address - o.first \in Nat /\ x \in Nat
      BY <1>1
    <2>2. ~(address - o.first < x)
      BY <2>1, <1>2 DEF OpToRel
    <2> QED BY <2>1, <2>2, <1>3
  <1> QED BY <1>4

\* quietRange finds the range that lets the whole access through, if there is one.
LEMMA QuietRangeFacts ==
    ASSUME Apart(filter), NEW address \in 0 .. Top, NEW size \in Sizes, NEW write \in BOOLEAN
    PROVE  /\ quietRange(address, size, write) # Nought =>
                 Within(quietRange(address, size, write), address, size, write)
           /\ (\E r \in filter : Within(r, address, size, write)) =>
                 quietRange(address, size, write) # Nought
  <1> DEFINE below == {r \in filter : r.first <= address}
             r == CHOOSE q \in below : \A o \in below : o.first <= q.first
             end == LastOf(address, size)
  <1>1. Top \in Nat /\ size \in Nat /\ size >= 1 /\ address \in Nat
    BY CellsAssumption
  <1>2. \A o \in filter : o \in Range /\ o.first \in Nat /\ o.last \in Nat /\ o.last <= Top
    BY <1>1 DEF Apart, Range
  <1>3. below # {} => r \in below /\ \A o \in below : o.first <= r.first
    <2>1. below # {} => \E q \in below : \A o \in below : o.first <= q.first
      BY <1>1, <1>2, LastBelow
    <2> QED BY <2>1
  <1>q. quietRange(address, size, write) =
          IF end < address \/ below = {} THEN Nought
          ELSE IF end <= r.last /\ Lets(r, write) THEN r ELSE Nought
    BY Zenon DEF quietRange
  <1> HIDE DEF below, r, end
  <1>4. ASSUME quietRange(address, size, write) # Nought
        PROVE  Within(quietRange(address, size, write), address, size, write)
    <2>1. /\ end >= address /\ below # {} /\ end <= r.last /\ Lets(r, write)
          /\ quietRange(address, size, write) = r
      BY <1>1, <1>4, <1>q, LastOfFacts DEF end
    <2> QED BY <2>1, <1>1, <1>2, <1>3, LastOfFacts DEF Within, below, end
  <1>5. ASSUME NEW q \in filter, Within(q, address, size, write)
        PROVE  quietRange(address, size, write) # Nought
    <2>1. q \in below /\ address + size - 1 <= q.last /\ Lets(q, write)
      BY <1>5 DEF Within, below
    <2>2. end = address + size - 1 /\ end >= address
      BY <2>1, <1>1, <1>2, LastOfFacts DEF end
    <2>3. r = q
      <3>1. r \in below /\ q.first <= r.first /\ r.first <= address
        BY <2>1, <1>3 DEF below
      <3> QED BY <3>1, <2>1, <2>2, <1>1, <1>2 DEF Apart, below
    <2>4. quietRange(address, size, write) = q
      BY <2>1, <2>2, <2>3, <1>1, <1>q
    <2> QED BY <2>4, <1>2, CellsAssumption
  <1> QED BY <1>4, <1>5

\* updateMemoryFilter keeps the ranges apart, also if it stops at one that is not.
LEMMA UpdatedApart ==
    ASSUME Apart(filter), Updated
    PROVE  Apart(filter')
  <1>1. CASE filter' = filter
    BY <1>1
  <1>2. CASE filter' # filter
    <2>u. PICK u \in Updates : \E put \in SUBSET u.added :
            LET kept == {r \in filter : r.first \notin u.removed}
            IN  (\A r \in put : Fits((kept \cup put) \ {r}, r)) /\ filter' = kept \cup put
      BY <1>2 DEF Updated
    <2> DEFINE kept == {r \in filter : r.first \notin u.removed}
    <2>1. PICK put \in SUBSET u.added :
            (\A r \in put : Fits((kept \cup put) \ {r}, r)) /\ filter' = kept \cup put
      BY <2>u
    <2>2. filter' \subseteq Range
      BY <2>1, CellsAssumption DEF Apart
    <2>3. \A r \in put : r.first <= r.last
      BY <2>1 DEF Fits
    <2>4. ASSUME NEW r \in filter', NEW q \in filter', r # q, r \in put
          PROVE  r.last < q.first \/ q.last < r.first
      <3>1. q \in (kept \cup put) \ {r} /\ r.first \in Nat /\ q.first \in Nat
        BY <2>1, <2>2, <2>4, CellsAssumption DEF Range
      <3>2. /\ q.first > r.first => q.first > r.last
            /\ q.first <= r.first => q.last < r.first
        BY <2>1, <2>4, <3>1 DEF Fits
      <3> QED BY <3>1, <3>2, <2>2, CellsAssumption DEF Range
    <2> QED BY <2>1, <2>2, <2>3, <2>4 DEF Apart
  <1> QED BY <1>1, <1>2

-----------------------------------------------------------------------------
(* The inductive invariant. *)

CellsTypeOK ==
    /\ running \in BOOLEAN /\ optimized \in BOOLEAN /\ quietSites \in BOOLEAN /\ leanRan \in BOOLEAN
    /\ failed \in BOOLEAN /\ pageEntries \in BOOLEAN /\ fresh \in BOOLEAN
    /\ quiet \in [BOOLEAN -> [first : Nat, last : Nat]]
    /\ flushedPc \in FlushSites \cup {Nought}

\* What compiled code lets through is a range of the filter as it is now.
QuietRight ==
    \A w \in BOOLEAN : quiet[w].first <= quiet[w].last =>
        \E r \in filter : r.first = quiet[w].first /\ r.last = quiet[w].last /\ Lets(r, w)

\* After an error compiled code has nothing by which an access takes effect.
FailRight == failed => ~pageEntries /\ quiet = NoQuiet

\* A site waits only in a run of which no Lean code saw anything, and if none waits Lean has
\* the pc of the last.
PendingRight ==
    running => IF pendingSite # Nought THEN pendingSite = site /\ quietSites /\ ~leanRan
               ELSE leanPc = site

Nothing == [o \in Outputs |-> Nought]

\* What is not optimized has all outputs in the slots, and what was said in this run, to the
\* cache that Lean has of it, is what is in the cache.
LiveKnown ==
    /\ ~optimized => slotsOf = regs
    /\ IF fresh THEN mirror = Nothing
       ELSE siteReport.serial = serial /\ siteReport.said = mirror

CellsIInv == CellsTypeOK /\ Apart(filter) /\ QuietRight /\ FailRight /\ PendingRight /\ LiveKnown

LEMMA NoQuietFacts ==
    /\ NoQuiet \in [BOOLEAN -> [first : Nat, last : Nat]]
    /\ \A w \in BOOLEAN : NoQuiet[w].first = 1 /\ NoQuiet[w].last = 0
  BY DEF NoQuiet

\* When nothing is let through without a look at the filter, it may change.
LEMMA ForgottenRight ==
    ASSUME quiet' = NoQuiet
    PROVE  QuietRight' /\ quiet' \in [BOOLEAN -> [first : Nat, last : Nat]]
  BY NoQuietFacts DEF QuietRight

LEMMA CellsInitRight == CellsInit => CellsIInv /\ QuietSound /\ PcKnown /\ AfterError /\ LiveRight
  <1> SUFFICES ASSUME CellsInit PROVE CellsIInv /\ QuietSound /\ PcKnown /\ AfterError /\ LiveRight
    OBVIOUS
  <1>1. CellsTypeOK /\ QuietRight
    <2>1. quiet = NoQuiet
      BY DEF CellsInit
    <2>2. QuietRight /\ quiet \in [BOOLEAN -> [first : Nat, last : Nat]]
      BY <2>1, NoQuietFacts DEF QuietRight
    <2> QED BY <2>2 DEF CellsInit, CellsTypeOK
  <1>2. Apart(filter)
    BY DEF CellsInit, Apart
  <1>3. FailRight /\ PendingRight /\ LiveKnown
    BY DEF CellsInit, FailRight, PendingRight, LiveKnown, Nothing
  <1>4. QuietSound /\ PcKnown /\ AfterError /\ LiveRight
    BY DEF CellsInit, QuietSound, PcKnown, AfterError, LiveRight
  <1> QED BY <1>1, <1>2, <1>3, <1>4 DEF CellsIInv

-----------------------------------------------------------------------------
(* Accesses. *)

\* What an access finds of the memory observer before it calls anything.
LEMMA CachedLets ==
    ASSUME CellsIInv, NEW write \in BOOLEAN, NEW address \in 0 .. Top, NEW size \in Sizes,
           quiet[write].first <= address, LastOf(address, size) <= quiet[write].last,
           LastOf(address, size) >= address
    PROVE  ~failed /\ \E r \in filter : Within(r, address, size, write)
  <1>1. /\ quiet[write].first \in Nat /\ quiet[write].last \in Nat /\ Top \in Nat
        /\ LastOf(address, size) \in Nat /\ address \in Nat
        /\ LastOf(address, size) = address + size - 1
    BY LastOfFacts, CellsAssumption DEF CellsIInv, CellsTypeOK
  <1>2. quiet[write].first <= quiet[write].last
    BY <1>1
  <1>3. ~failed
    BY <1>2, NoQuietFacts DEF CellsIInv, FailRight
  <1>4. PICK r \in filter : r.first = quiet[write].first /\ r.last = quiet[write].last /\ Lets(r, write)
    BY <1>2 DEF CellsIInv, QuietRight
  <1> QED BY <1>1, <1>3, <1>4 DEF Within

LEMMA AccessRight ==
    ASSUME CellsIInv, NEW write \in BOOLEAN, NEW address \in 0 .. Top, NEW size \in Sizes,
           Accesses(write, address, size)
    PROVE  CellsIInv' /\ QuietSound' /\ PcKnown' /\ AfterError' /\ LiveRight'
  <1> DEFINE end    == LastOf(address, size)
             cached == quiet[write].first <= address /\ end <= quiet[write].last /\ end >= address
             range  == quietRange(address, size, write)
             lets   == \E r \in filter : /\ r.first <= address /\ address + size - 1 <= r.last
                                         /\ Lets(r, write)
             does(calls) == last' = [what |-> "access", before |-> failed, after |-> failed',
                                     calls |-> calls, lets |-> lets, pcRight |-> leanPc' = site,
                                     effect |-> Effect]
             told   == leanRan' = TRUE /\ Waited /\ Updated
             others == UNCHANGED <<running, run_, live, site>>
             called == ~cached /\ ~failed /\ range = Nought
  <1>0. running /\ others
    BY Zenon DEF Accesses
  <1>a. cached => ~failed /\ lets
    BY CachedLets DEF Within
  <1>b. range # Nought => lets /\ range \in filter /\ Lets(range, write)
                          /\ range.first \in Nat /\ range.last \in Nat
    <2>1. range # Nought => Within(range, address, size, write)
      BY QuietRangeFacts DEF CellsIInv
    <2> QED BY <2>1, CellsAssumption DEF Within, CellsIInv, Apart, Range
  <1>c. range = Nought => ~lets
    BY QuietRangeFacts DEF CellsIInv, Within
  <1>5. \/ /\ cached \/ failed
           /\ UNCHANGED <<filter, leanRan, pendingSite, quiet, failed, leanPc>>
           /\ pageEntries' = (pageEntries \/ ~failed) /\ does(FALSE)
        \/ /\ ~cached /\ ~failed /\ range # Nought
           /\ quiet' = [quiet EXCEPT ![write] = [first |-> range.first, last |-> range.last]]
           /\ UNCHANGED <<filter, leanRan, pendingSite, failed, leanPc>>
           /\ pageEntries' = TRUE /\ does(FALSE)
        \/ called /\ told /\ Observed /\ pageEntries' = TRUE /\ UNCHANGED failed /\ does(TRUE)
        \/ called /\ told /\ failCells /\ does(TRUE)
        \/ called /\ told /\ failCells /\ does(FALSE)
    BY Zenon DEF Accesses
  <1>6. LiveKnown'
    BY <1>0 DEF CellsIInv, LiveKnown, live, run_, Nothing
  <1>7. LiveRight'
    BY <1>5 DEF LiveRight
  <1>8. /\ running' = running /\ optimized' = optimized /\ quietSites' = quietSites
        /\ fresh' = fresh /\ flushedPc' = flushedPc /\ site' = site
    BY <1>0 DEF live, run_
  <1> HIDE DEF end, cached, range, lets
  <1>9. CASE /\ cached \/ failed
             /\ UNCHANGED <<filter, leanRan, pendingSite, quiet, failed, leanPc>>
             /\ pageEntries' = (pageEntries \/ ~failed) /\ does(FALSE)
    <2>1. CellsTypeOK' /\ Apart(filter)' /\ QuietRight' /\ FailRight' /\ PendingRight'
      BY <1>0, <1>8, <1>9 DEF CellsIInv, CellsTypeOK, QuietRight, FailRight, PendingRight, Apart
    <2>2. QuietSound' /\ PcKnown'
      BY <1>9, <1>a DEF QuietSound, PcKnown
    <2>3. AfterError'
      BY <1>9 DEF AfterError, Effect, CellsIInv, FailRight, CellsTypeOK
    <2> QED BY <2>1, <2>2, <2>3, <1>6, <1>7 DEF CellsIInv
  <1>10. CASE /\ ~cached /\ ~failed /\ range # Nought
              /\ quiet' = [quiet EXCEPT ![write] = [first |-> range.first, last |-> range.last]]
              /\ UNCHANGED <<filter, leanRan, pendingSite, failed, leanPc>>
              /\ pageEntries' = TRUE /\ does(FALSE)
    <2>1. CellsTypeOK'
      BY <1>8, <1>10, <1>b DEF CellsIInv, CellsTypeOK
    <2>2. QuietRight'
      BY <1>10, <1>b DEF CellsIInv, CellsTypeOK, QuietRight
    <2>3. Apart(filter)' /\ FailRight' /\ PendingRight'
      BY <1>8, <1>10 DEF CellsIInv, FailRight, PendingRight, Apart
    <2>4. QuietSound' /\ PcKnown' /\ AfterError'
      BY <1>10, <1>b DEF QuietSound, PcKnown, AfterError
    <2> QED BY <2>1, <2>2, <2>3, <2>4, <1>6, <1>7 DEF CellsIInv
  <1>11. ASSUME called /\ told, quiet' = NoQuiet
         PROVE  /\ Apart(filter)' /\ QuietRight' /\ PendingRight' /\ leanPc' = site
                /\ (failed' \in BOOLEAN /\ pageEntries' \in BOOLEAN => CellsTypeOK')
    <2>1. Apart(filter)'
      BY <1>11, UpdatedApart DEF CellsIInv, Apart
    <2>2. QuietRight' /\ quiet' \in [BOOLEAN -> [first : Nat, last : Nat]]
      BY <1>11, ForgottenRight
    <2>3. PendingRight' /\ leanPc' = site
      BY <1>0, <1>8, <1>11 DEF CellsIInv, PendingRight, Waited
    <2>4. failed' \in BOOLEAN /\ pageEntries' \in BOOLEAN => CellsTypeOK'
      BY <1>8, <1>11, <2>2 DEF CellsIInv, CellsTypeOK
    <2> QED BY <2>1, <2>2, <2>3, <2>4
  <1>12. CASE called /\ told /\ Observed /\ pageEntries' = TRUE /\ UNCHANGED failed /\ does(TRUE)
    <2>1. quiet' = NoQuiet /\ failed' = FALSE /\ ~failed
      BY <1>12 DEF Observed, forgetQuiet, CellsIInv, CellsTypeOK
    <2>2. CellsTypeOK' /\ FailRight'
      BY <1>11, <1>12, <2>1 DEF FailRight
    <2>3. QuietSound' /\ PcKnown' /\ AfterError'
      BY <1>11, <1>12, <2>1, <1>c DEF QuietSound, PcKnown, AfterError
    <2> QED BY <1>11, <1>12, <2>1, <2>2, <2>3, <1>6, <1>7 DEF CellsIInv
  <1>13. CASE called /\ told /\ failCells /\ (does(TRUE) \/ does(FALSE))
    <2>1. quiet' = NoQuiet /\ failed' = TRUE /\ pageEntries' = FALSE /\ failed = FALSE
      BY <1>13 DEF failCells, CellsIInv, CellsTypeOK
    <2>2. CellsTypeOK' /\ FailRight'
      BY <1>11, <1>13, <2>1 DEF FailRight
    <2>3. /\ last'.before = FALSE /\ last'.after = TRUE /\ last'.lets = FALSE
          /\ last'.pcRight = TRUE /\ last'.effect = FALSE
      <3>1. /\ (leanPc' = site) = TRUE /\ Effect = FALSE /\ lets = FALSE
        BY <1>11, <1>13, <2>1, <1>c DEF Effect, lets
      <3> DEFINE said(calls) == [what |-> "access", before |-> FALSE, after |-> TRUE, calls |-> calls,
                                 lets |-> FALSE, pcRight |-> TRUE, effect |-> FALSE]
      <3>2. last' = said(TRUE) \/ last' = said(FALSE)
        BY Zenon, <3>1, <1>13, <2>1
      <3> QED BY <3>2
    <2>4. QuietSound' /\ PcKnown' /\ AfterError'
      BY <2>3 DEF QuietSound, PcKnown, AfterError
    <2> QED BY <1>11, <1>13, <2>1, <2>2, <2>4, <1>6, <1>7 DEF CellsIInv
  <1> QED BY <1>5, <1>9, <1>10, <1>12, <1>13

-----------------------------------------------------------------------------
(* Code sites. *)

\* What the Lean code of a site is told makes its cache what the program has there.
LEMMA LiveChangesRight ==
    ASSUME CellsIInv, NEW pc \in Sites, LiveChanges(pc),
           slotsOf' = IF optimized /\ pc \in FlushSites THEN regs ELSE slotsOf,
           flushedPc' = IF optimized /\ pc \in FlushSites THEN pc ELSE flushedPc,
           UNCHANGED <<regs, run_>>
    PROVE  LiveKnown' /\ LiveRight' /\ last'.what \in {"live", "site"} /\ fresh' \in BOOLEAN
  <1>1. pc # Nought
    BY CellsAssumption
  <1>2. ~optimized \/ flushedPc' = pc => slotsOf' = regs
    BY <1>1 DEF CellsIInv, CellsTypeOK, LiveKnown
  <1>3. ~optimized' => slotsOf' = regs'
    BY DEF CellsIInv, CellsTypeOK, LiveKnown, run_
  <1>4. serial' = serial
    BY DEF run_
  <1>5. CASE ~optimized \/ flushedPc' = pc
    <2> DEFINE changed == {o \in Outputs : slotsOf'[o] # Nought /\ slotsOf'[o] # SaidBefore[o]}
               over(f) == [o \in Outputs |-> IF o \in changed THEN slotsOf'[o] ELSE f[o]]
    <2>1. CASE /\ siteReport' = [serial |-> serial, said |-> over(SaidBefore)]
               /\ mirror' = over(mirror)
               /\ fresh' = FALSE
               /\ last' = [what |-> "live"]
      <3>1. SaidBefore = mirror
        BY DEF CellsIInv, LiveKnown, SaidBefore, Nothing
      <3>2. siteReport'.serial = serial' /\ siteReport'.said = mirror'
        BY <2>1, <3>1, <1>4
      <3>3. \A o \in Outputs : regs'[o] # Nought => mirror'[o] = regs'[o]
        BY <2>1, <3>1, <1>2, <1>5
      <3> QED BY <3>2, <3>3, <2>1, <1>3 DEF LiveKnown, LiveRight
    <2>2. CASE UNCHANGED <<siteReport, fresh, mirror>> /\ last' = [what |-> "site"]
      BY <2>2, <1>3, <1>4 DEF LiveKnown, LiveRight, CellsIInv, CellsTypeOK, Nothing
    <2> QED BY Zenon, <2>1, <2>2 DEF LiveChanges
  <1>6. CASE ~(~optimized \/ flushedPc' = pc)
    <2>1. UNCHANGED <<siteReport, fresh, mirror>> /\ last' = [what |-> "site"]
      BY Zenon, <1>6 DEF LiveChanges
    <2> QED BY <2>1, <1>3, <1>4 DEF LiveKnown, LiveRight, CellsIInv, CellsTypeOK, Nothing
  <1> QED BY <1>5, <1>6

LEMMA SiteCallsRight ==
    ASSUME CellsIInv, NEW pc \in Sites, SiteCalls(pc)
    PROVE  CellsIInv' /\ QuietSound' /\ PcKnown' /\ AfterError' /\ LiveRight'
  <1>1. LiveKnown' /\ LiveRight' /\ last'.what \in {"live", "site"} /\ fresh' \in BOOLEAN
    <2>1. /\ LiveChanges(pc) /\ UNCHANGED <<regs, run_>>
          /\ slotsOf' = IF optimized /\ pc \in FlushSites THEN regs ELSE slotsOf
          /\ flushedPc' = IF optimized /\ pc \in FlushSites THEN pc ELSE flushedPc
      BY DEF SiteCalls
    <2> QED BY <2>1, LiveChangesRight
  <1>2. QuietSound' /\ PcKnown' /\ AfterError'
    BY <1>1 DEF QuietSound, PcKnown, AfterError
  <1>3. Apart(filter)'
    BY UpdatedApart DEF SiteCalls, CellsIInv, Apart
  <1>4. /\ quiet' = NoQuiet /\ running' \in BOOLEAN
        /\ \/ failed' = failed /\ pageEntries' = pageEntries
           \/ failed' = TRUE /\ pageEntries' = FALSE
    BY DEF SiteCalls, forgetQuiet, Fine, failCells, CellsIInv, CellsTypeOK
  <1>5. QuietRight' /\ quiet' \in [BOOLEAN -> [first : Nat, last : Nat]]
    BY <1>4, ForgottenRight
  <1>6. CellsTypeOK'
    BY <1>1, <1>4, <1>5 DEF SiteCalls, CellsIInv, CellsTypeOK, run_
  <1>8. FailRight'
    BY <1>4 DEF CellsIInv, FailRight
  <1>7. PendingRight'
    BY DEF SiteCalls, CellsIInv, PendingRight, run_
  <1> QED BY <1>1, <1>2, <1>3, <1>5, <1>6, <1>7, <1>8 DEF CellsIInv

-----------------------------------------------------------------------------
(* All other steps. *)

LEMMA BeginRight ==
    ASSUME CellsIInv, NEW pc \in Sites, NEW isOptimized \in BOOLEAN, NEW quietly \in BOOLEAN,
           BeginProgram(pc, isOptimized, quietly)
    PROVE  CellsIInv' /\ QuietSound' /\ PcKnown' /\ AfterError' /\ LiveRight'
  <1>1. Apart(filter)'
    BY UpdatedApart DEF BeginProgram, CellsIInv, Apart
  <1>2. QuietRight' /\ quiet' \in [BOOLEAN -> [first : Nat, last : Nat]]
    BY ForgottenRight DEF BeginProgram
  <1>3. CellsTypeOK' /\ FailRight'
    BY <1>2 DEF BeginProgram, CellsTypeOK, FailRight
  <1>4. PendingRight' /\ LiveKnown'
    BY DEF BeginProgram, PendingRight, LiveKnown, Nothing
  <1>5. QuietSound' /\ PcKnown' /\ AfterError' /\ LiveRight'
    BY DEF BeginProgram, QuietSound, PcKnown, AfterError, LiveRight
  <1> QED BY <1>1, <1>2, <1>3, <1>4, <1>5 DEF CellsIInv

\* Steps that leave the filter, what is let through, and errors alone.
LEMMA QuietStays ==
    ASSUME CellsIInv, UNCHANGED <<filter, quiet, failed, pageEntries>>
    PROVE  /\ Apart(filter)' /\ QuietRight' /\ FailRight'
           /\ failed' \in BOOLEAN /\ pageEntries' \in BOOLEAN
           /\ quiet' \in [BOOLEAN -> [first : Nat, last : Nat]]
  BY DEF CellsIInv, CellsTypeOK, Apart, QuietRight, FailRight

LEMMA OtherRight ==
    ASSUME CellsIInv,
           \/ \E o \in Outputs, v \in Contents : Writes(o, v)
           \/ \E pc \in Sites : SiteWaits(pc)
           \/ SiteFailed \/ NestedRun \/ EndProgram
    PROVE  CellsIInv' /\ QuietSound' /\ PcKnown' /\ AfterError' /\ LiveRight'
  <1>1. CASE \E o \in Outputs, v \in Contents : Writes(o, v)
    <2>1. PICK o \in Outputs, v \in Contents : Writes(o, v)
      BY <1>1
    <2>2. UNCHANGED <<filter, quiet, failed, pageEntries>>
      BY <2>1 DEF Writes
    <2>3. LiveKnown'
      BY <2>1 DEF Writes, CellsIInv, LiveKnown, run_, CellsTypeOK, Nothing
    <2>4. CellsTypeOK' /\ PendingRight'
      BY <2>1, <2>2, QuietStays DEF Writes, CellsIInv, CellsTypeOK, PendingRight, run_
    <2>5. QuietSound' /\ PcKnown' /\ AfterError' /\ LiveRight'
      BY <2>1 DEF Writes, QuietSound, PcKnown, AfterError, LiveRight
    <2> QED BY <2>2, <2>3, <2>4, <2>5, QuietStays DEF CellsIInv
  <1>2. CASE \E pc \in Sites : SiteWaits(pc)
    <2>1. PICK pc \in Sites : SiteWaits(pc)
      BY <1>2
    <2>2. UNCHANGED <<filter, quiet, failed, pageEntries>>
      BY <2>1 DEF SiteWaits
    <2>3. LiveKnown'
      BY <2>1 DEF SiteWaits, CellsIInv, LiveKnown, live, run_, Nothing
    <2>4. CellsTypeOK' /\ PendingRight'
      BY <2>1, <2>2, QuietStays, CellsAssumption
         DEF SiteWaits, CellsIInv, CellsTypeOK, PendingRight, run_, live
    <2>5. QuietSound' /\ PcKnown' /\ AfterError' /\ LiveRight'
      BY <2>1 DEF SiteWaits, QuietSound, PcKnown, AfterError, LiveRight
    <2> QED BY <2>2, <2>3, <2>4, <2>5, QuietStays DEF CellsIInv
  <1>3. CASE SiteFailed \/ EndProgram
    <2>2. UNCHANGED <<filter, quiet, failed, pageEntries>>
      BY <1>3 DEF SiteFailed, EndProgram
    <2>3. LiveKnown'
      BY <1>3 DEF SiteFailed, EndProgram, CellsIInv, LiveKnown, live, run_, Nothing
    <2>4. CellsTypeOK' /\ PendingRight'
      BY <1>3, <2>2, QuietStays
         DEF SiteFailed, EndProgram, CellsIInv, CellsTypeOK, PendingRight, run_, live
    <2>5. QuietSound' /\ PcKnown' /\ AfterError' /\ LiveRight'
      BY <1>3 DEF SiteFailed, EndProgram, QuietSound, PcKnown, AfterError, LiveRight
    <2> QED BY <2>2, <2>3, <2>4, <2>5, QuietStays DEF CellsIInv
  <1>4. CASE NestedRun
    <2>2. UNCHANGED <<filter, quiet, failed, pageEntries>>
      BY <1>4 DEF NestedRun
    <2>3. LiveKnown'
      BY <1>4 DEF NestedRun, CellsIInv, LiveKnown, run_, Nothing
    <2>4. CellsTypeOK' /\ PendingRight'
      BY <1>4, <2>2, QuietStays DEF NestedRun, CellsIInv, CellsTypeOK, PendingRight, run_
    <2>5. QuietSound' /\ PcKnown' /\ AfterError' /\ LiveRight'
      BY <1>4 DEF NestedRun, QuietSound, PcKnown, AfterError, LiveRight
    <2> QED BY <2>2, <2>3, <2>4, <2>5, QuietStays DEF CellsIInv
  <1> QED BY <1>1, <1>2, <1>3, <1>4

LEMMA CellsStepRight ==
    ASSUME CellsIInv, QuietSound, PcKnown, AfterError, LiveRight, [CellsNext]_cellVars
    PROVE  CellsIInv' /\ QuietSound' /\ PcKnown' /\ AfterError' /\ LiveRight'
  <1>1. CASE \E pc \in Sites, isOptimized \in BOOLEAN, quietly \in BOOLEAN : BeginProgram(pc, isOptimized, quietly)
    BY <1>1, BeginRight
  <1>2. CASE \E pc \in Sites : SiteCalls(pc)
    BY <1>2, SiteCallsRight
  <1>3. CASE \E write \in BOOLEAN, address \in 0 .. Top, size \in Sizes : Accesses(write, address, size)
    BY <1>3, AccessRight
  <1>4. CASE \/ \E o \in Outputs, v \in Contents : Writes(o, v)
             \/ \E pc \in Sites : SiteWaits(pc)
             \/ SiteFailed \/ NestedRun \/ EndProgram
    BY <1>4, OtherRight
  <1>5. CASE UNCHANGED cellVars
    <2>1. UNCHANGED <<filter, quiet, failed, pageEntries>>
      BY <1>5 DEF cellVars
    <2>2. CellsTypeOK' /\ PendingRight' /\ LiveKnown'
      BY <1>5, <2>1, QuietStays
         DEF cellVars, run_, live, CellsIInv, CellsTypeOK, PendingRight, LiveKnown, Nothing
    <2>3. QuietSound' /\ PcKnown' /\ AfterError' /\ LiveRight'
      BY <1>5 DEF cellVars, live, QuietSound, PcKnown, AfterError, LiveRight
    <2> QED BY <2>1, <2>2, <2>3, QuietStays DEF CellsIInv
  <1> QED BY <1>1, <1>2, <1>3, <1>4, <1>5 DEF CellsNext

-----------------------------------------------------------------------------
(* Theorems. *)

LEMMA CellsAlwaysRight == CellsSpec => [](CellsIInv /\ QuietSound /\ PcKnown /\ AfterError /\ LiveRight)
  <1> DEFINE Inv == CellsIInv /\ QuietSound /\ PcKnown /\ AfterError /\ LiveRight
  <1>1. CellsInit => Inv
    BY CellsInitRight
  <1>2. Inv /\ [CellsNext]_cellVars => Inv'
    BY CellsStepRight
  <1> QED BY <1>1, <1>2, PTL DEF CellsSpec

\* The memory observer is called for exactly the accesses that the filter as it is now does not
\* let through whole, for memory of any size and any changes of the filter by observers
\* (quietRange, and quietFirst and quietLast of compiled code).
THEOREM QuietAlwaysSound == CellsSpec => []QuietSound
  BY CellsAlwaysRight, PTL

\* Whenever the memory observer is called Lean has the pc of the site that the program is after
\* (pendingSite), for any sites.
THEOREM PcAlwaysKnown == CellsSpec => []PcKnown
  BY CellsAlwaysRight, PTL

\* After an error no access takes effect and no observer is called (failCells).
THEOREM NothingAfterError == CellsSpec => []AfterError
  BY CellsAlwaysRight, PTL

\* What Lean has of the outputs at a site where it asked is what the program has there, through
\* any number of runs and of runs made within a site (liveChanges).
THEOREM LiveAlwaysRight == CellsSpec => []LiveRight
  BY CellsAlwaysRight, PTL
=============================================================================

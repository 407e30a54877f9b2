---------------------------- MODULE PipesProofs ----------------------------
(***************************************************************************)
(* Proofs about Pipes: what is said there of reads and writes holds for    *)
(* any threads, processes, pipes of any capacity, counts and changes.      *)
(***************************************************************************)
EXTENDS Pipes, FiniteSetTheorems, TLAPS

-----------------------------------------------------------------------------
(* What the operators return. *)

LEMMA MinFacts ==
    ASSUME NEW a \in Int, NEW b \in Int
    PROVE  Min({a, b}) = IF a <= b THEN a ELSE b
  BY DEF Min

\* The bytes of a small write follow each other in a buffer.
Whole(s) ==
    \A i \in 1 .. Len(s) : s[i].of <= PipeBuf /\ s[i].at < s[i].of =>
        i < Len(s) /\ s[i + 1] = [s[i] EXCEPT !.at = @ + 1]

\* The next bytes of a write, from its d-th on.
Bytes(t, c, d, n) == [i \in 1 .. n |-> [by |-> t, of |-> c, at |-> d + i]]

LEMMA BytesFacts ==
    ASSUME NEW t \in Threads, NEW c \in Counts, NEW d \in Nat, NEW n \in Nat
    PROVE  /\ Bytes(t, c, d, n) \in Seq(Byte) /\ Len(Bytes(t, c, d, n)) = n
           /\ \A i \in 1 .. n : Bytes(t, c, d, n)[i] = [by |-> t, of |-> c, at |-> d + i]
  BY DEF Bytes, Byte

LEMMA WholeAppended ==
    ASSUME NEW s \in Seq(Byte), Whole(s), NEW t \in Threads, NEW c \in Counts, NEW d \in Nat, NEW n \in Nat,
           c <= PipeBuf => d + n >= c \/ n = 0
    PROVE  Whole(s \o Bytes(t, c, d, n)) /\ s \o Bytes(t, c, d, n) \in Seq(Byte)
           /\ Len(s \o Bytes(t, c, d, n)) = Len(s) + n
  <1> DEFINE b == Bytes(t, c, d, n)
             w == s \o b
  <1>1. /\ b \in Seq(Byte) /\ Len(b) = n /\ Len(s) \in Nat /\ c \in Nat
        /\ \A i \in 1 .. n : b[i] = [by |-> t, of |-> c, at |-> d + i]
    BY BytesFacts, PipesAssumption
  <1> HIDE DEF b
  <1>2. /\ w \in Seq(Byte) /\ Len(w) = Len(s) + n
        /\ \A i \in 1 .. Len(s) : w[i] = s[i]
        /\ \A i \in 1 .. n : w[Len(s) + i] = b[i]
    BY <1>1
  <1> HIDE DEF w
  <1>3. ASSUME NEW i \in 1 .. Len(w), w[i].of <= PipeBuf, w[i].at < w[i].of
        PROVE  i < Len(w) /\ w[i + 1] = [w[i] EXCEPT !.at = @ + 1]
    <2>1. CASE i <= Len(s)
      <3>1. w[i] = s[i] /\ i < Len(s) /\ s[i + 1] = [s[i] EXCEPT !.at = @ + 1]
        BY <2>1, <1>1, <1>2, <1>3 DEF Whole
      <3> QED BY <3>1, <1>1, <1>2
    <2>2. CASE i > Len(s)
      <3>0. i - Len(s) \in 1 .. n /\ i = Len(s) + (i - Len(s))
        BY <2>2, <1>1, <1>2
      <3>1. PICK k \in 1 .. n : i = Len(s) + k
        BY <3>0
      <3>2. w[i] = [by |-> t, of |-> c, at |-> d + k]
        BY <3>1, <1>1, <1>2
      <3>3. k + 1 \in 1 .. n
        BY <3>1, <3>2, <1>1, <1>3
      <3>4. w[i + 1] = [by |-> t, of |-> c, at |-> d + (k + 1)]
        <4>1. i + 1 = Len(s) + (k + 1)
          BY <3>1, <1>1
        <4> QED BY <4>1, <3>3, <1>1, <1>2
      <3>5. [w[i] EXCEPT !.at = @ + 1] = [by |-> t, of |-> c, at |-> d + (k + 1)]
        <4>1. (d + k) + 1 = d + (k + 1)
          BY <3>1
        <4> QED BY <4>1, <3>2
      <3> QED BY <3>1, <3>3, <3>4, <3>5, <1>1, <1>2
    <2> QED BY <2>1, <2>2, <1>1
  <1> QED BY <1>2, <1>3 DEF Whole, w, b

LEMMA WholeRest ==
    ASSUME NEW s \in Seq(Byte), Whole(s), NEW k \in 0 .. Len(s)
    PROVE  /\ Whole(SubSeq(s, k + 1, Len(s))) /\ SubSeq(s, k + 1, Len(s)) \in Seq(Byte)
           /\ Len(SubSeq(s, k + 1, Len(s))) = Len(s) - k
  <1> DEFINE w == SubSeq(s, k + 1, Len(s))
  <1>1. /\ w \in Seq(Byte) /\ Len(w) = Len(s) - k /\ Len(s) \in Nat
        /\ \A i \in 1 .. Len(s) - k : w[i] = s[k + i]
    OBVIOUS
  <1> HIDE DEF w
  <1>2. ASSUME NEW i \in 1 .. Len(w), w[i].of <= PipeBuf, w[i].at < w[i].of
        PROVE  i < Len(w) /\ w[i + 1] = [w[i] EXCEPT !.at = @ + 1]
    <2>1. k + i \in 1 .. Len(s) /\ w[i] = s[k + i]
      BY <1>1
    <2>2. k + i < Len(s) /\ s[k + i + 1] = [s[k + i] EXCEPT !.at = @ + 1]
      BY <2>1, <1>2 DEF Whole
    <2>3. i + 1 \in 1 .. Len(s) - k /\ w[i + 1] = s[k + (i + 1)] /\ k + (i + 1) = k + i + 1
      BY <2>1, <2>2, <1>1
    <2> QED BY <2>1, <2>2, <2>3, <1>1
  <1> QED BY <1>1, <1>2 DEF Whole, w

-----------------------------------------------------------------------------
(* The inductive invariant. *)

\* A process is named by a thread that was made.
ProcessesOK ==
    /\ group \in [Threads -> Threads \cup {Nobody}]
    /\ live \subseteq {t \in Threads : group[t] # Nobody}
    /\ pending \subseteq live /\ handling \subseteq live
    /\ \A t \in Threads : group[t] # Nobody => group[t] \in Threads /\ group[group[t]] = group[t]

\* Pipes are numbered from 1 as they are made, and what is open is of one that was made.
KernelOK ==
    /\ descriptors \in [Threads -> [Fds -> OpenFile \cup {Closed}]]
    /\ nonblock \subseteq OpenFile
    /\ pipes \in Seq(Content) /\ Len(pipes) <= MaxPipes
    /\ \A g \in Threads, fd \in Fds : descriptors[g][fd] # Closed => descriptors[g][fd].pipe \in 1 .. Len(pipes)
    /\ \A p \in 1 .. Len(pipes) : Len(pipes[p].buffer) <= pipes[p].capacity /\ Whole(pipes[p].buffer)

CallsOK ==
    /\ call \in [Threads -> Call \cup {NoCall}]
    /\ queue \in [Threads -> Numbers \cup {0}]
    /\ sites \in [Threads -> Site \cup {NoSite}]
    /\ result \in [Threads -> Nat \cup {Failed}]
    /\ put \in [Threads -> Seq(Nat)]
    /\ astray \subseteq Threads /\ unheard \in BOOLEAN /\ changes \in 0 .. MaxChanges

\* A thread that is not made has nothing; one that waits is live, has a call, and no signal; the
\* site of a call is at its place, and says no more than the call is to write.
ThreadRight(t) ==
    /\ group[t] = Nobody => /\ call[t] = NoCall /\ sites[t] = NoSite /\ result[t] = 0
                            /\ put[t] = <<>>
    /\ queue[t] # 0 => t \in live /\ t \notin pending /\ t \notin handling /\ call[t] # NoCall
    /\ call[t] # NoCall => sites[t] = NoSite \/ sites[t].place = call[t].place
    /\ call[t] # NoCall /\ t \notin astray => sites[t].written <= call[t].count

First(n) == [i \in 1 .. n |-> i]

Honest(t) == t \in live /\ t \notin astray => put[t] = First(Told(t))

InVain(t) == queue[t] # 0 /\ ~unheard /\ t \notin astray /\ ~WouldWait(t, call[t])

PipesIInv ==
    /\ ProcessesOK /\ KernelOK /\ CallsOK
    /\ \A t \in Threads : ThreadRight(t) /\ Honest(t) /\ ~InVain(t)

LEMMA ImpliesTypeOK == PipesIInv => TypeOK
  <1> SUFFICES ASSUME PipesIInv PROVE TypeOK
    OBVIOUS
  <1>1. DOMAIN pipes = 1 .. Len(pipes) /\ Len(pipes) \in Nat
    BY DEF PipesIInv, KernelOK
  <1>2. DOMAIN pipes \subseteq Numbers
    BY <1>1, PipesAssumption DEF PipesIInv, KernelOK, Numbers
  <1>3. \A p \in DOMAIN pipes : pipes[p] \in Content
    BY <1>1 DEF PipesIInv, KernelOK
  <1>4. \A p \in DOMAIN pipes : /\ pipes[p].buffer \in Seq(Byte) /\ pipes[p].capacity \in Nat
                                /\ Len(pipes[p].buffer) <= pipes[p].capacity
    BY <1>1, <1>3 DEF PipesIInv, KernelOK, Content
  <1> QED BY <1>2, <1>4 DEF PipesIInv, ProcessesOK, KernelOK, CallsOK, TypeOK

LEMMA ImpliesSmallWritesWhole == PipesIInv => SmallWritesWhole
  <1> SUFFICES ASSUME PipesIInv PROVE SmallWritesWhole
    OBVIOUS
  <1>1. DOMAIN pipes = 1 .. Len(pipes)
    BY DEF PipesIInv, KernelOK
  <1> QED BY <1>1 DEF PipesIInv, KernelOK, Whole, SmallWritesWhole, pipeWaiting

LEMMA ImpliesHonestWrites == PipesIInv => HonestWrites
  BY DEF PipesIInv, ProcessesOK, HonestWrites, Honest, First

LEMMA ImpliesNoneWaitsInVain == PipesIInv => NoneWaitsInVain
  BY DEF PipesIInv, NoneWaitsInVain, InVain

LEMMA NothingFacts ==
    /\ NoCall \notin Call /\ \A c \in Call : c # NoCall /\ c.place # Nowhere
    /\ \A s \in Site : s # NoSite /\ s.place # Nowhere
    /\ NoSite.written = 0 /\ NoSite.place = Nowhere
    /\ \A f \in OpenFile : f # Closed
    /\ First(0) = <<>>
  BY PipesAssumption DEF Call, NoCall, Site, NoSite, OpenFile, Closed, Numbers, First

LEMMA PipesInitRight == Init => PipesIInv
  <1> SUFFICES ASSUME Init PROVE PipesIInv
    OBVIOUS
  <1>1. ProcessesOK
    BY PipesAssumption DEF Init, ProcessesOK
  <1>2. KernelOK
    <2>1. descriptors \in [Threads -> [Fds -> OpenFile \cup {Closed}]]
      BY DEF Init
    <2>2. pipes \in Seq(Content) /\ Len(pipes) = 0
      BY DEF Init
    <2> QED BY <2>1, <2>2, PipesAssumption DEF Init, KernelOK
  <1>3. CallsOK
    <2>1. call \in [Threads -> Call \cup {NoCall}] /\ sites \in [Threads -> Site \cup {NoSite}]
      BY DEF Init
    <2>2. /\ queue \in [Threads -> Numbers \cup {0}] /\ result \in [Threads -> Nat \cup {Failed}]
          /\ put \in [Threads -> Seq(Nat)]
      BY DEF Init
    <2>3. astray \subseteq Threads /\ unheard \in BOOLEAN
      BY DEF Init
    <2>4. changes \in 0 .. MaxChanges
      BY PipesAssumption DEF Init
    <2> QED BY <2>1, <2>2, <2>3, <2>4 DEF CallsOK
  <1>4. \A t \in Threads : ThreadRight(t)
    BY DEF Init, ThreadRight
  <1>5. \A t \in Threads : Honest(t)
    BY NothingFacts DEF Init, Honest, Told
  <1>6. \A t \in Threads : ~InVain(t)
    BY DEF Init, InVain
  <1> QED BY <1>1, <1>2, <1>3, <1>4, <1>5, <1>6 DEF PipesIInv

-----------------------------------------------------------------------------
(* Threads that a step leaves alone. *)

\* Nothing of the calls of a thread changes, but that it may be woken or end.
Stays(u) ==
    /\ group'[u] = group[u] /\ call'[u] = call[u] /\ sites'[u] = sites[u]
    /\ result'[u] = result[u] /\ put'[u] = put[u]
    /\ u \in astray' <=> u \in astray
    /\ u \in live' => u \in live
    /\ \/ queue'[u] = 0
       \/ /\ queue'[u] = queue[u] /\ (u \in live => u \in live')
          /\ u \notin pending => u \notin pending'
          /\ u \notin handling => u \notin handling'

LEMMA StaysRight ==
    ASSUME NEW u \in Threads, ThreadRight(u), Honest(u), Stays(u)
    PROVE  ThreadRight(u)' /\ Honest(u)'
  BY DEF ThreadRight, Honest, Stays, Told

\* What the kernel shows a thread that waits stays as it is, and whoever holds an end of a pipe
\* keeps doing so.
Sees(u) ==
    /\ queue[u] # 0 => fileOf(u, call[u].fd)' = fileOf(u, call[u].fd)
    /\ queue[u] # 0 => pipes'[fileOf(u, call[u].fd).pipe] = pipes[fileOf(u, call[u].fd).pipe]
    /\ queue[u] # 0 => (fileOf(u, call[u].fd) \in nonblock' <=> fileOf(u, call[u].fd) \in nonblock)
    /\ \A p \in Numbers, w \in BOOLEAN : pipeHeld(p, w) => pipeHeld(p, w)'

LEMMA FileFacts ==
    ASSUME PipesIInv, NEW t \in Threads, group[t] # Nobody, NEW fd \in Fds
    PROVE  /\ group[t] \in Threads /\ fileOf(t, fd) \in OpenFile \cup {Closed}
           /\ fileOf(t, fd) # Closed =>
                 /\ fileOf(t, fd) \in OpenFile /\ fileOf(t, fd).pipe \in 1 .. Len(pipes)
                 /\ fileOf(t, fd).pipe \in Numbers /\ fileOf(t, fd).writable \in BOOLEAN
                 /\ pipes[fileOf(t, fd).pipe] \in Content
  <1>1. group[t] \in Threads
    BY DEF PipesIInv, ProcessesOK
  <1>2. fileOf(t, fd) \in OpenFile \cup {Closed}
    BY <1>1 DEF PipesIInv, KernelOK, fileOf
  <1>3. ASSUME fileOf(t, fd) # Closed PROVE fileOf(t, fd).pipe \in 1 .. Len(pipes)
    BY <1>1, <1>3 DEF PipesIInv, KernelOK, fileOf
  <1>4. \A p \in 1 .. Len(pipes) : pipes[p] \in Content
    BY DEF PipesIInv, KernelOK
  <1> QED BY <1>1, <1>2, <1>3, <1>4 DEF OpenFile

LEMMA ContentFacts ==
    ASSUME PipesIInv, NEW p \in 1 .. Len(pipes)
    PROVE  /\ pipes[p] \in Content /\ pipes[p].buffer \in Seq(Byte) /\ pipes[p].capacity \in Nat
           /\ Len(pipes[p].buffer) \in Nat /\ Len(pipes[p].buffer) <= pipes[p].capacity
           /\ Whole(pipes[p].buffer)
           /\ pipeRoom(p) \in Nat /\ pipeWaiting(p) \in Nat
  <1>1. pipes[p] \in Content /\ Len(pipes[p].buffer) <= pipes[p].capacity /\ Whole(pipes[p].buffer)
    BY DEF PipesIInv, KernelOK
  <1>2. pipes[p].buffer \in Seq(Byte) /\ pipes[p].capacity \in Nat
    BY <1>1 DEF Content
  <1> QED BY <1>1, <1>2 DEF pipeRoom, pipeWaiting

LEMMA SeesWaits ==
    ASSUME PipesIInv, NEW u \in Threads, queue[u] # 0, Stays(u), Sees(u), WouldWait(u, call[u])
    PROVE  WouldWait(u, call[u])'
  <1> DEFINE c == call[u]
             f == fileOf(u, c.fd)
  <1>1. c \in Call /\ c.fd \in Fds /\ group[u] # Nobody /\ c' = c
    BY DEF PipesIInv, ThreadRight, CallsOK, ProcessesOK, Call, Stays
  <1>2. f # Closed
    BY <1>1 DEF WouldWait, waitForPipe, writeError
  <1>3. f \in OpenFile /\ f.pipe \in Numbers /\ f.pipe \in 1 .. Len(pipes)
    BY <1>1, <1>2, FileFacts
  <1>4. /\ f' = f /\ pipes'[f.pipe] = pipes[f.pipe] /\ (f \in nonblock' <=> f \in nonblock)
        /\ pipeHeld(f.pipe, TRUE) => pipeHeld(f.pipe, TRUE)'
        /\ pipeHeld(f.pipe, FALSE) => pipeHeld(f.pipe, FALSE)'
    BY <1>3 DEF Sees
  <1>5. sites'[u] = sites[u]
    BY DEF Stays
  <1>6. CASE c.op = "read"
    <2>1. waitForPipe(u, c) /\ f \notin nonblock
      BY <1>6 DEF WouldWait
    <2>2. waitForPipe(u, c)'
      BY <2>1, <1>1, <1>4 DEF waitForPipe, pipeWaiting
    <2> QED BY <2>1, <2>2, <1>1, <1>4, <1>6 DEF WouldWait
  <1>7. CASE c.op # "read"
    <2>1. ~writeError(u, c) /\ mayWait(u, c) /\ pipeHeld(f.pipe, FALSE) /\ noRoom(u, c)
      BY <1>7 DEF WouldWait
    <2>2. ~writeError(u, c)' /\ mayWait(u, c)' /\ mayWait(u, c)
      BY <2>1, <1>1, <1>4 DEF writeError, mayWait
    <2>3. done(u, c)' = done(u, c)
      BY <2>2, <1>1, <1>5 DEF done, entered
    <2>4. rest(u, c)' = rest(u, c)
      BY <2>3, <1>1 DEF rest
    <2>5. piece(u, c)' = piece(u, c)
      BY <2>4, <1>1, <1>4 DEF piece, pipeRoom
    <2>6. noRoom(u, c)'
      BY <2>1, <2>4, <2>5, <1>1 DEF noRoom
    <2>7. pipeHeld(f.pipe, FALSE)'
      BY <2>1, <1>4
    <2> QED BY <2>2, <2>6, <2>7, <1>1, <1>4, <1>7 DEF WouldWait
  <1> QED BY <1>6, <1>7

\* A thread that waits goes on doing so with reason: everyone is woken, or the change was one that
\* nobody hears of, or it sees what it saw.
LEMMA StaysWaiting ==
    ASSUME PipesIInv, NEW u \in Threads, Stays(u),
           \/ queue'[u] = 0
           \/ unheard' = TRUE
           \/ unheard' = unheard /\ (queue[u] # 0 /\ WouldWait(u, call[u]) => Sees(u))
    PROVE  ~InVain(u)'
  <1> SUFFICES ASSUME InVain(u)' PROVE FALSE
    OBVIOUS
  <1>1. /\ queue'[u] # 0 /\ ~unheard' /\ u \notin astray' /\ ~WouldWait(u, call[u])'
    BY DEF InVain
  <1>2. /\ queue[u] # 0 /\ ~unheard /\ u \notin astray
        /\ WouldWait(u, call[u]) => Sees(u)
    BY <1>1 DEF Stays
  <1>3. WouldWait(u, call[u])
    BY <1>2 DEF PipesIInv, InVain
  <1> QED BY <1>1, <1>2, <1>3, SeesWaits

\* Everyone who waits has been woken, or has reason to wait on.
Excused(u) ==
    \/ queue'[u] = 0
    \/ unheard' = TRUE
    \/ unheard' = unheard /\ (queue[u] # 0 /\ WouldWait(u, call[u]) => Sees(u))

LEMMA StepRight ==
    ASSUME PipesIInv, NEW t \in Threads, ProcessesOK', KernelOK', CallsOK',
           ThreadRight(t)', Honest(t)', ~InVain(t)',
           \A u \in Threads \ {t} : Stays(u) /\ Excused(u)
    PROVE  PipesIInv'
  <1>1. ASSUME NEW u \in Threads, u # t PROVE ThreadRight(u)' /\ Honest(u)' /\ ~InVain(u)'
    <2>1. Stays(u) /\ Excused(u) /\ ThreadRight(u) /\ Honest(u)
      BY <1>1 DEF PipesIInv
    <2>2. ThreadRight(u)' /\ Honest(u)'
      BY <2>1, StaysRight
    <2>3. ~InVain(u)'
      BY <2>1, StaysWaiting DEF Excused
    <2> QED BY <2>2, <2>3
  <1>2. \A u \in Threads : ThreadRight(u)' /\ Honest(u)' /\ ~InVain(u)'
    BY <1>1
  <1> QED BY <1>2 DEF PipesIInv

LEMMA SameSees ==
    ASSUME UNCHANGED <<group, live, descriptors, nonblock, pipes>>, NEW u \in Threads, call'[u] = call[u]
    PROVE  Sees(u)
  BY DEF Sees, fileOf, pipeHeld

LEMMA SameKernel ==
    ASSUME PipesIInv, UNCHANGED <<descriptors, nonblock, pipes>>
    PROVE  KernelOK'
  BY DEF PipesIInv, KernelOK

LEMMA SameProcesses ==
    ASSUME PipesIInv, UNCHANGED <<group, live, pending, handling>>
    PROVE  ProcessesOK'
  BY DEF PipesIInv, ProcessesOK

\* What ThreadRight and CallsOK say of a thread, apart.
LEMMA ThreadFacts ==
    ASSUME PipesIInv, NEW t \in Threads
    PROVE  /\ ThreadRight(t) /\ Honest(t) /\ ~InVain(t)
           /\ call[t] \in Call \cup {NoCall} /\ queue[t] \in Numbers \cup {0}
           /\ sites[t] \in Site \cup {NoSite} /\ sites[t].written \in Nat
           /\ result[t] \in Nat \cup {Failed} /\ put[t] \in Seq(Nat)
           /\ t \in live => group[t] # Nobody /\ group[t] \in Threads
           /\ t \in pending => t \in live
           /\ t \in handling => t \in live
  <1>1. ThreadRight(t) /\ Honest(t) /\ ~InVain(t)
    BY DEF PipesIInv
  <1>2. /\ call[t] \in Call \cup {NoCall} /\ queue[t] \in Numbers \cup {0}
        /\ sites[t] \in Site \cup {NoSite}
        /\ result[t] \in Nat \cup {Failed} /\ put[t] \in Seq(Nat)
    BY DEF PipesIInv, CallsOK
  <1>3. sites[t].written \in Nat
    BY <1>2 DEF Site, NoSite
  <1>4. t \in live => group[t] # Nobody /\ group[t] \in Threads
    BY DEF PipesIInv, ProcessesOK
  <1> QED BY <1>1, <1>2, <1>3, <1>4 DEF PipesIInv, ProcessesOK

LEMMA ReturnFacts ==
    ASSUME PipesIInv, NEW t \in Threads, NEW v \in Nat \cup {Failed}, NEW s \in Site \cup {NoSite},
           return(t, v, s)
    PROVE  /\ call' \in [Threads -> Call \cup {NoCall}] /\ result' \in [Threads -> Nat \cup {Failed}]
           /\ sites' \in [Threads -> Site \cup {NoSite}]
           /\ call'[t] = NoCall /\ result'[t] = v /\ sites'[t] = s
           /\ \A u \in Threads \ {t} : call'[u] = call[u] /\ result'[u] = result[u] /\ sites'[u] = sites[u]
  BY DEF return, PipesIInv, CallsOK

LEMMA WaitFacts ==
    ASSUME PipesIInv, NEW t \in Threads, NEW c \in Call, NEW p \in Numbers, NEW w \in Nat,
           NEW q \in [Threads -> Numbers \cup {0}], waitOn(t, c, p, w, q)
    PROVE  /\ call' \in [Threads -> Call \cup {NoCall}] /\ result' \in [Threads -> Nat \cup {Failed}]
           /\ sites' \in [Threads -> Site \cup {NoSite}] /\ queue' \in [Threads -> Numbers \cup {0}]
           /\ call'[t] = c /\ result'[t] = 0 /\ queue'[t] = p
           /\ sites'[t] = [place |-> c.place, written |-> w]
           /\ \A u \in Threads \ {t} : /\ call'[u] = call[u] /\ result'[u] = result[u]
                                       /\ sites'[u] = sites[u] /\ queue'[u] = q[u]
  <1>1. [place |-> c.place, written |-> w] \in Site
    BY DEF Call, Site
  <1> QED BY <1>1 DEF waitOn, PipesIInv, CallsOK

LEMMA WokenFacts == woken \in [Threads -> Numbers \cup {0}] /\ \A u \in Threads : woken[u] = 0
  BY DEF woken

-----------------------------------------------------------------------------
(* Signals. *)

LEMMA SendRight ==
    ASSUME PipesIInv, NEW t \in Threads, NEW restart \in BOOLEAN,
           send(t, restart) \/ kill(t, restart)
    PROVE  PipesIInv'
  <1>0. /\ t \in live /\ pending' = pending \cup {t}
        /\ \/ queue' = woken /\ unheard' = FALSE
           \/ queue' = [queue EXCEPT ![t] = 0] /\ unheard' = unheard
        /\ changes < MaxChanges /\ changes' = changes + 1
        /\ UNCHANGED <<group, live, descriptors, nonblock, pipes, handling, put, astray>>
        /\ IF queue[t] # 0 THEN interrupted(t, restart) ELSE UNCHANGED <<call, result, sites>>
    BY DEF send, kill, sendToThread, Counted, wakePipeReaders, kernel
  <1>1. ProcessesOK'
    BY <1>0 DEF PipesIInv, ProcessesOK
  <1>2. KernelOK'
    BY <1>0, SameKernel
  <1>3. changes' \in 0 .. MaxChanges
    BY <1>0, PipesAssumption DEF PipesIInv, CallsOK
  <1>4. /\ queue' \in [Threads -> Numbers \cup {0}] /\ unheard' \in BOOLEAN /\ queue'[t] = 0
        /\ \A u \in Threads \ {t} : queue'[u] = 0 \/ (queue'[u] = queue[u] /\ unheard' = unheard)
    BY <1>0, WokenFacts DEF PipesIInv, CallsOK
  <1> DEFINE
        Outcome == /\ call' \in [Threads -> Call \cup {NoCall}] /\ result' \in [Threads -> Nat \cup {Failed}]
                   /\ sites' \in [Threads -> Site \cup {NoSite}]
                   /\ \A u \in Threads \ {t} : call'[u] = call[u] /\ result'[u] = result[u] /\ sites'[u] = sites[u]
                   /\ \/ call'[t] = call[t] /\ result'[t] = result[t] /\ sites'[t] = sites[t]
                      \/ queue[t] # 0 /\ call'[t] = NoCall /\ result'[t] = sites[t].written
                         /\ sites[t].written > 0
                      \/ queue[t] # 0 /\ call'[t] = NoCall /\ result'[t] = Failed /\ ~(sites[t].written > 0)
                      \/ queue[t] # 0 /\ call'[t] = call[t] /\ sites'[t] = NoSite /\ ~(sites[t].written > 0)
  <1>5. Outcome
    <2>1. CASE queue[t] = 0
      <3>1. UNCHANGED <<call, result, sites>>
        BY <1>0, <2>1
      <3> QED BY <3>1 DEF PipesIInv, CallsOK
    <2>2. CASE queue[t] # 0 /\ sites[t].written > 0
      <3>1. return(t, sites[t].written, NoSite)
        BY <1>0, <2>2 DEF interrupted
      <3> QED BY <3>1, <2>2, ReturnFacts, ThreadFacts
    <2>3. CASE queue[t] # 0 /\ ~(sites[t].written > 0) /\ restart
      <3>1. sites' = [sites EXCEPT ![t] = NoSite] /\ UNCHANGED <<call, result>>
        BY <1>0, <2>3 DEF interrupted
      <3> QED BY <3>1, <2>3 DEF PipesIInv, CallsOK
    <2>4. CASE queue[t] # 0 /\ ~(sites[t].written > 0) /\ ~restart
      <3>1. return(t, Failed, NoSite)
        BY <1>0, <2>4 DEF interrupted
      <3> QED BY <3>1, <2>4, ReturnFacts
    <2> QED BY <2>1, <2>2, <2>3, <2>4
  <1>6. CallsOK'
    BY <1>0, <1>3, <1>4, <1>5 DEF PipesIInv, CallsOK
  <1>7. ThreadRight(t)'
    <2>1. group'[t] # Nobody /\ queue'[t] = 0 /\ ThreadRight(t) /\ (t \in astray' <=> t \in astray)
      BY <1>0, <1>4, ThreadFacts
    <2>2. NoSite.written = 0 /\ (call[t] # NoCall => call[t].count \in Nat)
      BY ThreadFacts, PipesAssumption DEF Call, NoSite
    <2> QED BY <2>1, <2>2, <1>5 DEF ThreadRight
  <1>8. Honest(t)'
    <2>1. Honest(t) /\ ThreadRight(t) /\ sites[t].written \in Nat /\ NoSite.written = 0
      BY ThreadFacts DEF NoSite
    <2>2. (t \in live' /\ t \notin astray' => t \in live /\ t \notin astray) /\ put'[t] = put[t]
      BY <1>0
    <2>3. Told(t)' = Told(t)
      BY <2>1, <1>5 DEF Told, ThreadRight, Failed
    <2> QED BY <2>1, <2>2, <2>3 DEF Honest
  <1>9. ~InVain(t)'
    BY <1>4 DEF InVain
  <1>10. ASSUME NEW u \in Threads \ {t} PROVE Stays(u) /\ Excused(u)
    <2>1. Sees(u)
      BY <1>0, <1>5, SameSees
    <2> QED BY <2>1, <1>0, <1>4, <1>5 DEF Stays, Excused
  <1> QED BY <1>1, <1>2, <1>6, <1>7, <1>8, <1>9, <1>10, StepRight

LEMMA SendIgnoredRight ==
    ASSUME PipesIInv, sendIgnored
    PROVE  PipesIInv'
  <1>0. /\ queue' = woken /\ unheard' = FALSE
        /\ changes < MaxChanges /\ changes' = changes + 1
        /\ UNCHANGED <<group, live, descriptors, nonblock, pipes, call, sites, pending, handling, result, put, astray>>
    BY DEF sendIgnored, Counted, wakePipeReaders, kernel, signals
  <1>1. ProcessesOK' /\ KernelOK'
    BY <1>0, SameKernel, SameProcesses
  <1>2. changes' \in 0 .. MaxChanges
    BY <1>0, PipesAssumption DEF PipesIInv, CallsOK
  <1>3. queue' \in [Threads -> Numbers \cup {0}] /\ \A u \in Threads : queue'[u] = 0
    BY <1>0, WokenFacts
  <1>4. CallsOK'
    BY <1>0, <1>2, <1>3 DEF PipesIInv, CallsOK
  <1>5. \A u \in Threads : Stays(u) /\ Excused(u)
    BY <1>0, <1>3 DEF Stays, Excused
  <1>6. ThreadRight(Init1)' /\ Honest(Init1)' /\ ~InVain(Init1)'
    BY <1>5, StaysRight, StaysWaiting, ThreadFacts, PipesAssumption DEF Excused
  <1> QED BY <1>1, <1>4, <1>5, <1>6, StepRight, PipesAssumption

LEMMA DeliverRight ==
    ASSUME PipesIInv, NEW t \in Threads, deliver(t)
    PROVE  PipesIInv'
  <1>0. /\ t \in pending /\ t \notin handling /\ queue[t] = 0
        /\ pending' = pending \ {t} /\ handling' = handling \cup {t}
        /\ UNCHANGED <<changes, group, live, descriptors, nonblock, pipes, call, queue, sites, result, put, astray, unheard>>
    BY DEF deliver, kernel, history
  <1>1. ProcessesOK'
    BY <1>0 DEF PipesIInv, ProcessesOK
  <1>2. KernelOK' /\ CallsOK'
    BY <1>0, SameKernel DEF PipesIInv, CallsOK
  <1>3. \A u \in Threads : Stays(u)
    BY <1>0 DEF Stays
  <1>4. \A u \in Threads : Sees(u) /\ Excused(u)
    BY <1>0, SameSees DEF Excused
  <1>5. ThreadRight(t)' /\ Honest(t)' /\ ~InVain(t)'
    BY <1>3, <1>4, StaysRight, StaysWaiting, ThreadFacts DEF Excused
  <1> QED BY <1>1, <1>2, <1>3, <1>4, <1>5, StepRight

LEMMA SigreturnRight ==
    ASSUME PipesIInv, NEW t \in Threads, sigreturn(t)
    PROVE  PipesIInv'
  <1>0. /\ handling' = handling \ {t}
        /\ UNCHANGED <<changes, group, live, descriptors, nonblock, pipes, call, queue, sites, pending, result, put, astray, unheard>>
    BY DEF sigreturn, kernel, history
  <1>1. ProcessesOK'
    BY <1>0 DEF PipesIInv, ProcessesOK
  <1>2. KernelOK' /\ CallsOK'
    BY <1>0, SameKernel DEF PipesIInv, CallsOK
  <1>3. \A u \in Threads : Stays(u)
    BY <1>0 DEF Stays
  <1>4. \A u \in Threads : Sees(u) /\ Excused(u)
    BY <1>0, SameSees DEF Excused
  <1>5. ThreadRight(t)' /\ Honest(t)' /\ ~InVain(t)'
    BY <1>3, <1>4, StaysRight, StaysWaiting, ThreadFacts DEF Excused
  <1> QED BY <1>1, <1>2, <1>3, <1>4, <1>5, StepRight

LEMMA HandlerCallRight ==
    ASSUME PipesIInv, NEW t \in Threads, handlerCall(t)
    PROVE  PipesIInv'
  <1>0. /\ t \in handling /\ sites[t] # NoSite /\ sites' = [sites EXCEPT ![t] = entered(t, Nowhere)]
        /\ astray' = IF call[t] # NoCall /\ sites[t].written > 0 THEN astray \cup {t} ELSE astray
        /\ UNCHANGED <<changes, group, live, descriptors, nonblock, pipes, call, queue, pending, handling, result, put, unheard>>
    BY DEF handlerCall, kernel, signals
  <1>1. entered(t, Nowhere) = NoSite
    BY <1>0, ThreadFacts, NothingFacts DEF entered
  <1>2. ProcessesOK' /\ KernelOK'
    BY <1>0, SameKernel, SameProcesses
  <1>3. sites' \in [Threads -> Site \cup {NoSite}] /\ sites'[t] = NoSite /\ \A u \in Threads \ {t} : sites'[u] = sites[u]
    BY <1>0, <1>1 DEF PipesIInv, CallsOK
  <1>4. CallsOK'
    BY <1>0, <1>3 DEF PipesIInv, CallsOK
  <1>5. \A u \in Threads \ {t} : Stays(u)
    BY <1>0, <1>3 DEF Stays
  <1>6. \A u \in Threads \ {t} : Sees(u) /\ Excused(u)
    BY <1>0, SameSees DEF Excused
  <1>7. queue[t] = 0 /\ ThreadRight(t) /\ Honest(t) /\ sites[t].written \in Nat /\ NoSite.written = 0
    BY <1>0, ThreadFacts, NothingFacts DEF ThreadRight
  <1>8. ThreadRight(t)'
    <2>1. call[t] # NoCall => call[t].count \in Nat
      BY ThreadFacts, PipesAssumption DEF Call
    <2> QED BY <1>0, <1>3, <1>7, <2>1 DEF ThreadRight
  <1>9. Honest(t)'
    BY <1>0, <1>3, <1>7 DEF Honest, Told
  <1>10. ~InVain(t)'
    BY <1>0, <1>7 DEF InVain
  <1> QED BY <1>2, <1>4, <1>5, <1>6, <1>8, <1>9, <1>10, StepRight

-----------------------------------------------------------------------------
(* Reads. *)

\* The state of a thread whose call is over and told nothing.
LEMMA OverRight ==
    ASSUME NEW t \in Threads, group'[t] # Nobody, call'[t] = NoCall, put'[t] = <<>>, queue'[t] = 0,
           result'[t] = 0 \/ result'[t] = Failed
    PROVE  ThreadRight(t)' /\ Honest(t)' /\ ~InVain(t)'
  <1>1. Told(t)' = 0
    BY DEF Told, Failed
  <1>2. Honest(t)'
    BY <1>1, NothingFacts DEF Honest
  <1> QED BY <1>2 DEF ThreadRight, InVain

LEMMA ReadRight ==
    ASSUME PipesIInv, NEW t \in Threads, NEW c \in Call, read(t, c)
    PROVE  PipesIInv'
  <1> DEFINE f == fileOf(t, c.fd)
  <1>0. /\ c.op = "read" /\ t \in live /\ queue[t] = 0
        /\ put' = [put EXCEPT ![t] = <<>>] /\ astray' = astray \ {t}
        /\ UNCHANGED <<changes, group, live, descriptors, nonblock, pending, handling>>
        /\ readWaits(t, c) \/ readRefused(t, c) \/ readInto(t, c)
    BY DEF read, Running, Runs, signals
  <1>1. ProcessesOK'
    BY <1>0, SameProcesses
  <1>2. /\ group[t] # Nobody /\ group[t] \in Threads /\ c.fd \in Fds /\ c.count \in Nat
        /\ c.place \in Places /\ c # NoCall
    BY <1>0, ThreadFacts, NothingFacts, PipesAssumption DEF Call
  <1>3. /\ f \in OpenFile \cup {Closed}
        /\ f # Closed => f \in OpenFile /\ f.pipe \in 1 .. Len(pipes) /\ f.pipe \in Numbers
    BY <1>2, FileFacts
  <1>4. put' \in [Threads -> Seq(Nat)] /\ put'[t] = <<>> /\ \A u \in Threads \ {t} : put'[u] = put[u]
    BY <1>0 DEF PipesIInv, CallsOK
  <1>5. ASSUME readWaits(t, c), f \notin nonblock PROVE PipesIInv'
    <2>1. waitForPipe(t, c) /\ waitOn(t, c, f.pipe, 0, queue) /\ UNCHANGED <<pipes, unheard>>
      BY <1>5 DEF readWaits
    <2>2. f # Closed /\ f.pipe \in Numbers
      BY <2>1, <1>3 DEF waitForPipe
    <2>3. queue \in [Threads -> Numbers \cup {0}]
      BY DEF PipesIInv, CallsOK
    <2>4. /\ call' \in [Threads -> Call \cup {NoCall}] /\ result' \in [Threads -> Nat \cup {Failed}]
          /\ sites' \in [Threads -> Site \cup {NoSite}] /\ queue' \in [Threads -> Numbers \cup {0}]
          /\ call'[t] = c /\ result'[t] = 0 /\ queue'[t] = f.pipe
          /\ sites'[t] = [place |-> c.place, written |-> 0]
          /\ \A u \in Threads \ {t} : /\ call'[u] = call[u] /\ result'[u] = result[u]
                                      /\ sites'[u] = sites[u] /\ queue'[u] = queue[u]
      BY <2>1, <2>2, <2>3, WaitFacts
    <2>5. KernelOK' /\ CallsOK'
      BY <2>1, <2>4, <1>0, <1>4, SameKernel DEF PipesIInv, CallsOK
    <2>6. \A u \in Threads \ {t} : Stays(u)
      BY <2>4, <1>0, <1>4 DEF Stays
    <2>7. \A u \in Threads \ {t} : Sees(u) /\ Excused(u)
      BY <2>1, <2>4, <1>0, SameSees DEF Excused
    <2>8. ThreadRight(t)'
      <3>1. t \notin pending' /\ t \notin handling'
        BY <1>0 DEF read, Running, Runs
      <3> QED BY <2>4, <1>0, <1>2, <3>1 DEF ThreadRight
    <2>9. Honest(t)'
      <3>1. Told(t)' = 0
        BY <2>4, <1>2 DEF Told
      <3> QED BY <3>1, <1>4, NothingFacts DEF Honest
    <2>10. ~InVain(t)'
      <3>1. waitForPipe(t, c)' /\ fileOf(t, c.fd)' = f
        BY <2>1, <1>0 DEF waitForPipe, fileOf, pipeHeld, pipeWaiting
      <3>2. WouldWait(t, c)'
        BY <3>1, <1>0, <1>5 DEF WouldWait
      <3>3. WouldWait(t, call[t])' <=> WouldWait(t, c)'
        BY <2>4 DEF WouldWait, waitForPipe, writeError, mayWait, noRoom, piece, rest, done, entered, fileOf
      <3> QED BY <3>2, <3>3 DEF InVain
    <2> QED BY <1>1, <2>5, <2>6, <2>7, <2>8, <2>9, <2>10, StepRight
  <1>6. ASSUME NEW v \in {0, Failed}, return(t, v, NoSite), KernelOK',
               \/ UNCHANGED <<pipes, queue, unheard>>
               \/ queue' = woken /\ unheard' = FALSE
        PROVE  PipesIInv'
    <2>1. /\ call' \in [Threads -> Call \cup {NoCall}] /\ result' \in [Threads -> Nat \cup {Failed}]
          /\ sites' \in [Threads -> Site \cup {NoSite}]
          /\ call'[t] = NoCall /\ result'[t] = v /\ sites'[t] = NoSite
          /\ \A u \in Threads \ {t} : call'[u] = call[u] /\ result'[u] = result[u] /\ sites'[u] = sites[u]
      <3>1. v \in Nat \cup {Failed}
        BY <1>6
      <3> QED BY <3>1, <1>6, ReturnFacts
    <2>2. queue' \in [Threads -> Numbers \cup {0}] /\ unheard' \in BOOLEAN
      BY <1>6, WokenFacts DEF PipesIInv, CallsOK
    <2>3. \A u \in Threads : queue'[u] = 0 \/ queue'[u] = queue[u]
      BY <1>6, WokenFacts
    <2>4. CallsOK'
      BY <2>1, <2>2, <1>0, <1>4 DEF PipesIInv, CallsOK
    <2>5. \A u \in Threads \ {t} : Stays(u)
      BY <2>1, <2>3, <1>0, <1>4 DEF Stays
    <2>6. \A u \in Threads \ {t} : Excused(u)
      <3>1. CASE UNCHANGED <<pipes, queue, unheard>>
        BY <3>1, <2>1, <1>0, SameSees DEF Excused
      <3>2. CASE queue' = woken
        BY <3>2, WokenFacts DEF Excused
      <3> QED BY <3>1, <3>2, <1>6
    <2>7. ThreadRight(t)' /\ Honest(t)' /\ ~InVain(t)'
      BY <2>1, <2>3, <1>0, <1>2, <1>4, OverRight
    <2> QED BY <1>1, <1>6, <2>4, <2>5, <2>6, <2>7, StepRight
  <1>7. CASE readWaits(t, c)
    <2>1. CASE f \notin nonblock
      BY <2>1, <1>5, <1>7
    <2>2. CASE f \in nonblock
      <3>1. return(t, Failed, NoSite) /\ UNCHANGED <<pipes, queue, unheard>>
        BY <2>2, <1>7 DEF readWaits
      <3>2. KernelOK'
        BY <3>1, <1>0, SameKernel
      <3> QED BY <3>1, <3>2, <1>6
    <2> QED BY <2>1, <2>2
  <1>8. CASE readRefused(t, c)
    <2>1. return(t, Failed, NoSite) /\ UNCHANGED <<pipes, queue, unheard>>
      BY <1>8 DEF readRefused
    <2>2. KernelOK'
      BY <2>1, <1>0, SameKernel
    <2> QED BY <2>1, <2>2, <1>6
  <1>9. CASE readInto(t, c)
    <2> DEFINE p == f.pipe
               buffer == pipes[p].buffer
               size == Min({c.count, Len(buffer)})
               left == SubSeq(buffer, size + 1, Len(buffer))
    <2>1. /\ f # Closed
          /\ pipes' = [pipes EXCEPT ![p].buffer = left]
          /\ IF size > 0 THEN queue' = woken /\ unheard' = FALSE ELSE UNCHANGED <<queue, unheard>>
          /\ return(t, 0, NoSite)
      BY <1>9 DEF readInto, wakePipeReaders
    <2>2. p \in 1 .. Len(pipes)
      BY <2>1, <1>3
    <2>3. /\ pipes[p] \in Content /\ buffer \in Seq(Byte) /\ Len(buffer) \in Nat /\ Whole(buffer)
          /\ pipes[p].capacity \in Nat /\ Len(buffer) <= pipes[p].capacity
      BY <2>2, ContentFacts
    <2>4. size \in 0 .. Len(buffer)
      BY <2>3, <1>2, MinFacts
    <2>5. left \in Seq(Byte) /\ Whole(left) /\ Len(left) = Len(buffer) - size
      BY <2>3, <2>4, WholeRest
    <2> HIDE DEF left, size
    <2>6. KernelOK'
      <3>1. pipes \in Seq(Content) /\ Len(pipes) \in Nat
        BY DEF PipesIInv, KernelOK
      <3>2. [pipes[p] EXCEPT !.buffer = left] \in Content
        BY <2>3, <2>5 DEF Content
      <3>3. /\ pipes' \in Seq(Content) /\ Len(pipes') = Len(pipes)
            /\ pipes'[p] = [pipes[p] EXCEPT !.buffer = left]
            /\ \A q \in 1 .. Len(pipes) : q # p => pipes'[q] = pipes[q]
        BY <2>1, <2>2, <3>1, <3>2
      <3>4. pipes'[p].buffer = left /\ pipes'[p].capacity = pipes[p].capacity
        BY <2>3, <3>3 DEF Content
      <3>5. Len(left) <= pipes[p].capacity
        BY <2>3, <2>4, <2>5
      <3>6. \A q \in 1 .. Len(pipes) : Len(pipes'[q].buffer) <= pipes'[q].capacity /\ Whole(pipes'[q].buffer)
        BY <2>5, <3>3, <3>4, <3>5 DEF PipesIInv, KernelOK
      <3>7. \A q \in 1 .. Len(pipes) : Whole(pipes'[q].buffer) <=> Whole(pipes[q].buffer)'
        BY DEF Whole
      <3> QED BY <1>0, <3>3, <3>6, <3>7 DEF PipesIInv, KernelOK
    <2>7. CASE size > 0
      BY <2>1, <2>6, <2>7, <1>6
    <2>8. CASE ~(size > 0)
      <3>1. left = buffer
        BY <2>3, <2>4, <2>8 DEF left
      <3>2. pipes' = pipes
        <4>1. [pipes[p] EXCEPT !.buffer = buffer] = pipes[p]
          BY <2>3 DEF Content
        <4>2. pipes \in Seq(Content)
          BY DEF PipesIInv, KernelOK
        <4> QED BY <2>1, <2>2, <3>1, <4>1, <4>2
      <3> QED BY <2>1, <2>6, <2>8, <3>2, <1>6
    <2> QED BY <2>7, <2>8
  <1> QED BY <1>0, <1>7, <1>8, <1>9

-----------------------------------------------------------------------------
(* Descriptors. *)

LEMMA BriefFacts ==
    ASSUME PipesIInv, NEW t \in Threads, Brief(t)
    PROVE  /\ t \in live /\ queue[t] = 0 /\ group[t] # Nobody /\ group[t] \in Threads
           /\ call' = call /\ call[t] = NoCall
           /\ sites' \in [Threads -> Site \cup {NoSite}] /\ result' \in [Threads -> Nat \cup {Failed}]
           /\ put' \in [Threads -> Seq(Nat)] /\ astray' \subseteq Threads
           /\ put'[t] = <<>> /\ result'[t] = 0
           /\ \A u \in Threads \ {t} : /\ sites'[u] = sites[u] /\ result'[u] = result[u]
                                       /\ put'[u] = put[u] /\ (u \in astray' <=> u \in astray)
  <1>1. t \in live /\ queue[t] = 0 /\ group[t] # Nobody /\ group[t] \in Threads
    BY ThreadFacts DEF Brief, Runs
  <1> QED BY <1>1 DEF Brief, PipesIInv, CallsOK

\* A call that does not wait preserves the invariant where the kernel and those who wait are right.
LEMMA BriefRight ==
    ASSUME PipesIInv, NEW t \in Threads, Brief(t), UNCHANGED <<group, live, pending, handling>>,
           KernelOK', queue' \in {queue, woken}, unheard' \in BOOLEAN, changes' \in 0 .. MaxChanges,
           \A u \in Threads \ {t} : Excused(u)
    PROVE  PipesIInv'
  <1>1. \A u \in Threads : queue'[u] = 0 \/ queue'[u] = queue[u]
    BY WokenFacts
  <1>2. queue' \in [Threads -> Numbers \cup {0}]
    BY WokenFacts DEF PipesIInv, CallsOK
  <1>3. CallsOK'
    BY <1>2, BriefFacts DEF PipesIInv, CallsOK
  <1>4. ProcessesOK'
    BY SameProcesses
  <1>5. \A u \in Threads \ {t} : Stays(u)
    BY <1>1, BriefFacts DEF Stays
  <1>6. ThreadRight(t)' /\ Honest(t)' /\ ~InVain(t)'
    BY <1>1, BriefFacts, OverRight
  <1> QED BY <1>3, <1>4, <1>5, <1>6, StepRight

LEMMA CountedFacts ==
    ASSUME PipesIInv, Counted
    PROVE  changes' \in 0 .. MaxChanges
  BY PipesAssumption DEF Counted, PipesIInv, CallsOK

\* Where what is open stays open, a thread that has reason to wait sees what it saw.
LEMMA OpenSees ==
    ASSUME PipesIInv, NEW u \in Threads, queue[u] # 0, WouldWait(u, call[u]),
           UNCHANGED <<group, live, call>>,
           \A g \in Threads, fd \in Fds : descriptors[g][fd] # Closed => descriptors'[g][fd] = descriptors[g][fd],
           \A p \in 1 .. Len(pipes) : pipes'[p] = pipes[p],
           \A f \in OpenFile : f.pipe \in 1 .. Len(pipes) => (f \in nonblock' <=> f \in nonblock)
    PROVE  Sees(u)
  <1> DEFINE f == fileOf(u, call[u].fd)
  <1>1. call[u] \in Call /\ call[u].fd \in Fds /\ group[u] # Nobody /\ group[u] \in Threads
    BY ThreadFacts DEF ThreadRight, Call
  <1>2. f # Closed
    BY <1>1 DEF WouldWait, waitForPipe, writeError
  <1>3. f \in OpenFile /\ f.pipe \in 1 .. Len(pipes)
    BY <1>1, <1>2, FileFacts
  <1>4. fileOf(u, call[u].fd)' = f
    BY <1>1, <1>2 DEF fileOf
  <1>5. ASSUME NEW p \in Numbers, NEW w \in BOOLEAN, pipeHeld(p, w) PROVE pipeHeld(p, w)'
    <2>1. PICK v \in live, fd \in Fds : fileOf(v, fd) = [pipe |-> p, writable |-> w]
      BY <1>5 DEF pipeHeld
    <2>2. v \in Threads /\ group[v] \in Threads
      BY ThreadFacts DEF PipesIInv, ProcessesOK
    <2>3. fileOf(v, fd) # Closed
      BY <2>1, PipesAssumption DEF Numbers, Closed
    <2>4. fileOf(v, fd)' = fileOf(v, fd)
      BY <2>2, <2>3 DEF fileOf
    <2> QED BY <2>1, <2>4 DEF pipeHeld
  <1> QED BY <1>3, <1>4, <1>5 DEF Sees

\* One descriptor is set, to nothing or to what is open.
LEMMA SetRight ==
    ASSUME PipesIInv, NEW g \in Threads, NEW fd \in Fds, NEW f \in OpenFile \cup {Closed},
           f # Closed => f.pipe \in 1 .. Len(pipes),
           descriptors' = [descriptors EXCEPT ![g][fd] = f], UNCHANGED <<nonblock, pipes>>
    PROVE  KernelOK'
  <1>1. descriptors' \in [Threads -> [Fds -> OpenFile \cup {Closed}]]
    BY DEF PipesIInv, KernelOK
  <1>2. \A h \in Threads, e \in Fds : descriptors'[h][e] # Closed => descriptors'[h][e].pipe \in 1 .. Len(pipes)
    BY DEF PipesIInv, KernelOK
  <1> QED BY <1>1, <1>2 DEF PipesIInv, KernelOK

LEMMA CloseRight ==
    ASSUME PipesIInv, NEW t \in Threads, NEW fd \in Fds, close(t, fd)
    PROVE  PipesIInv'
  <1>0. /\ Brief(t) /\ descriptors' = [descriptors EXCEPT ![group[t]][fd] = Closed]
        /\ queue' = woken /\ unheard' = FALSE /\ Counted
        /\ UNCHANGED <<group, live, nonblock, pipes, pending, handling>>
    BY DEF close, wakePipeReaders, signals
  <1>1. KernelOK'
    BY <1>0, BriefFacts, SetRight
  <1>2. \A u \in Threads : Excused(u)
    BY <1>0, WokenFacts DEF Excused
  <1> QED BY <1>0, <1>1, <1>2, BriefRight, CountedFacts

LEMMA DupRight ==
    ASSUME PipesIInv, NEW t \in Threads, NEW fd \in Fds, dup(t, fd)
    PROVE  PipesIInv'
  <1> DEFINE f == fileOf(t, fd)
  <1>0. /\ Brief(t) /\ f # Closed /\ Counted
        /\ UNCHANGED <<group, live, nonblock, pipes, queue, pending, handling, unheard>>
    BY DEF dup, signals
  <1>1. PICK to \in lowestFree(group[t], 0) : descriptors' = [descriptors EXCEPT ![group[t]][to] = f]
    BY DEF dup
  <1>2. to \in Fds /\ descriptors[group[t]][to] = Closed
    BY <1>1 DEF lowestFree
  <1>3. group[t] \in Threads /\ f \in OpenFile /\ f.pipe \in 1 .. Len(pipes)
    BY <1>0, BriefFacts, FileFacts
  <1>4. KernelOK'
    BY <1>0, <1>1, <1>2, <1>3, SetRight
  <1>5. \A g \in Threads, e \in Fds : descriptors[g][e] # Closed => descriptors'[g][e] = descriptors[g][e]
    BY <1>1, <1>2, <1>3 DEF PipesIInv, KernelOK
  <1>6. call' = call
    BY <1>0, BriefFacts
  <1>7. \A u \in Threads : queue[u] # 0 /\ WouldWait(u, call[u]) => Sees(u)
    BY <1>0, <1>5, <1>6, OpenSees
  <1>8. \A u \in Threads : Excused(u)
    BY <1>0, <1>7 DEF Excused
  <1>9. unheard' \in BOOLEAN
    BY <1>0 DEF PipesIInv, CallsOK
  <1> QED BY <1>0, <1>4, <1>8, <1>9, BriefRight, CountedFacts

LEMMA DupToRight ==
    ASSUME PipesIInv, NEW t \in Threads, Brief(t), NEW fd \in Fds, NEW target \in Fds, dupTo(t, fd, target),
           UNCHANGED <<nonblock, pipes>>
    PROVE  KernelOK'
  <1>1. CASE fileOf(t, fd) = Closed
    <2>1. descriptors' = descriptors
      BY <1>1 DEF dupTo
    <2> QED BY <2>1, SameKernel
  <1>2. CASE fileOf(t, fd) # Closed
    <2>1. descriptors' = [descriptors EXCEPT ![group[t]][target] = fileOf(t, fd)]
      BY <1>2 DEF dupTo
    <2>2. group[t] \in Threads /\ fileOf(t, fd) \in OpenFile /\ fileOf(t, fd).pipe \in 1 .. Len(pipes)
      BY <1>2, BriefFacts, FileFacts
    <2> QED BY <2>1, <2>2, SetRight
  <1> QED BY <1>1, <1>2

LEMMA Dup2Right ==
    ASSUME PipesIInv, NEW t \in Threads, NEW fd \in Fds, NEW target \in Fds, dup2(t, fd, target)
    PROVE  PipesIInv'
  <1>0. /\ Brief(t) /\ dupTo(t, fd, target) /\ queue' = woken /\ unheard' = FALSE /\ Counted
        /\ UNCHANGED <<group, live, nonblock, pipes, pending, handling>>
    BY DEF dup2, wakePipeReaders, signals
  <1>1. KernelOK'
    BY <1>0, DupToRight
  <1>2. \A u \in Threads : Excused(u)
    BY <1>0, WokenFacts DEF Excused
  <1> QED BY <1>0, <1>1, <1>2, BriefRight, CountedFacts

LEMMA Dup3Right ==
    ASSUME PipesIInv, NEW t \in Threads, NEW fd \in Fds, NEW target \in Fds, dup3(t, fd, target)
    PROVE  PipesIInv'
  <1>0. /\ Brief(t) /\ dupTo(t, fd, target) /\ unheard' = (unheard \/ fileOf(t, fd) # Closed) /\ Counted
        /\ UNCHANGED <<group, live, nonblock, pipes, queue, pending, handling>>
    BY DEF dup3, signals
  <1>1. KernelOK'
    BY <1>0, DupToRight
  <1>2. unheard \in BOOLEAN /\ unheard' \in BOOLEAN
    BY <1>0 DEF PipesIInv, CallsOK
  <1>3. \A u \in Threads : Excused(u)
    <2>1. CASE fileOf(t, fd) = Closed
      <3>1. descriptors' = descriptors
        BY <1>0, <2>1 DEF dupTo
      <3>2. call' = call
        BY <1>0, BriefFacts
      <3>3. \A u \in Threads : Sees(u)
        BY <1>0, <3>1, <3>2, SameSees
      <3>4. unheard' = unheard
        BY <1>0, <1>2, <2>1
      <3> QED BY <3>3, <3>4 DEF Excused
    <2>2. CASE fileOf(t, fd) # Closed
      <3>1. unheard' = TRUE
        BY <1>0, <1>2, <2>2
      <3> QED BY <3>1 DEF Excused
    <2> QED BY <2>1, <2>2
  <1> QED BY <1>0, <1>1, <1>2, <1>3, BriefRight, CountedFacts

LEMMA SetFlagsRight ==
    ASSUME PipesIInv, NEW t \in Threads, NEW fd \in Fds, NEW flag \in BOOLEAN, setFlags(t, fd, flag)
    PROVE  PipesIInv'
  <1>0. /\ Brief(t) /\ fileOf(t, fd) # Closed
        /\ nonblock' = IF flag THEN nonblock \cup {fileOf(t, fd)} ELSE nonblock \ {fileOf(t, fd)}
        /\ unheard' = TRUE /\ Counted
        /\ UNCHANGED <<group, live, descriptors, pipes, queue, pending, handling>>
    BY DEF setFlags, signals
  <1>1. fileOf(t, fd) \in OpenFile
    BY <1>0, BriefFacts, FileFacts
  <1>2. nonblock' \subseteq OpenFile
    BY <1>0, <1>1 DEF PipesIInv, KernelOK
  <1>3. KernelOK'
    BY <1>0, <1>2 DEF PipesIInv, KernelOK
  <1>4. \A u \in Threads : Excused(u)
    BY <1>0 DEF Excused
  <1> QED BY <1>0, <1>3, <1>4, BriefRight, CountedFacts

LEMMA SetPipeSizeRight ==
    ASSUME PipesIInv, NEW t \in Threads, NEW fd \in Fds, NEW size \in Sizes, setPipeSize(t, fd, size)
    PROVE  PipesIInv'
  <1> DEFINE p == fileOf(t, fd).pipe
  <1>0. /\ Brief(t) /\ fileOf(t, fd) # Closed /\ Len(pipes[p].buffer) <= size
        /\ pipes' = [pipes EXCEPT ![p].capacity = size]
        /\ unheard' = TRUE /\ Counted
        /\ UNCHANGED <<group, live, descriptors, nonblock, queue, pending, handling>>
    BY DEF setPipeSize, signals, pipeWaiting
  <1>1. p \in 1 .. Len(pipes) /\ size \in Nat
    BY <1>0, BriefFacts, FileFacts, PipesAssumption
  <1>2. pipes[p] \in Content /\ Whole(pipes[p].buffer) /\ pipes \in Seq(Content)
    BY <1>1, ContentFacts DEF PipesIInv, KernelOK
  <1>3. [pipes[p] EXCEPT !.capacity = size] \in Content
    BY <1>1, <1>2 DEF Content
  <1>4. /\ pipes' \in Seq(Content) /\ Len(pipes') = Len(pipes)
        /\ pipes'[p] = [pipes[p] EXCEPT !.capacity = size]
        /\ \A q \in 1 .. Len(pipes) : q # p => pipes'[q] = pipes[q]
    BY <1>0, <1>1, <1>2, <1>3
  <1>5. pipes'[p].buffer = pipes[p].buffer /\ pipes'[p].capacity = size
    BY <1>2, <1>4 DEF Content
  <1>6. \A q \in 1 .. Len(pipes) : Len(pipes'[q].buffer) <= pipes'[q].capacity /\ Whole(pipes'[q].buffer)
    BY <1>0, <1>2, <1>4, <1>5 DEF PipesIInv, KernelOK
  <1>7. \A q \in 1 .. Len(pipes) : Whole(pipes'[q].buffer) <=> Whole(pipes[q].buffer)'
    BY DEF Whole
  <1>8. KernelOK'
    BY <1>0, <1>4, <1>6, <1>7 DEF PipesIInv, KernelOK
  <1>9. \A u \in Threads : Excused(u)
    BY <1>0 DEF Excused
  <1> QED BY <1>0, <1>8, <1>9, BriefRight, CountedFacts

LEMMA PipeRight ==
    ASSUME PipesIInv, NEW t \in Threads, NEW flag \in BOOLEAN, pipe(t, flag)
    PROVE  PipesIInv'
  <1> DEFINE p == Len(pipes) + 1
             g == group[t]
             new == [buffer |-> <<>>, capacity |-> Capacity]
  <1>1. pipes \in Seq(Content) /\ Len(pipes) \in Nat /\ DOMAIN pipes = 1 .. Len(pipes)
    BY DEF PipesIInv, KernelOK
  <1>2. Cardinality(DOMAIN pipes) + 1 = p
    BY <1>1, FS_Interval
  <1>3. /\ Brief(t) /\ p <= MaxPipes
        /\ pipes' = Append(pipes, new)
        /\ nonblock' = IF flag THEN nonblock \cup [pipe : {p}, writable : BOOLEAN] ELSE nonblock
        /\ UNCHANGED <<changes, group, live, queue, pending, handling, unheard>>
    BY <1>2 DEF pipe, signals
  <1>a. PICK r \in lowestFree(g, 0) : \E w \in lowestFree(g, r + 1) :
            descriptors' = [descriptors EXCEPT ![g][r] = [pipe |-> p, writable |-> FALSE],
                                               ![g][w] = [pipe |-> p, writable |-> TRUE]]
    BY <1>2 DEF pipe
  <1>4. PICK w \in lowestFree(g, r + 1) :
            descriptors' = [descriptors EXCEPT ![g][r] = [pipe |-> p, writable |-> FALSE],
                                               ![g][w] = [pipe |-> p, writable |-> TRUE]]
    BY <1>a
  <1>5. /\ r \in Fds /\ w \in Fds /\ g \in Threads
        /\ descriptors[g][r] = Closed /\ descriptors[g][w] = Closed
    BY <1>3, <1>a, <1>4, BriefFacts DEF lowestFree
  <1>6. p \in Numbers
    BY <1>1, <1>3, PipesAssumption DEF Numbers
  <1>7. /\ \A b \in BOOLEAN : [pipe |-> p, writable |-> b] \in OpenFile
        /\ [pipe : {p}, writable : BOOLEAN] \subseteq OpenFile
    BY <1>6 DEF OpenFile
  <1>8. new \in Content /\ Whole(new.buffer) /\ Len(new.buffer) <= new.capacity
    BY PipesAssumption DEF Content, Whole
  <1>9. /\ pipes' \in Seq(Content) /\ Len(pipes') = p /\ pipes'[p] = new
        /\ \A q \in 1 .. Len(pipes) : pipes'[q] = pipes[q]
    BY <1>1, <1>3, <1>8
  <1>10. /\ descriptors' \in [Threads -> [Fds -> OpenFile \cup {Closed}]]
         /\ \A h \in Threads, e \in Fds : \/ descriptors'[h][e] = descriptors[h][e]
                                          \/ descriptors[h][e] = Closed /\ descriptors'[h][e].pipe = p
    <2>1. descriptors \in [Threads -> [Fds -> OpenFile \cup {Closed}]]
      BY DEF PipesIInv, KernelOK
    <2>2. /\ [pipe |-> p, writable |-> FALSE] \in OpenFile /\ [pipe |-> p, writable |-> TRUE] \in OpenFile
          /\ [pipe |-> p, writable |-> FALSE].pipe = p /\ [pipe |-> p, writable |-> TRUE].pipe = p
      BY <1>7
    <2> QED BY <1>4, <1>5, <2>1, <2>2
  <1>11. nonblock' \subseteq OpenFile
    BY <1>3, <1>7 DEF PipesIInv, KernelOK
  <1>12. \A q \in 1 .. p : Len(pipes'[q].buffer) <= pipes'[q].capacity /\ Whole(pipes'[q].buffer)
    BY <1>1, <1>8, <1>9 DEF PipesIInv, KernelOK
  <1>13. \A q \in 1 .. p : Whole(pipes'[q].buffer) <=> Whole(pipes[q].buffer)'
    BY DEF Whole
  <1>14. \A h \in Threads, e \in Fds : descriptors'[h][e] # Closed => descriptors'[h][e].pipe \in 1 .. p
    BY <1>1, <1>10 DEF PipesIInv, KernelOK
  <1>15. KernelOK'
    BY <1>3, <1>9, <1>10, <1>11, <1>12, <1>13, <1>14 DEF KernelOK
  <1>16. \A f \in OpenFile : f.pipe \in 1 .. Len(pipes) => (f \in nonblock' <=> f \in nonblock)
    BY <1>1, <1>3
  <1>17. call' = call
    BY <1>3, BriefFacts
  <1>18. \A h \in Threads, e \in Fds : descriptors[h][e] # Closed => descriptors'[h][e] = descriptors[h][e]
    BY <1>10
  <1>19. \A u \in Threads : queue[u] # 0 /\ WouldWait(u, call[u]) => Sees(u)
    BY <1>3, <1>9, <1>16, <1>17, <1>18, OpenSees
  <1>20. \A u \in Threads : Excused(u)
    BY <1>3, <1>19 DEF Excused
  <1>21. unheard' \in BOOLEAN /\ changes' \in 0 .. MaxChanges
    BY <1>3 DEF PipesIInv, CallsOK
  <1> QED BY <1>3, <1>15, <1>20, <1>21, BriefRight

-----------------------------------------------------------------------------
(* Processes. *)

LEMMA CloneRight ==
    ASSUME PipesIInv, NEW t \in Threads, NEW child \in Threads, NEW thread \in BOOLEAN, clone(t, child, thread)
    PROVE  PipesIInv'
  <1> DEFINE g == IF thread THEN group[t] ELSE child
  <1>0. /\ t \in live /\ group[child] = Nobody
        /\ group' = [group EXCEPT ![child] = g] /\ live' = live \cup {child}
        /\ descriptors' = [descriptors EXCEPT ![g] = descriptors[group[t]]]
        /\ UNCHANGED <<changes, nonblock, pipes, call, queue, sites, pending, handling, result, put, astray, unheard>>
    BY DEF clone, Runs, signals, history
  <1>1. /\ group[t] \in Threads /\ group[t] # Nobody /\ group[group[t]] = group[t] /\ group[t] # child
        /\ g \in Threads /\ child \notin live
    BY <1>0, ThreadFacts DEF PipesIInv, ProcessesOK
  <1>2. /\ group \in [Threads -> Threads \cup {Nobody}] /\ group'[child] = g
        /\ \A u \in Threads \ {child} : group'[u] = group[u]
    BY <1>0 DEF PipesIInv, ProcessesOK
  <1>3. ProcessesOK'
    <2>1. group' \in [Threads -> Threads \cup {Nobody}]
      BY <1>0, <1>1, <1>2
    <2>2. g # Nobody /\ group'[g] = g
      BY <1>1, <1>2, PipesAssumption
    <2>3. live' \subseteq {u \in Threads : group'[u] # Nobody}
      BY <1>0, <1>2, <2>2 DEF PipesIInv, ProcessesOK
    <2>4. ASSUME NEW u \in Threads, group'[u] # Nobody PROVE group'[u] \in Threads /\ group'[group'[u]] = group'[u]
      <3>1. CASE u = child
        BY <3>1, <2>2, <1>1, <1>2
      <3>2. CASE u # child
        <4>1. group'[u] = group[u] /\ group[u] \in Threads /\ group[group[u]] = group[u] /\ group[u] # Nobody
          BY <3>2, <2>4, <1>2 DEF PipesIInv, ProcessesOK
        <4>2. group[u] # child
          BY <4>1, <1>0
        <4> QED BY <4>1, <4>2, <1>2
      <3> QED BY <3>1, <3>2
    <2> QED BY <2>1, <2>3, <2>4, <1>0 DEF PipesIInv, ProcessesOK
  <1>4. /\ descriptors \in [Threads -> [Fds -> OpenFile \cup {Closed}]]
        /\ descriptors' \in [Threads -> [Fds -> OpenFile \cup {Closed}]]
        /\ descriptors'[g] = descriptors[group[t]]
        /\ \A h \in Threads : h # child => descriptors'[h] = descriptors[h]
    BY <1>0, <1>1 DEF PipesIInv, KernelOK
  <1>5. KernelOK'
    <2>1. \A h \in Threads : descriptors'[h] = descriptors[h] \/ descriptors'[h] = descriptors[group[t]]
      BY <1>0, <1>1, <1>4
    <2>2. \A h \in Threads, e \in Fds : descriptors'[h][e] # Closed => descriptors'[h][e].pipe \in 1 .. Len(pipes)
      BY <2>1, <1>1 DEF PipesIInv, KernelOK
    <2> QED BY <2>2, <1>0, <1>4 DEF PipesIInv, KernelOK
  <1>6. CallsOK'
    BY <1>0 DEF PipesIInv, CallsOK
  <1>7. \A u \in Threads \ {child} : Stays(u)
    BY <1>0, <1>2 DEF Stays
  <1>8. ASSUME NEW u \in live, NEW fd \in Fds PROVE u \in Threads /\ fileOf(u, fd)' = fileOf(u, fd)
    <2>1. /\ u \in Threads /\ u # child /\ group[u] \in Threads /\ group[group[u]] = group[u] /\ group[u] # Nobody
      BY <1>1 DEF PipesIInv, ProcessesOK
    <2>2. group[u] # child /\ group'[u] = group[u]
      BY <2>1, <1>0, <1>2
    <2> QED BY <2>1, <2>2, <1>4 DEF fileOf
  <1>9. \A p \in Numbers, w \in BOOLEAN : pipeHeld(p, w) => pipeHeld(p, w)'
    <2> SUFFICES ASSUME NEW p \in Numbers, NEW w \in BOOLEAN, pipeHeld(p, w) PROVE pipeHeld(p, w)'
      OBVIOUS
    <2>1. PICK u \in live, fd \in Fds : fileOf(u, fd) = [pipe |-> p, writable |-> w]
      BY DEF pipeHeld
    <2>2. fileOf(u, fd)' = [pipe |-> p, writable |-> w] /\ u \in live'
      BY <2>1, <1>0, <1>8
    <2> QED BY <2>2 DEF pipeHeld
  <1>10. ASSUME NEW u \in Threads, queue[u] # 0 PROVE Sees(u)
    <2>1. u \in live /\ call[u] \in Call /\ call[u].fd \in Fds
      BY <1>10, ThreadFacts DEF ThreadRight, Call
    <2>2. fileOf(u, call[u].fd)' = fileOf(u, call[u].fd)
      BY <2>1, <1>0, <1>8 DEF fileOf
    <2> QED BY <2>2, <1>0, <1>9 DEF Sees
  <1>11. \A u \in Threads : Excused(u)
    BY <1>0, <1>10 DEF Excused
  <1>12. call[child] = NoCall /\ result[child] = 0 /\ put[child] = <<>> /\ queue[child] = 0
    BY <1>0, <1>1, ThreadFacts DEF ThreadRight
  <1>13. group'[child] # Nobody
    BY <1>1, <1>2, PipesAssumption
  <1>14. ThreadRight(child)' /\ Honest(child)' /\ ~InVain(child)'
    BY <1>0, <1>12, <1>13, OverRight
  <1> QED BY <1>3, <1>5, <1>6, <1>7, <1>11, <1>14, StepRight

LEMMA ExitThreadRight ==
    ASSUME PipesIInv, NEW t \in Threads, exitThread(t)
    PROVE  PipesIInv'
  <1>0. /\ t \in live /\ queue[t] = 0 /\ t \notin pending /\ t \notin handling /\ call[t] = NoCall
        /\ live' = live \ {t} /\ sites' = [sites EXCEPT ![t] = NoSite] /\ Forgotten({t})
        /\ UNCHANGED <<changes, group, descriptors, nonblock, pipes, call, queue, pending, handling, unheard>>
    BY DEF exitThread, Runs, kernel, signals
  <1>1. PICK other \in live \ {t} : group[other] = group[t]
    BY DEF exitThread
  <1>2. ProcessesOK'
    BY <1>0 DEF PipesIInv, ProcessesOK
  <1>3. KernelOK'
    BY <1>0, SameKernel
  <1>4. /\ sites' \in [Threads -> Site \cup {NoSite}] /\ result' \in [Threads -> Nat \cup {Failed}]
        /\ put' \in [Threads -> Seq(Nat)] /\ astray' \subseteq Threads
        /\ put'[t] = <<>> /\ result'[t] = 0
        /\ \A u \in Threads \ {t} : /\ sites'[u] = sites[u] /\ result'[u] = result[u]
                                    /\ put'[u] = put[u] /\ (u \in astray' <=> u \in astray)
    BY <1>0 DEF Forgotten, PipesIInv, CallsOK
  <1>5. CallsOK'
    BY <1>0, <1>4 DEF PipesIInv, CallsOK
  <1>6. \A u \in Threads \ {t} : Stays(u)
    BY <1>0, <1>4 DEF Stays
  <1>7. \A p \in Numbers, w \in BOOLEAN : pipeHeld(p, w) => pipeHeld(p, w)'
    <2> SUFFICES ASSUME NEW p \in Numbers, NEW w \in BOOLEAN, pipeHeld(p, w) PROVE pipeHeld(p, w)'
      OBVIOUS
    <2>1. PICK u \in live, fd \in Fds : fileOf(u, fd) = [pipe |-> p, writable |-> w]
      BY DEF pipeHeld
    <2>2. \E v \in live' : group[v] = group[u]
      BY <1>0, <1>1
    <2>3. PICK v \in live' : group[v] = group[u]
      BY <2>2
    <2>4. fileOf(v, fd)' = [pipe |-> p, writable |-> w]
      BY <2>1, <2>3, <1>0 DEF fileOf
    <2> QED BY <2>3, <2>4 DEF pipeHeld
  <1>8. \A u \in Threads : Sees(u)
    BY <1>0, <1>7 DEF Sees, fileOf
  <1>9. \A u \in Threads : Excused(u)
    BY <1>0, <1>8 DEF Excused
  <1>10. ThreadRight(t)' /\ Honest(t)' /\ ~InVain(t)'
    <2>1. group'[t] # Nobody
      BY <1>0, ThreadFacts
    <2> QED BY <2>1, <1>0, <1>4, OverRight
  <1> QED BY <1>2, <1>3, <1>5, <1>6, <1>9, <1>10, StepRight

\* The end of a process, with what it wakes, for whoever it leaves and whoever it takes.
LEMMA EndFacts ==
    ASSUME PipesIInv, NEW g, endGroup(g), UNCHANGED group
    PROVE  /\ ProcessesOK'
           /\ call' \in [Threads -> Call \cup {NoCall}] /\ sites' \in [Threads -> Site \cup {NoSite}]
           /\ queue' \in [Threads -> Numbers \cup {0}] /\ unheard' = FALSE
           /\ \A u \in Threads :
                 /\ queue'[u] = 0
                 /\ u \in live /\ group[u] = g => u \notin live' /\ call'[u] = NoCall /\ group'[u] # Nobody
                 /\ ~(u \in live /\ group[u] = g) => call'[u] = call[u] /\ sites'[u] = sites[u]
                 /\ u \in live' => u \in live
  <1>1. ProcessesOK'
    BY DEF endGroup, PipesIInv, ProcessesOK
  <1>2. /\ call' \in [Threads -> Call \cup {NoCall}] /\ sites' \in [Threads -> Site \cup {NoSite}]
    BY DEF endGroup, PipesIInv, CallsOK
  <1>3. queue' = woken /\ unheard' = FALSE
    BY DEF endGroup, wakePipeReaders
  <1>4. ASSUME NEW u \in Threads
        PROVE  /\ u \in live /\ group[u] = g => u \notin live' /\ call'[u] = NoCall /\ group'[u] # Nobody
               /\ ~(u \in live /\ group[u] = g) => call'[u] = call[u] /\ sites'[u] = sites[u]
               /\ u \in live' => u \in live
    BY DEF endGroup, PipesIInv, ProcessesOK
  <1> QED BY <1>1, <1>2, <1>3, <1>4, WokenFacts

\* A thread that is gone is right.
LEMMA GoneRight ==
    ASSUME NEW t \in Threads, t \notin live', call'[t] = NoCall, group'[t] # Nobody, queue'[t] = 0
    PROVE  ThreadRight(t)' /\ Honest(t)' /\ ~InVain(t)'
  BY DEF ThreadRight, Honest, InVain

LEMMA EndProcessRight ==
    ASSUME PipesIInv, NEW g \in Threads, endProcess(g)
    PROVE  PipesIInv'
  <1> DEFINE gone == {t \in live : group[t] = g}
  <1>0. /\ endGroup(g) /\ Forgotten(gone)
        /\ UNCHANGED <<changes, group, descriptors, nonblock, pipes>>
    BY DEF endProcess, kernel
  <1>1. ProcessesOK' /\ KernelOK'
    BY <1>0, EndFacts, SameKernel
  <1>2. /\ result' \in [Threads -> Nat \cup {Failed}] /\ put' \in [Threads -> Seq(Nat)] /\ astray' \subseteq Threads
        /\ \A u \in Threads \ gone : /\ result'[u] = result[u] /\ put'[u] = put[u]
                                     /\ u \in astray' <=> u \in astray
    BY <1>0 DEF Forgotten, PipesIInv, CallsOK
  <1>3. CallsOK'
    BY <1>0, <1>2, EndFacts DEF PipesIInv, CallsOK
  <1>4. ASSUME NEW u \in Threads PROVE ThreadRight(u)' /\ Honest(u)' /\ ~InVain(u)'
    <2>1. CASE u \in gone
      BY <2>1, <1>0, EndFacts, GoneRight
    <2>2. CASE u \notin gone
      <3>1. Stays(u) /\ queue'[u] = 0
        BY <2>2, <1>0, <1>2, EndFacts DEF Stays
      <3> QED BY <3>1, StaysRight, StaysWaiting, ThreadFacts
    <2> QED BY <2>1, <2>2
  <1> QED BY <1>1, <1>3, <1>4 DEF PipesIInv

-----------------------------------------------------------------------------
(* Writes. *)

LEMMA FirstFacts ==
    ASSUME NEW d \in Nat, NEW n \in Nat
    PROVE  /\ First(d) \in Seq(Nat) /\ IsInjective(First(d))
           /\ [i \in 1 .. n |-> d + i] \in Seq(Nat)
           /\ First(d) \o [i \in 1 .. n |-> d + i] = First(d + n)
  <1>1. First(d) \in Seq(Nat) /\ Len(First(d)) = d /\ \A i \in 1 .. d : First(d)[i] = i
    BY DEF First
  <1>2. IsInjective(First(d))
    BY DEF First, IsInjective
  <1> DEFINE next == [i \in 1 .. n |-> d + i]
             both == First(d) \o next
  <1>3. next \in Seq(Nat) /\ Len(next) = n /\ \A i \in 1 .. n : next[i] = d + i
    OBVIOUS
  <1> HIDE DEF next
  <1>4. /\ both \in Seq(Nat) /\ Len(both) = d + n
        /\ \A i \in 1 .. d : both[i] = First(d)[i]
        /\ \A i \in 1 .. n : both[d + i] = next[i]
    BY <1>1, <1>3
  <1> HIDE DEF both
  <1>5. ASSUME NEW i \in 1 .. d + n PROVE both[i] = i
    <2>1. CASE i <= d
      BY <2>1, <1>1, <1>4
    <2>2. CASE i > d
      <3>1. i - d \in 1 .. n /\ d + (i - d) = i
        BY <2>2
      <3> QED BY <3>1, <1>3, <1>4
    <2> QED BY <2>1, <2>2
  <1>6. First(d + n) \in Seq(Nat) /\ Len(First(d + n)) = d + n /\ \A i \in 1 .. d + n : First(d + n)[i] = i
    BY DEF First
  <1>7. both = First(d + n)
    BY <1>4, <1>5, <1>6
  <1> QED BY <1>1, <1>2, <1>3, <1>7 DEF both, next

LEMMA WriteFacts ==
    ASSUME PipesIInv, NEW t \in Threads, NEW c \in Call, write(t, c)
    PROVE  /\ t \in live /\ queue[t] = 0 /\ t \notin pending /\ t \notin handling
           /\ group[t] # Nobody /\ group[t] \in Threads
           /\ c.op = "write" /\ c # NoCall /\ c.fd \in Fds /\ c.place \in Places /\ c.place # Nowhere
           /\ c.count \in Counts /\ c.count \in Nat
           /\ entered(t, c.place) \in Site \cup {NoSite} /\ entered(t, c.place).written \in Nat
           /\ done(t, c) \in Nat /\ rest(t, c) \in Nat
           /\ UNCHANGED <<changes, group, descriptors, nonblock>>
           /\ astray' \subseteq Threads
           /\ \A u \in Threads \ {t} : u \in astray' <=> u \in astray
           /\ t \notin astray' => ~Strays(t, c)
           /\ Before(t) \in Seq(Nat)
  <1>1. /\ t \in live /\ queue[t] = 0 /\ t \notin pending /\ t \notin handling
        /\ c.op = "write" /\ UNCHANGED <<changes, group, descriptors, nonblock>>
        /\ astray' = IF Strays(t, c) THEN astray \cup {t} ELSE astray \ {t}
    BY DEF write, Running, Runs
  <1>2. group[t] # Nobody /\ group[t] \in Threads
    BY <1>1, ThreadFacts
  <1>3. /\ c # NoCall /\ c.fd \in Fds /\ c.place \in Places /\ c.place # Nowhere
        /\ c.count \in Counts /\ c.count \in Nat
    BY NothingFacts, PipesAssumption DEF Call
  <1>4. entered(t, c.place) \in Site \cup {NoSite}
    BY ThreadFacts DEF entered
  <1>5. entered(t, c.place).written \in Nat
    BY <1>4 DEF Site, NoSite
  <1>6. done(t, c) \in Nat
    BY <1>5 DEF done
  <1>7. rest(t, c) \in Nat
    BY <1>3, <1>6 DEF rest
  <1>8. Before(t) \in Seq(Nat)
    BY ThreadFacts DEF Before
  <1>9. astray' \subseteq Threads
    BY <1>1 DEF PipesIInv, CallsOK
  <1> QED BY <1>1, <1>2, <1>3, <1>4, <1>5, <1>6, <1>7, <1>8, <1>9

\* Where the site says what the call did, so does what the write begins with.
LEMMA NotAstray ==
    ASSUME PipesIInv, NEW t \in Threads, NEW c \in Call, write(t, c), ~Strays(t, c)
    PROVE  /\ Before(t) = First(done(t, c)) /\ done(t, c) <= c.count
           /\ writeError(t, c) \/ ~mayWait(t, c) => Before(t) = First(0)
           /\ mayWait(t, c) => done(t, c) = entered(t, c.place).written
  <1> DEFINE w == entered(t, c.place).written
  <1>1. w \in Nat /\ c.count \in Nat /\ c # NoCall /\ c.place # Nowhere /\ t \in live
    BY WriteFacts
  <1>2. (mayWait(t, c) => done(t, c) = w) /\ (~mayWait(t, c) => done(t, c) = 0)
    BY DEF done
  <1>3. CASE call[t] = NoCall
    <2>1. w = 0 /\ Before(t) = First(0)
      BY <1>1, <1>3, NothingFacts DEF Strays, Before
    <2> QED BY <2>1, <1>1, <1>2
  <1>4. CASE call[t] = c
    <2>1. t \notin astray /\ (writeError(t, c) \/ ~mayWait(t, c) => w = 0)
      BY <1>1, <1>4 DEF Strays
    <2>2. w = sites[t].written
      BY <1>1, <1>4, ThreadFacts, NothingFacts DEF ThreadRight, entered
    <2>3. Before(t) = First(w) /\ w <= c.count
      BY <2>1, <2>2, <1>1, <1>4, ThreadFacts DEF ThreadRight, Honest, Told, Before
    <2> QED BY <2>1, <2>3, <1>1, <1>2
  <1>5. call[t] = c \/ call[t] = NoCall
    BY DEF write, Running
  <1> QED BY <1>3, <1>4, <1>5

LEMMA PieceFacts ==
    ASSUME PipesIInv, NEW t \in Threads, NEW c \in Call, write(t, c), ~writeError(t, c)
    PROVE  /\ fileOf(t, c.fd).pipe \in 1 .. Len(pipes) /\ fileOf(t, c.fd).pipe \in Numbers
           /\ pipeRoom(fileOf(t, c.fd).pipe) \in Nat /\ piece(t, c) \in Nat
           /\ piece(t, c) <= pipeRoom(fileOf(t, c.fd).pipe) /\ piece(t, c) <= rest(t, c)
           /\ piece(t, c) < rest(t, c) => piece(t, c) = pipeRoom(fileOf(t, c.fd).pipe)
  <1>1. fileOf(t, c.fd) # Closed
    BY DEF writeError
  <1>2. fileOf(t, c.fd).pipe \in 1 .. Len(pipes) /\ fileOf(t, c.fd).pipe \in Numbers
    BY <1>1, WriteFacts, FileFacts
  <1>3. pipeRoom(fileOf(t, c.fd).pipe) \in Nat /\ rest(t, c) \in Nat
    BY <1>2, ContentFacts, WriteFacts
  <1> QED BY <1>2, <1>3, MinFacts DEF piece

\* A write that is over preserves the invariant where what it says is what it put.
LEMMA WriteReturns ==
    ASSUME PipesIInv, NEW t \in Threads, NEW c \in Call, write(t, c),
           NEW v \in Nat \cup {Failed}, NEW s \in Site \cup {NoSite}, return(t, v, s),
           UNCHANGED <<live, handling>>, pending' \in {pending, pending \cup {t}},
           KernelOK', queue' = woken \/ (queue' = queue /\ pipes' = pipes /\ unheard' = unheard),
           unheard' \in BOOLEAN, put' \in [Threads -> Seq(Nat)],
           \A u \in Threads \ {t} : put'[u] = put[u],
           ~Strays(t, c) => put'[t] = First(IF v > 0 THEN v ELSE 0)
    PROVE  PipesIInv'
  <1>1. /\ call' \in [Threads -> Call \cup {NoCall}] /\ result' \in [Threads -> Nat \cup {Failed}]
        /\ sites' \in [Threads -> Site \cup {NoSite}]
        /\ call'[t] = NoCall /\ result'[t] = v
        /\ \A u \in Threads \ {t} : call'[u] = call[u] /\ result'[u] = result[u] /\ sites'[u] = sites[u]
    BY ReturnFacts
  <1>2. queue' \in [Threads -> Numbers \cup {0}] /\ \A u \in Threads : queue'[u] = 0 \/ queue'[u] = queue[u]
    BY WokenFacts DEF PipesIInv, CallsOK
  <1>3. /\ t \in live /\ queue'[t] = 0 /\ group'[t] # Nobody /\ t \in Threads
        /\ t \notin astray' => ~Strays(t, c)
    BY <1>2, WriteFacts
  <1>4. ProcessesOK'
    BY <1>3, WriteFacts DEF PipesIInv, ProcessesOK
  <1>5. changes' = changes /\ astray' \subseteq Threads
    BY WriteFacts
  <1>6. CallsOK'
    BY <1>1, <1>2, <1>5 DEF PipesIInv, CallsOK
  <1>7. \A u \in Threads \ {t} : Stays(u)
    BY <1>1, <1>2, WriteFacts DEF Stays
  <1>8. \A u \in Threads \ {t} : Excused(u)
    <2>1. CASE queue' = woken
      BY <2>1, WokenFacts DEF Excused
    <2>2. CASE queue' = queue /\ pipes' = pipes /\ unheard' = unheard
      <3>1. UNCHANGED <<group, live, descriptors, nonblock, pipes>>
        BY <2>2, WriteFacts
      <3> QED BY <2>2, <3>1, <1>1, SameSees DEF Excused
    <2> QED BY <2>1, <2>2
  <1>9. ThreadRight(t)' /\ ~InVain(t)'
    BY <1>1, <1>3 DEF ThreadRight, InVain
  <1>10. Honest(t)'
    <2>1. Told(t)' = IF v > 0 THEN v ELSE 0
      BY <1>1 DEF Told
    <2> QED BY <2>1, <1>3 DEF Honest
  <1> QED BY <1>4, <1>6, <1>7, <1>8, <1>9, <1>10, StepRight

\* A write that waits preserves the invariant where its site says what it put and it has reason to wait.
LEMMA WriteBlocks ==
    ASSUME PipesIInv, NEW t \in Threads, NEW c \in Call, write(t, c),
           NEW p \in Numbers, NEW w \in Nat, NEW q, waitOn(t, c, p, w, q),
           UNCHANGED <<live, pending, handling>>,
           KernelOK', q = woken \/ (q = queue /\ pipes' = pipes /\ unheard' = unheard),
           unheard' \in BOOLEAN, put' \in [Threads -> Seq(Nat)],
           \A u \in Threads \ {t} : put'[u] = put[u],
           ~Strays(t, c) => put'[t] = First(w) /\ w <= c.count /\ WouldWait(t, c)'
    PROVE  PipesIInv'
  <1>0. q \in [Threads -> Numbers \cup {0}] /\ \A u \in Threads : q[u] = 0 \/ q[u] = queue[u]
    BY WokenFacts DEF PipesIInv, CallsOK
  <1>1. /\ call' \in [Threads -> Call \cup {NoCall}] /\ result' \in [Threads -> Nat \cup {Failed}]
        /\ sites' \in [Threads -> Site \cup {NoSite}] /\ queue' \in [Threads -> Numbers \cup {0}]
        /\ call'[t] = c /\ sites'[t] = [place |-> c.place, written |-> w]
        /\ \A u \in Threads \ {t} : /\ call'[u] = call[u] /\ result'[u] = result[u]
                                    /\ sites'[u] = sites[u] /\ queue'[u] = q[u]
    BY <1>0, WaitFacts
  <1>2. /\ t \in live' /\ group'[t] # Nobody /\ t \notin pending' /\ t \notin handling' /\ c # NoCall
        /\ t \notin astray' => ~Strays(t, c)
    BY WriteFacts
  <1>3. ProcessesOK'
    BY WriteFacts, SameProcesses
  <1>4. changes' = changes /\ astray' \subseteq Threads
    BY WriteFacts
  <1>5. CallsOK'
    BY <1>1, <1>4 DEF PipesIInv, CallsOK
  <1>6. \A u \in Threads \ {t} : Stays(u)
    BY <1>0, <1>1, WriteFacts DEF Stays
  <1>7. \A u \in Threads \ {t} : Excused(u)
    <2>1. CASE q = woken
      BY <2>1, <1>1, WokenFacts DEF Excused
    <2>2. CASE q = queue /\ pipes' = pipes /\ unheard' = unheard
      <3>1. UNCHANGED <<group, live, descriptors, nonblock, pipes>>
        BY <2>2, WriteFacts
      <3> QED BY <2>2, <3>1, <1>1, SameSees DEF Excused
    <2> QED BY <2>1, <2>2
  <1>8. ThreadRight(t)'
    BY <1>1, <1>2 DEF ThreadRight
  <1>9. Honest(t)'
    <2>1. Told(t)' = w
      BY <1>1, <1>2 DEF Told
    <2> QED BY <2>1, <1>2 DEF Honest
  <1>10. ~InVain(t)'
    <2>1. WouldWait(t, call[t])' <=> WouldWait(t, c)'
      BY <1>1 DEF WouldWait, waitForPipe, writeError, mayWait, noRoom, piece, rest, done, entered, fileOf
    <2> QED BY <2>1, <1>2 DEF InVain
  <1> QED BY <1>3, <1>5, <1>6, <1>7, <1>8, <1>9, <1>10, StepRight

LEMMA PutBefore ==
    ASSUME PipesIInv, NEW t \in Threads, NEW c \in Call, write(t, c), put' = [put EXCEPT ![t] = Before(t)]
    PROVE  /\ put' \in [Threads -> Seq(Nat)] /\ put'[t] = Before(t)
           /\ \A u \in Threads \ {t} : put'[u] = put[u]
  BY WriteFacts DEF PipesIInv, CallsOK

\* Nothing is put, and the write is over.
LEMMA WriteEndsRight ==
    ASSUME PipesIInv, NEW t \in Threads, NEW c \in Call, write(t, c),
           writeRefused(t, c) \/ writeFaults(t, c) \/ (writeWaits(t, c) /\ ~mayWait(t, c))
    PROVE  PipesIInv'
  <1>0. /\ put' = [put EXCEPT ![t] = Before(t)] /\ UNCHANGED <<live, pipes, queue, pending, handling, unheard>>
    BY DEF writeRefused, writeFaults, writeWaits, signals
  <1>1. KernelOK' /\ unheard' \in BOOLEAN
    BY <1>0, WriteFacts, SameKernel DEF PipesIInv, CallsOK
  <1>2. /\ put' \in [Threads -> Seq(Nat)] /\ put'[t] = Before(t)
        /\ \A u \in Threads \ {t} : put'[u] = put[u]
    BY <1>0, PutBefore
  <1>3. entered(t, c.place) \in Site \cup {NoSite} /\ siteAfter(t, c) \in Site \cup {NoSite} /\ done(t, c) \in Nat
    BY WriteFacts DEF siteAfter
  <1>4. CASE return(t, Failed, entered(t, c.place)) /\ (~Strays(t, c) => Before(t) = First(0))
    <2>1. (IF Failed > 0 THEN Failed ELSE 0) = 0
      BY DEF Failed
    <2> QED BY <2>1, <1>0, <1>1, <1>2, <1>3, <1>4, WriteReturns
  <1>5. CASE return(t, done(t, c), siteAfter(t, c)) /\ done(t, c) > 0
    <2>1. ~Strays(t, c) => Before(t) = First(done(t, c))
      BY NotAstray
    <2> QED BY <2>1, <1>0, <1>1, <1>2, <1>3, <1>5, WriteReturns
  <1>6. CASE writeRefused(t, c)
    BY <1>4, <1>6, NotAstray DEF writeRefused
  <1>7. CASE writeWaits(t, c) /\ ~mayWait(t, c)
    BY <1>4, <1>7, NotAstray DEF writeWaits
  <1>8. CASE writeFaults(t, c)
    <2>1. CASE done(t, c) > 0
      BY <1>5, <1>8, <2>1 DEF writeFaults
    <2>2. CASE ~(done(t, c) > 0)
      <3>1. done(t, c) = 0
        BY <1>3, <2>2
      <3>2. ~Strays(t, c) => Before(t) = First(0)
        BY <3>1, NotAstray
      <3> QED BY <3>2, <1>4, <1>8, <2>2 DEF writeFaults
    <2> QED BY <2>1, <2>2
  <1> QED BY <1>6, <1>7, <1>8

LEMMA WriteBrokenRight ==
    ASSUME PipesIInv, NEW t \in Threads, NEW c \in Call, write(t, c), writeBroken(t, c)
    PROVE  PipesIInv'
  <1> DEFINE v == IF done(t, c) = 0 THEN Failed ELSE done(t, c)
             s == IF done(t, c) = 0 THEN entered(t, c.place) ELSE siteAfter(t, c)
  <1>0. brokenPipe(t, v, s) /\ put' = [put EXCEPT ![t] = Before(t)] /\ UNCHANGED pipes
    BY DEF writeBroken
  <1>1. KernelOK'
    BY <1>0, WriteFacts, SameKernel
  <1>2. /\ put' \in [Threads -> Seq(Nat)] /\ put'[t] = Before(t)
        /\ \A u \in Threads \ {t} : put'[u] = put[u]
    BY <1>0, PutBefore
  <1>3. v \in Nat \cup {Failed} /\ s \in Site \cup {NoSite} /\ done(t, c) \in Nat
    BY WriteFacts DEF siteAfter
  <1>4. (IF v > 0 THEN v ELSE 0) = done(t, c)
    BY <1>3 DEF Failed
  <1> HIDE DEF v, s
  <1>5. CASE /\ return(t, v, s) /\ queue' = woken /\ unheard' = FALSE
             /\ pending' \in {pending, pending \cup {t}} /\ UNCHANGED <<live, handling>>
    <2>1. ~Strays(t, c) => put'[t] = First(IF v > 0 THEN v ELSE 0)
      BY <1>2, <1>4, NotAstray
    <2> QED BY <2>1, <1>1, <1>2, <1>3, <1>5, WriteReturns
  <1>6. CASE endGroup(group[t]) /\ UNCHANGED result
    <2>1. UNCHANGED group /\ changes' = changes /\ astray' \subseteq Threads /\ t \in live
      BY WriteFacts
    <2>2. ProcessesOK'
      BY <1>6, <2>1, EndFacts
    <2>3. CallsOK'
      BY <1>2, <1>6, <2>1, EndFacts DEF PipesIInv, CallsOK
    <2>4. ASSUME NEW u \in Threads PROVE ThreadRight(u)' /\ Honest(u)' /\ ~InVain(u)'
      <3>1. CASE u \in live /\ group[u] = group[t]
        BY <3>1, <1>6, <2>1, EndFacts, GoneRight
      <3>2. CASE ~(u \in live /\ group[u] = group[t])
        <4>1. u # t
          BY <3>2, <2>1
        <4>2. u \in astray' <=> u \in astray
          BY <4>1, WriteFacts
        <4>3. queue'[u] = 0 /\ call'[u] = call[u] /\ sites'[u] = sites[u] /\ (u \in live' => u \in live)
          BY <3>2, <1>6, <2>1, EndFacts
        <4>4. Stays(u)
          BY <4>1, <4>2, <4>3, <1>2, <1>6, <2>1 DEF Stays
        <4> QED BY <4>3, <4>4, StaysRight, StaysWaiting, ThreadFacts
      <3> QED BY <3>1, <3>2
    <2> QED BY <2>2, <2>3, <2>4, <1>1 DEF PipesIInv
  <1> QED BY <1>0, <1>5, <1>6 DEF brokenPipe, wakePipeReaders

\* The write waits before it puts anything.
LEMMA WriteWaitsRight ==
    ASSUME PipesIInv, NEW t \in Threads, NEW c \in Call, write(t, c), writeWaits(t, c), mayWait(t, c)
    PROVE  PipesIInv'
  <1> DEFINE p == fileOf(t, c.fd).pipe
  <1>0. /\ ~writeError(t, c) /\ pipeHeld(p, FALSE) /\ noRoom(t, c) /\ waitOn(t, c, p, done(t, c), queue)
        /\ put' = [put EXCEPT ![t] = Before(t)] /\ UNCHANGED <<live, pipes, pending, handling, unheard>>
    BY DEF writeWaits, signals
  <1>1. /\ KernelOK' /\ unheard' \in BOOLEAN /\ p \in Numbers /\ done(t, c) \in Nat
        /\ queue \in [Threads -> Numbers \cup {0}]
    BY <1>0, WriteFacts, PieceFacts, SameKernel DEF PipesIInv, CallsOK
  <1>2. /\ put' \in [Threads -> Seq(Nat)] /\ put'[t] = Before(t)
        /\ \A u \in Threads \ {t} : put'[u] = put[u]
    BY <1>0, PutBefore
  <1>3. WouldWait(t, c)'
    <2>1. UNCHANGED <<group, live, descriptors, nonblock, pipes>>
      BY <1>0, WriteFacts
    <2>2. sites'[t] = [place |-> c.place, written |-> done(t, c)]
      BY <1>0, <1>1, WaitFacts
    <2>3. fileOf(t, c.fd)' = fileOf(t, c.fd) /\ ~writeError(t, c)' /\ mayWait(t, c)' /\ pipeHeld(p, FALSE)'
      BY <1>0, <2>1 DEF fileOf, writeError, mayWait, pipeHeld
    <2>4. done(t, c)' = done(t, c)
      BY <2>2, <2>3 DEF done, entered
    <2>5. rest(t, c)' = rest(t, c)
      BY <2>4 DEF rest
    <2>6. piece(t, c)' = piece(t, c)
      BY <2>1, <2>3, <2>5 DEF piece, pipeRoom
    <2>7. noRoom(t, c)'
      BY <1>0, <2>5, <2>6 DEF noRoom
    <2> QED BY <2>3, <2>7, WriteFacts DEF WouldWait
  <1> QED BY <1>0, <1>1, <1>2, <1>3, NotAstray, WriteBlocks

LEMMA WritePieceRight ==
    ASSUME PipesIInv, NEW t \in Threads, NEW c \in Call, write(t, c), writePiece(t, c)
    PROVE  PipesIInv'
  <1> DEFINE p == fileOf(t, c.fd).pipe
             d == done(t, c)
             n == piece(t, c)
             old == pipes[p].buffer
             more == Bytes(t, c.count, d, n)
  <1>0. /\ ~writeError(t, c) /\ pipeHeld(p, FALSE) /\ ~noRoom(t, c)
        /\ pipes' = [pipes EXCEPT ![p].buffer = old \o more]
        /\ put' = [put EXCEPT ![t] = IF ~IsInjective(Before(t)) THEN put[t]
                                     ELSE Before(t) \o [i \in 1 .. n |-> d + i]]
        /\ IF d + n = c.count \/ ~mayWait(t, c)
           THEN return(t, d + n, siteAfter(t, c)) /\ queue' = woken
           ELSE waitOn(t, c, p, d + n, woken)
        /\ unheard' = FALSE /\ UNCHANGED <<live, pending, handling>>
    BY DEF writePiece, signals, Bytes
  <1>1. /\ p \in 1 .. Len(pipes) /\ p \in Numbers /\ n \in Nat /\ n <= pipeRoom(p) /\ n <= rest(t, c)
        /\ pipeRoom(p) \in Nat
        /\ n < rest(t, c) => n = pipeRoom(p)
    BY <1>0, PieceFacts
  <1>2. d \in Nat /\ rest(t, c) \in Nat /\ c.count \in Nat /\ c.count \in Counts /\ c.op = "write"
    BY WriteFacts
  <1>3. /\ pipes[p] \in Content /\ old \in Seq(Byte) /\ Len(old) \in Nat /\ Whole(old)
        /\ pipes[p].capacity \in Nat /\ Len(old) <= pipes[p].capacity
    BY <1>1, ContentFacts
  <1>4. c.count <= PipeBuf => d + n >= c.count \/ n = 0
    BY <1>0, <1>1, <1>2, PipesAssumption DEF noRoom, rest
  <1> HIDE DEF d, n
  <1> DEFINE new == old \o more
  <1>5. new \in Seq(Byte) /\ Whole(new) /\ Len(new) = Len(old) + n
    <2>1. n \in Nat /\ d \in Nat /\ c.count \in Counts /\ old \in Seq(Byte) /\ Whole(old)
      BY <1>1, <1>2, <1>3
    <2> HIDE DEF old
    <2> QED BY <2>1, <1>4, WholeAppended, Zenon
  <1>a. pipes' = [pipes EXCEPT ![p].buffer = new]
    BY <1>0
  <1> HIDE DEF more, new
  <1>6. /\ pipes' \in Seq(Content) /\ Len(pipes') = Len(pipes)
        /\ pipes'[p].buffer = new /\ pipes'[p].capacity = pipes[p].capacity
        /\ \A q \in 1 .. Len(pipes) : q # p => pipes'[q] = pipes[q]
    <2>1. pipes \in Seq(Content) /\ Len(pipes) \in Nat
      BY DEF PipesIInv, KernelOK
    <2>2. [pipes[p] EXCEPT !.buffer = new] \in Content
      BY <1>3, <1>5 DEF Content
    <2>3. /\ pipes' \in Seq(Content) /\ Len(pipes') = Len(pipes)
          /\ pipes'[p] = [pipes[p] EXCEPT !.buffer = new]
          /\ \A q \in 1 .. Len(pipes) : q # p => pipes'[q] = pipes[q]
      BY <1>a, <1>1, <2>1, <2>2
    <2> QED BY <2>3, <1>3 DEF Content
  <1>7. KernelOK'
    <2>1. Len(new) <= pipes[p].capacity
      BY <1>1, <1>3, <1>5 DEF pipeRoom
    <2>2. \A q \in 1 .. Len(pipes) : Len(pipes'[q].buffer) <= pipes'[q].capacity /\ Whole(pipes'[q].buffer)
      BY <1>5, <1>6, <2>1 DEF PipesIInv, KernelOK
    <2>3. \A q \in 1 .. Len(pipes) : Whole(pipes'[q].buffer) <=> Whole(pipes[q].buffer)'
      BY DEF Whole
    <2> QED BY <2>2, <2>3, <1>6, WriteFacts DEF PipesIInv, KernelOK
  <1>8. /\ put' \in [Threads -> Seq(Nat)] /\ \A u \in Threads \ {t} : put'[u] = put[u]
        /\ ~Strays(t, c) => put'[t] = First(d + n)
    <2>1. [i \in 1 .. n |-> d + i] \in Seq(Nat)
      BY <1>1, <1>2, FirstFacts DEF d, n
    <2>2. put[t] \in Seq(Nat) /\ Before(t) \in Seq(Nat) /\ put \in [Threads -> Seq(Nat)]
      BY WriteFacts, ThreadFacts DEF PipesIInv, CallsOK
    <2>3. Before(t) \o [i \in 1 .. n |-> d + i] \in Seq(Nat)
      BY <2>1, <2>2
    <2>4. put' \in [Threads -> Seq(Nat)] /\ \A u \in Threads \ {t} : put'[u] = put[u]
      BY <1>0, <2>2, <2>3
    <2>5. ASSUME ~Strays(t, c) PROVE put'[t] = First(d + n)
      <3>1. Before(t) = First(d)
        BY <2>5, NotAstray DEF d
      <3>2. IsInjective(First(d)) /\ First(d) \o [i \in 1 .. n |-> d + i] = First(d + n)
        BY <1>1, <1>2, FirstFacts DEF d, n
      <3>3. put'[t] = IF ~IsInjective(Before(t)) THEN put[t] ELSE Before(t) \o [i \in 1 .. n |-> d + i]
        BY <1>0, <2>2
      <3> QED BY <3>1, <3>2, <3>3
    <2> QED BY <2>4, <2>5
  <1>9. d + n \in Nat /\ unheard' \in BOOLEAN /\ siteAfter(t, c) \in Site \cup {NoSite}
    <2>1. d + n \in Nat
      BY <1>1, <1>2
    <2>2. siteAfter(t, c) \in Site \cup {NoSite}
      BY WriteFacts DEF siteAfter
    <2> QED BY <2>1, <2>2, <1>0
  <1>10. CASE return(t, d + n, siteAfter(t, c)) /\ queue' = woken
    <2>1. (IF d + n > 0 THEN d + n ELSE 0) = d + n
      BY <1>9
    <2> QED BY <2>1, <1>0, <1>7, <1>8, <1>9, <1>10, WriteReturns
  <1>11. CASE waitOn(t, c, p, d + n, woken) /\ d + n # c.count /\ mayWait(t, c)
    <2>1. ASSUME ~Strays(t, c) PROVE d + n <= c.count /\ WouldWait(t, c)'
      <3>1. d <= c.count
        BY <2>1, NotAstray DEF d
      <3>2. rest(t, c) = c.count - d
        BY <3>1, <1>2 DEF rest, d
      <3>3. d + n < c.count /\ n = pipeRoom(p)
        BY <3>1, <3>2, <1>1, <1>2, <1>11
      <3>4. UNCHANGED <<group, live, descriptors, nonblock>>
        BY <1>0, WriteFacts
      <3>5. sites'[t] = [place |-> c.place, written |-> d + n]
        BY <1>1, <1>9, <1>11, WaitFacts, WokenFacts
      <3>6. fileOf(t, c.fd)' = fileOf(t, c.fd) /\ ~writeError(t, c)' /\ mayWait(t, c)' /\ pipeHeld(p, FALSE)'
        BY <1>0, <1>11, <3>4 DEF fileOf, writeError, mayWait, pipeHeld
      <3>7. done(t, c)' = d + n
        BY <3>5, <3>6 DEF done, entered
      <3>8. rest(t, c)' = c.count - (d + n)
        BY <3>3, <3>7 DEF rest
      <3>9. pipeRoom(p)' = 0
        <4>1. pipeRoom(p)' = pipes'[p].capacity - Len(pipes'[p].buffer)
          BY <3>6 DEF pipeRoom
        <4>2. pipes'[p].capacity - Len(pipes'[p].buffer) = pipes[p].capacity - (Len(old) + n)
          BY <1>5, <1>6
        <4>3. n = pipes[p].capacity - Len(old)
          BY <3>3 DEF pipeRoom
        <4> QED BY <4>1, <4>2, <4>3, <1>3
      <3>10. piece(t, c)' = 0
        <4>1. piece(t, c)' = Min({0, c.count - (d + n)})
          BY <3>6, <3>8, <3>9 DEF piece
        <4>2. c.count - (d + n) \in Int /\ 0 <= c.count - (d + n)
          BY <1>1, <1>2, <3>3
        <4> QED BY <4>1, <4>2, MinFacts
      <3>11. noRoom(t, c)'
        BY <3>3, <3>8, <3>10, <1>2, <1>9 DEF noRoom
      <3>12. WouldWait(t, c)'
        BY <3>6, <3>11, <1>2 DEF WouldWait
      <3> QED BY <3>3, <3>12, <1>2, <1>9
    <2> QED BY <2>1, <1>0, <1>1, <1>7, <1>8, <1>9, <1>11, WriteBlocks
  <1> QED BY <1>0, <1>10, <1>11

LEMMA WriteRight ==
    ASSUME PipesIInv, NEW t \in Threads, NEW c \in Call, write(t, c)
    PROVE  PipesIInv'
  <1>1. \/ writeRefused(t, c) \/ writeBroken(t, c) \/ writeWaits(t, c) \/ writeFaults(t, c)
        \/ writePiece(t, c)
    BY DEF write
  <1> QED BY <1>1, WriteEndsRight, WriteBrokenRight, WriteWaitsRight, WritePieceRight

-----------------------------------------------------------------------------
(* The theorems. *)

LEMMA PipesInvariant == Spec => []PipesIInv
  <1>1. ASSUME PipesIInv, [Next]_vars PROVE PipesIInv'
    <2>1. CASE UNCHANGED vars
      <3>1. UNCHANGED <<group, live, descriptors, nonblock, pipes, call, queue, sites, pending,
                        handling, result, put, astray, unheard, changes>>
        BY <2>1 DEF vars
      <3>2. ProcessesOK' /\ KernelOK' /\ CallsOK'
        BY <3>1, <1>1, SameKernel, SameProcesses DEF PipesIInv, CallsOK
      <3>3. \A u \in Threads : Stays(u) /\ Excused(u)
        BY <3>1, SameSees DEF Stays, Excused
      <3>4. \A u \in Threads : ThreadRight(u)' /\ Honest(u)' /\ ~InVain(u)'
        BY <3>3, <1>1, StaysRight, StaysWaiting, ThreadFacts DEF Excused
      <3> QED BY <3>2, <3>4 DEF PipesIInv
    <2>2. CASE sendIgnored
      BY <1>1, <2>2, SendIgnoredRight
    <2>3. ASSUME NEW t \in Threads,
                 \/ \E restart \in BOOLEAN : send(t, restart) \/ kill(t, restart)
                 \/ deliver(t) \/ handlerCall(t) \/ sigreturn(t)
                 \/ \E c \in Call : read(t, c) \/ write(t, c)
          PROVE  PipesIInv'
      BY <1>1, <2>3, SendRight, DeliverRight, HandlerCallRight, SigreturnRight, ReadRight, WriteRight
    <2>4. ASSUME NEW t \in Threads,
                 \/ \E flag \in BOOLEAN : pipe(t, flag)
                 \/ \E fd \in Fds : close(t, fd) \/ dup(t, fd)
                 \/ \E fd, target \in Fds : dup2(t, fd, target) \/ dup3(t, fd, target)
                 \/ \E fd \in Fds, flag \in BOOLEAN : setFlags(t, fd, flag)
                 \/ \E fd \in Fds, size \in Sizes : setPipeSize(t, fd, size)
          PROVE  PipesIInv'
      BY <1>1, <2>4, PipeRight, CloseRight, DupRight, Dup2Right, Dup3Right, SetFlagsRight, SetPipeSizeRight
    <2>5. ASSUME NEW t \in Threads,
                 \/ \E child \in Threads, thread \in BOOLEAN : clone(t, child, thread)
                 \/ exitThread(t) \/ endProcess(t)
          PROVE  PipesIInv'
      BY <1>1, <2>5, CloneRight, ExitThreadRight, EndProcessRight
    <2> QED BY <1>1, <2>1, <2>2, <2>3, <2>4, <2>5 DEF Next
  <1> QED BY <1>1, PipesInitRight, PTL DEF Spec

\* The state keeps its type, and no pipe ever holds more than its capacity, whatever F_SETPIPE_SZ
\* makes of it (writePipe, Kernel.setPipeSize).
THEOREM PipesTypeCorrect == Spec => []TypeOK
  BY PipesInvariant, ImpliesTypeOK, PTL

\* A write of at most PIPE_BUF bytes is whole in its pipe, for any number of writers, capacities
\* and counts, and however the reads cut what is before it (writePipe).
THEOREM SmallWritesAlwaysWhole == Spec => []SmallWritesWhole
  BY PipesInvariant, ImpliesSmallWritesWhole, PTL

\* A write tells exactly what it put, but where its site is astray (writePipe, interrupted).
THEOREM WritesAlwaysHonest == Spec => []HonestWrites
  BY PipesInvariant, ImpliesHonestWrites, PTL

\* Nobody waits on a pipe whose call could go on, unless something wakes nobody (waitForPipe,
\* writePipe, wakePipeReaders).
THEOREM NoneEverWaitsInVain == Spec => []NoneWaitsInVain
  BY PipesInvariant, ImpliesNoneWaitsInVain, PTL
=============================================================================

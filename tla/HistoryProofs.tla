--------------------------- MODULE HistoryProofs ---------------------------
(***************************************************************************)
(* Proofs about History: what is said there of the states that a machine   *)
(* keeps, and of stepBack, holds for any threads, quanta, fuel, distances  *)
(* and limits, and any number of runs, saves and steps back.               *)
(***************************************************************************)
EXTENDS History, TLAPS, WellFoundedInduction

-----------------------------------------------------------------------------
(* What is kept, as a sequence. *)

Saved == [at : Nat, quantum : Nat \ {0}, kept : Machines]

InOrder(s) == \A i, j \in 1 .. Len(s) : i < j => s[i].at < s[j].at

\* What is kept next is at most so far on.
Gaps(s, every) == \A i \in 1 .. Len(s) - 1 : s[i + 1].at <= s[i].at + every

\* What is kept has only these models.
Known(s, models) == \A i \in 1 .. Len(s) : s[i].kept.models \subseteq models

\* What the next instruction makes of the machine, if it faults and if not.
Ahead(m, q) == IF Len(m.did) \in Faults THEN [ranNext(m, q) EXCEPT !.turnUsed = 0] ELSE ranNext(m, q)

\* Up to the n-th place what is kept is what was there, and what was there in between follows
\* from it by the quantum that is kept.
Recorded(s, p, n) ==
    /\ \A i \in 1 .. Len(s) : s[i].at < n => s[i].kept = p[s[i].at + 1]
    /\ \A i \in 1 .. Len(s), k \in Nat :
          s[i].at <= k /\ k + 1 < n /\ (i < Len(s) => k + 1 < s[i + 1].at) =>
              p[k + 2] = Ahead(p[k + 1], s[i].quantum)

LEMMA SavedFacts ==
    ASSUME NEW s \in Seq(Saved), NEW i \in 1 .. Len(s)
    PROVE  /\ s[i] \in Saved /\ s[i].at \in Nat /\ s[i].quantum \in Nat \ {0} /\ s[i].kept \in Machines
  <1>1. s[i] \in Saved
    OBVIOUS
  <1> QED BY <1>1 DEF Saved

\* What is kept is in its places.
Placed(s, every) == s \in Seq(Saved) /\ InOrder(s) /\ Gaps(s, every)

\* What is kept is what was, up to the n-th place.
Tracks(s, models, p, n) == Known(s, models) /\ Recorded(s, p, n)

\* w is s without its first d, without all after its j-th, and with e after it.
Suffix(w, s, d) ==
    /\ d \in 0 .. Len(s) /\ w \in Seq(Saved) /\ Len(w) = Len(s) - d
    /\ \A i \in 1 .. Len(w) : w[i] = s[d + i]
Prefix(w, s, j) ==
    /\ j \in 0 .. Len(s) /\ w \in Seq(Saved) /\ Len(w) = j
    /\ \A i \in 1 .. j : w[i] = s[i]
Added(w, s, e) ==
    /\ w \in Seq(Saved) /\ Len(w) = Len(s) + 1 /\ w[Len(w)] = e
    /\ \A i \in 1 .. Len(s) : w[i] = s[i]

LEMMA SuffixFacts ==
    ASSUME NEW s \in Seq(Saved), NEW d \in 0 .. Len(s)
    PROVE  Suffix(SubSeq(s, d + 1, Len(s)), s, d)
  BY DEF Suffix

LEMMA PrefixFacts ==
    ASSUME NEW s \in Seq(Saved), NEW j \in 0 .. Len(s)
    PROVE  Prefix(SubSeq(s, 1, j), s, j)
  BY DEF Prefix

LEMMA AddedFacts ==
    ASSUME NEW s \in Seq(Saved), NEW e \in Saved
    PROVE  Added(Append(s, e), s, e)
  BY DEF Added

\* The oldest may go.
LEMMA SuffixRight ==
    ASSUME NEW s, NEW d, NEW w, NEW every \in Nat, Suffix(w, s, d), Placed(s, every)
    PROVE  Placed(w, every)
  <1>1. /\ d \in 0 .. Len(s) /\ s \in Seq(Saved) /\ Len(s) \in Nat
        /\ w \in Seq(Saved) /\ Len(w) = Len(s) - d /\ \A i \in 1 .. Len(w) : w[i] = s[d + i]
    BY DEF Suffix, Placed
  <1>2. \A i \in 1 .. Len(w) : d + i \in 1 .. Len(s)
    BY <1>1
  <1>3. InOrder(w)
    <2> SUFFICES ASSUME NEW i \in 1 .. Len(w), NEW j \in 1 .. Len(w), i < j PROVE w[i].at < w[j].at
      BY DEF InOrder
    <2>1. d + i \in 1 .. Len(s) /\ d + j \in 1 .. Len(s) /\ d + i < d + j
      BY <1>1, <1>2
    <2>2. s[d + i].at < s[d + j].at
      BY <2>1 DEF Placed, InOrder
    <2> QED BY <2>2, <1>1
  <1>4. ASSUME NEW i \in 1 .. Len(w) - 1 PROVE w[i + 1].at <= w[i].at + every
    <2>1. i \in 1 .. Len(w) /\ i + 1 \in 1 .. Len(w) /\ d + i \in 1 .. Len(s) - 1 /\ d + (i + 1) = (d + i) + 1
      BY <1>1
    <2>2. s[(d + i) + 1].at <= s[d + i].at + every
      BY <2>1 DEF Placed, Gaps
    <2>3. w[i] = s[d + i] /\ w[i + 1] = s[(d + i) + 1]
      BY <2>1, <1>1
    <2> QED BY <2>2, <2>3
  <1> QED BY <1>1, <1>3, <1>4 DEF Placed, Gaps

LEMMA SuffixRecorded ==
    ASSUME NEW s \in Seq(Saved), NEW d, NEW w, NEW models, NEW p, NEW n,
           Suffix(w, s, d), Tracks(s, models, p, n)
    PROVE  Tracks(w, models, p, n)
  <1>1. /\ d \in 0 .. Len(s) /\ Len(s) \in Nat
        /\ w \in Seq(Saved) /\ Len(w) = Len(s) - d /\ \A i \in 1 .. Len(w) : w[i] = s[d + i]
    BY DEF Suffix
  <1>2. \A i \in 1 .. Len(w) : d + i \in 1 .. Len(s) /\ (i < Len(w) <=> d + i < Len(s))
    BY <1>1
  <1>3. Known(w, models)
    BY <1>1, <1>2 DEF Tracks, Known
  <1>4. ASSUME NEW i \in 1 .. Len(w), w[i].at < n PROVE w[i].kept = p[w[i].at + 1]
    BY <1>1, <1>2, <1>4 DEF Tracks, Recorded
  <1>5. ASSUME NEW i \in 1 .. Len(w), NEW k \in Nat,
               w[i].at <= k, k + 1 < n, i < Len(w) => k + 1 < w[i + 1].at
        PROVE  p[k + 2] = Ahead(p[k + 1], w[i].quantum)
    <2>1. d + i \in 1 .. Len(s) /\ w[i] = s[d + i]
      BY <1>1, <1>2
    <2>2. d + i < Len(s) => k + 1 < s[(d + i) + 1].at
      <3>1. ASSUME d + i < Len(s) PROVE w[i + 1] = s[(d + i) + 1] /\ i < Len(w)
        <4>1. i + 1 \in 1 .. Len(w) /\ d + (i + 1) = (d + i) + 1 /\ i < Len(w)
          BY <3>1, <1>1
        <4> QED BY <4>1, <1>1
      <3> QED BY <3>1, <1>5
    <2> QED BY <2>1, <2>2, <1>5 DEF Tracks, Recorded
  <1> QED BY <1>3, <1>4, <1>5 DEF Tracks, Recorded

\* The latest may go, up to a place that is before the first of them.
LEMMA PrefixRight ==
    ASSUME NEW s, NEW j, NEW w, NEW every \in Nat, Prefix(w, s, j), Placed(s, every)
    PROVE  Placed(w, every)
  <1>1. /\ j \in 0 .. Len(s) /\ s \in Seq(Saved) /\ Len(s) \in Nat
        /\ w \in Seq(Saved) /\ Len(w) = j /\ \A i \in 1 .. j : w[i] = s[i]
    BY DEF Prefix, Placed
  <1>2. InOrder(w)
    BY <1>1 DEF Placed, InOrder
  <1>3. Gaps(w, every)
    <2> SUFFICES ASSUME NEW i \in 1 .. Len(w) - 1 PROVE w[i + 1].at <= w[i].at + every
      BY DEF Gaps
    <2>1. i \in 1 .. Len(s) - 1 /\ i \in 1 .. j /\ i + 1 \in 1 .. j
      BY <1>1
    <2>2. s[i + 1].at <= s[i].at + every
      BY <2>1 DEF Placed, Gaps
    <2> QED BY <2>1, <2>2, <1>1
  <1> QED BY <1>1, <1>2, <1>3 DEF Placed

LEMMA PrefixRecorded ==
    ASSUME NEW s \in Seq(Saved), NEW j, NEW w, NEW models, NEW p, NEW n \in Nat,
           Prefix(w, s, j), Tracks(s, models, p, n), j < Len(s) => n <= s[j + 1].at
    PROVE  Tracks(w, models, p, n)
  <1>1. /\ j \in 0 .. Len(s) /\ Len(s) \in Nat
        /\ w \in Seq(Saved) /\ Len(w) = j /\ \A i \in 1 .. j : w[i] = s[i]
    BY DEF Prefix
  <1>2. Known(w, models)
    BY <1>1 DEF Tracks, Known
  <1>3. ASSUME NEW i \in 1 .. Len(w), w[i].at < n PROVE w[i].kept = p[w[i].at + 1]
    BY <1>1, <1>3 DEF Tracks, Recorded
  <1>4. ASSUME NEW i \in 1 .. Len(w), NEW k \in Nat,
               w[i].at <= k, k + 1 < n, i < Len(w) => k + 1 < w[i + 1].at
        PROVE  p[k + 2] = Ahead(p[k + 1], w[i].quantum)
    <2>1. i \in 1 .. Len(s) /\ w[i] = s[i]
      BY <1>1
    <2>2. i < Len(s) => k + 1 < s[i + 1].at
      <3>1. CASE i < j
        <4>1. w[i + 1] = s[i + 1]
          BY <3>1, <1>1
        <4> QED BY <4>1, <3>1, <1>1, <1>4
      <3>2. CASE i = j /\ j < Len(s)
        <4>1. s[j + 1].at \in Nat
          BY <3>2, SavedFacts
        <4> QED BY <4>1, <3>2, <1>4
      <3> QED BY <3>1, <3>2, <1>1
    <2> QED BY <2>1, <2>2, <1>4 DEF Tracks, Recorded
  <1> QED BY <1>2, <1>3, <1>4 DEF Tracks, Recorded

\* What the machine is may be kept, at a place after all others.
LEMMA AppendRight ==
    ASSUME NEW s, NEW e \in Saved, NEW every \in Nat, NEW w, Added(w, s, e), Placed(s, every),
           \A i \in 1 .. Len(s) : s[i].at < e.at, Len(s) > 0 => e.at <= s[Len(s)].at + every
    PROVE  Placed(w, every)
  <1>1. /\ w \in Seq(Saved) /\ Len(w) = Len(s) + 1 /\ w[Len(w)] = e /\ \A i \in 1 .. Len(s) : w[i] = s[i]
        /\ s \in Seq(Saved) /\ Len(s) \in Nat
    BY DEF Added, Placed
  <1>2. InOrder(w)
    BY <1>1 DEF Placed, InOrder
  <1>3. ASSUME NEW i \in 1 .. Len(w) - 1 PROVE w[i + 1].at <= w[i].at + every
    <2>1. CASE i = Len(s)
      BY <2>1, <1>1
    <2>2. CASE i # Len(s)
      <3>1. i \in 1 .. Len(s) - 1 /\ w[i] = s[i] /\ w[i + 1] = s[i + 1]
        BY <2>2, <1>1
      <3> QED BY <3>1 DEF Placed, Gaps
    <2> QED BY <2>1, <2>2
  <1> QED BY <1>1, <1>2, <1>3 DEF Placed, Gaps

LEMMA AppendRecorded ==
    ASSUME NEW s \in Seq(Saved), NEW e \in Saved, NEW w, NEW models, NEW p,
           Added(w, s, e), \A i \in 1 .. Len(s) : s[i].at < e.at,
           Tracks(s, models, p, e.at), e.kept.models \subseteq models, e.kept = p[e.at + 1]
    PROVE  Tracks(w, models, p, e.at + 1)
  <1>1. /\ w \in Seq(Saved) /\ Len(w) = Len(s) + 1 /\ w[Len(w)] = e /\ \A i \in 1 .. Len(s) : w[i] = s[i]
        /\ Len(s) \in Nat
    BY DEF Added
  <1>2. e.at \in Nat /\ \A i \in 1 .. Len(s) : s[i].at \in Nat
    BY SavedFacts DEF Saved
  <1>3. ASSUME NEW i \in 1 .. Len(w) PROVE w[i].kept.models \subseteq models /\ w[i].kept = p[w[i].at + 1]
    <2>1. CASE i = Len(w)
      BY <2>1, <1>1
    <2>2. CASE i # Len(w)
      <3>1. i \in 1 .. Len(s) /\ w[i] = s[i]
        BY <2>2, <1>1
      <3> QED BY <3>1 DEF Tracks, Known, Recorded
    <2> QED BY <2>1, <2>2
  <1>4. ASSUME NEW i \in 1 .. Len(w), NEW k \in Nat,
               w[i].at <= k, k + 1 < e.at + 1, i < Len(w) => k + 1 < w[i + 1].at
        PROVE  p[k + 2] = Ahead(p[k + 1], w[i].quantum)
    <2>1. i \in 1 .. Len(s) /\ w[i] = s[i]
      BY <1>1, <1>2, <1>4
    <2>2. CASE i = Len(s)
      <3>1. k + 1 < e.at
        BY <2>2, <1>1, <1>4
      <3> QED BY <3>1, <2>1, <2>2, <1>4 DEF Tracks, Recorded
    <2>3. CASE i < Len(s)
      <3>1. i + 1 \in 1 .. Len(s) /\ w[i + 1] = s[i + 1] /\ s[i + 1].at \in Nat /\ s[i + 1].at < e.at
        BY <2>1, <2>3, <1>1, <1>2
      <3>2. k + 1 < s[i + 1].at /\ k + 1 < e.at
        BY <3>1, <2>3, <1>1, <1>2, <1>4
      <3> QED BY <3>2, <2>1, <1>4 DEF Tracks, Recorded
    <2> QED BY <2>1, <2>2, <2>3
  <1> QED BY <1>3, <1>4 DEF Tracks, Known, Recorded

\* stepBack finds the last that is not after a place.
LEMMA IndexFacts ==
    ASSUME NEW h, NEW place \in Nat, h.saved \in Seq(Saved), Len(h.saved) > 0, h.saved[1].at <= place
    PROVE  /\ indexOf(h, place) \in 1 .. Len(h.saved) /\ h.saved[indexOf(h, place)].at <= place
           /\ indexOf(h, place) < Len(h.saved) => place < h.saved[indexOf(h, place) + 1].at
  <1> DEFINE s == h.saved
             S == {i \in 1 .. Len(s) : s[i].at <= place}
             T == {Len(s) - i : i \in S}
  <1>1. Len(s) \in Nat /\ 1 \in S /\ T \subseteq Nat /\ T # {}
    <2>1. Len(s) \in Nat /\ 1 \in S
      OBVIOUS
    <2>2. Len(s) - 1 \in T
      BY <2>1
    <2>3. T \subseteq Nat
      BY <2>1
    <2> QED BY <2>1, <2>2, <2>3
  <1>2. PICK x \in T : \A y \in T : ~(<<y, x>> \in OpToRel(<, Nat))
    BY <1>1, WFMin, NatLessThanWellFounded
  <1>3. PICK m \in S : x = Len(s) - m
    OBVIOUS
  <1>4. ASSUME NEW i \in S PROVE i <= m
    <2>1. Len(s) - i \in T /\ Len(s) - i \in Nat /\ x \in Nat
      BY <1>1
    <2>2. ~(Len(s) - i < x)
      BY <2>1, <1>2 DEF OpToRel
    <2> QED BY <2>1, <2>2, <1>1, <1>3
  <1>5. indexOf(h, place) \in S /\ \A i \in S : indexOf(h, place) >= i
    <2>1. \E y \in S : \A i \in S : y >= i
      BY <1>3, <1>4, <1>1
    <2> QED BY <2>1 DEF indexOf, Max
  <1>6. ASSUME indexOf(h, place) < Len(s) PROVE place < s[indexOf(h, place) + 1].at
    <2>1. indexOf(h, place) + 1 \in 1 .. Len(s) /\ indexOf(h, place) + 1 \notin S
      <3> DEFINE x1 == indexOf(h, place)
      <3>1. x1 \in 1 .. Len(s) /\ (\A i \in S : x1 >= i) /\ x1 < Len(s)
        BY <1>5, <1>6
      <3> HIDE DEF x1, S
      <3>2. x1 + 1 \in 1 .. Len(s) /\ x1 + 1 \notin S
        BY <3>1, <1>1
      <3> QED BY <3>2 DEF x1
    <2>2. s[indexOf(h, place) + 1].at \in Nat
      BY <2>1, SavedFacts
    <2> QED BY <2>1, <2>2
  <1> QED BY <1>5, <1>6

-----------------------------------------------------------------------------
(* The inductive invariant. *)

\* A history is kept as keepHistory was asked to.
HistoryRight(h) ==
    /\ h \in Histories /\ Len(h.saved) <= h.limit
    /\ Placed(h.saved, h.every)
    /\ \A i \in 1 .. Len(h.saved) : h.saved[i].at <= h.position
    /\ Len(h.saved) > 0 => h.position <= h.saved[Len(h.saved)].at + h.every

SlotRight ==
    slot # NoHistory =>
        /\ slot.kept \in Machines /\ slot.past \in Seq(Machines) /\ slot.past # <<>>
        /\ slot.history # NoHistory => HistoryRight(slot.history)

CountsRight ==
    /\ quantum \in Nat \ {0} /\ left \in Nat /\ since \in Nat /\ piece \in Nat /\ fuel \in Nat
    /\ steps \in Nat /\ apart \in Nat /\ target \in Nat
    /\ steps <= fuel /\ fuel <= piece /\ piece <= left
    /\ mode # "idle" => since < everyOf(history, quantum) /\ since + piece <= everyOf(history, quantum)

\* A run has kept something, so long ago as it counts.
RunRight ==
    mode = "run" /\ Keeps =>
        /\ Len(history.saved) > 0 /\ apart = since
        /\ history.position = history.saved[Len(history.saved)].at + apart

\* What runs again does so from what is kept.
AgainRight ==
    mode = "again" =>
        /\ Keeps /\ Len(history.saved) > 0 /\ history.saved[1].at <= target /\ target <= history.position
        /\ left <= history.every

HistoryIInv ==
    /\ machine \in Machines /\ past \in Seq(Machines) /\ past # <<>>
    /\ mode \in {"idle", "run", "again"}
    /\ Keeps => HistoryRight(history)
    /\ SlotRight /\ CountsRight /\ RunRight /\ AgainRight

LEMMA ImpliesTypeOK == HistoryIInv => TypeOK
  <1> SUFFICES ASSUME HistoryIInv PROVE TypeOK
    OBVIOUS
  <1>1. \A count \in {left, since, piece, fuel, steps, apart, target} : count \in Nat
    BY DEF HistoryIInv, CountsRight
  <1>2. slot # NoHistory => slot.kept \in Machines
    BY DEF HistoryIInv, SlotRight
  <1>3. Keeps => history \in Histories /\ Len(history.saved) <= history.limit
    BY DEF HistoryIInv, HistoryRight
  <1> QED BY <1>1, <1>2, <1>3 DEF HistoryIInv, CountsRight, TypeOK

LEMMA ImpliesKeptInOrder == HistoryIInv => KeptInOrder
  BY DEF HistoryIInv, HistoryRight, Placed, InOrder, KeptInOrder

LEMMA ImpliesRunsAgainLittle == HistoryIInv => RunsAgainLittle
  BY DEF HistoryIInv, AgainRight, RunsAgainLittle

LEMMA HistoryFacts ==
    ASSUME NEW h, h \in Histories
    PROVE  /\ h.every \in Nat \ {0} /\ h.limit \in Nat \ {0} /\ h.position \in Nat /\ h.saved \in Seq(Saved)
           /\ Len(h.saved) \in Nat /\ h # NoHistory
           /\ \A i \in 1 .. Len(h.saved) : h.saved[i].at \in Nat
  <1>1. /\ h.every \in Nat \ {0} /\ h.limit \in Nat \ {0} /\ h.position \in Nat /\ h.saved \in Seq(Saved)
        /\ h # NoHistory
    BY NoHistoryAssumption DEF Histories, Saved
  <1> QED BY <1>1, SavedFacts

\* What is kept ends with e, and is as long as the limit allows.
EndsWith(g, h, e) ==
    /\ g \in Histories /\ g.every = h.every /\ g.limit = h.limit /\ g.position = h.position
    /\ Len(g.saved) <= h.limit
    /\ \E s, d : Added(s, h.saved, e) /\ Suffix(g.saved, s, d) /\ d < Len(s)

\* push keeps what the machine is as the last, and the latest of the others.
LEMMA PushShape ==
    ASSUME NEW h \in Histories, NEW m \in Machines, NEW q \in Nat \ {0}, Len(h.saved) <= h.limit
    PROVE  EndsWith(push(h, m, q), h, [at |-> h.position, quantum |-> q, kept |-> m])
  <1> DEFINE e == [at |-> h.position, quantum |-> q, kept |-> m]
             s == Append(h.saved, e)
             d == IF Len(s) > h.limit THEN Len(s) - h.limit ELSE 0
             w == SubSeq(s, d + 1, Len(s))
             g == [h EXCEPT !.saved = w]
  <1>1. h.limit \in Nat \ {0} /\ h.saved \in Seq(Saved) /\ Len(h.saved) \in Nat /\ h.position \in Nat
    BY HistoryFacts
  <1>2. e \in Saved
    BY <1>1 DEF Saved
  <1>3. push(h, m, q) = [h EXCEPT !.saved = IF Len(s) > h.limit THEN SubSeq(s, Len(s) - h.limit + 1, Len(s)) ELSE s]
    BY Zenon DEF push, keep
  <1> HIDE DEF e
  <1>4. Added(s, h.saved, e) /\ s \in Seq(Saved) /\ Len(s) = Len(h.saved) + 1
    BY <1>1, <1>2, AddedFacts DEF Added
  <1> HIDE DEF s
  <1>5. /\ d \in 0 .. Len(s) /\ Len(s) - d <= h.limit /\ d < Len(s)
        /\ Len(s) > h.limit => d = Len(s) - h.limit
        /\ ~(Len(s) > h.limit) => d = 0
    BY <1>1, <1>4
  <1> HIDE DEF d
  <1>6. Suffix(w, s, d)
    BY <1>4, <1>5, SuffixFacts
  <1>7. push(h, m, q) = g
    <2>1. CASE Len(s) > h.limit
      BY <2>1, <1>3, <1>5
    <2>2. CASE ~(Len(s) > h.limit)
      <3>1. w = s
        BY <1>4, <1>5, <2>2
      <3> QED BY <3>1, <2>2, <1>3
    <2> QED BY <2>1, <2>2
  <1> HIDE DEF w
  <1>8. w \in Seq(Saved) /\ Len(w) <= h.limit
    BY <1>5, <1>6 DEF Suffix
  <1>9. /\ g \in Histories /\ g.every = h.every /\ g.limit = h.limit /\ g.position = h.position /\ g.saved = w
    BY <1>8 DEF Histories, Saved
  <1> HIDE DEF g
  <1>10. EndsWith(g, h, e)
    BY <1>4, <1>5, <1>6, <1>8, <1>9 DEF EndsWith
  <1> QED BY <1>7, <1>10 DEF e

\* A history to which what the machine is may be added.
Open(h) ==
    /\ h \in Histories /\ Len(h.saved) <= h.limit /\ Placed(h.saved, h.every)
    /\ \A i \in 1 .. Len(h.saved) : h.saved[i].at < h.position
    /\ Len(h.saved) > 0 => h.position <= h.saved[Len(h.saved)].at + h.every

LEMMA EndsRight ==
    ASSUME NEW h, NEW e \in Saved, NEW g, Open(h), e.at = h.position, EndsWith(g, h, e)
    PROVE  HistoryRight(g) /\ Len(g.saved) > 0 /\ g.saved[Len(g.saved)] = e
  <1>1. /\ h.every \in Nat \ {0} /\ h.limit \in Nat \ {0} /\ h.position \in Nat /\ h.saved \in Seq(Saved)
        /\ Len(h.saved) \in Nat /\ h \in Histories
    BY HistoryFacts DEF Open
  <1>2. /\ g \in Histories /\ g.every = h.every /\ g.limit = h.limit /\ g.position = h.position
        /\ Len(g.saved) <= h.limit
    BY DEF EndsWith
  <1>3. PICK s, d : Added(s, h.saved, e) /\ Suffix(g.saved, s, d) /\ d < Len(s)
    BY Zenon DEF EndsWith
  <1>w. PICK w : w = g.saved
    OBVIOUS
  <1>4. Placed(s, h.every)
    BY <1>1, <1>3, AppendRight DEF Open
  <1>5. Placed(w, h.every) /\ w \in Seq(Saved)
    BY <1>1, <1>3, <1>4, <1>w, SuffixRight DEF Placed
  <1>6. Len(w) \in Nat /\ Len(w) > 0 /\ w[Len(w)] = e
    <2>1. /\ d \in 0 .. Len(s) /\ Len(w) = Len(s) - d /\ \A i \in 1 .. Len(w) : w[i] = s[d + i]
          /\ d < Len(s) /\ s[Len(s)] = e /\ Len(s) = Len(h.saved) + 1
      BY <1>3, <1>w DEF Suffix, Added
    <2>2. Len(w) \in 1 .. Len(w) /\ d + Len(w) = Len(s)
      BY <1>1, <2>1
    <2> QED BY <2>1, <2>2
  <1>7. ASSUME NEW i \in 1 .. Len(w) PROVE w[i].at <= h.position
    <2>1. w[i].at \in Nat
      BY <1>5, SavedFacts
    <2>2. CASE i = Len(w)
      BY <2>2, <1>1, <1>6
    <2>3. CASE i # Len(w)
      <3>1. i < Len(w) /\ Len(w) \in 1 .. Len(w)
        BY <2>3, <1>6
      <3>2. w[i].at < w[Len(w)].at
        BY <3>1, <1>5 DEF Placed, InOrder
      <3> QED BY <3>2, <2>1, <1>1, <1>6
    <2> QED BY <2>2, <2>3
  <1>8. h.position <= w[Len(w)].at + h.every
    BY <1>1, <1>6
  <1> QED BY <1>2, <1>5, <1>6, <1>7, <1>8, <1>w DEF HistoryRight

LEMMA EndsRecorded ==
    ASSUME NEW h, NEW e \in Saved, NEW g, NEW models, NEW p, Open(h), e.at = h.position, EndsWith(g, h, e),
           Tracks(h.saved, models, p, h.position), e.kept.models \subseteq models, e.kept = p[h.position + 1]
    PROVE  Tracks(g.saved, models, p, h.position + 1)
  <1>1. h.saved \in Seq(Saved)
    BY HistoryFacts DEF Open
  <1>2. PICK s, d : Added(s, h.saved, e) /\ Suffix(g.saved, s, d)
    BY Zenon DEF EndsWith
  <1>3. Tracks(s, models, p, h.position + 1)
    BY <1>1, <1>2, AppendRecorded DEF Open
  <1>4. s \in Seq(Saved)
    BY <1>2 DEF Added
  <1> QED BY <1>2, <1>3, <1>4, SuffixRecorded

\* Without what is kept at this very place, the machine may be kept again.
LEMMA RefreshedOpen ==
    ASSUME NEW h, HistoryRight(h)
    PROVE  /\ Open(refreshed(h))
           /\ refreshed(h).every = h.every /\ refreshed(h).limit = h.limit /\ refreshed(h).position = h.position
           /\ \E j : Prefix(refreshed(h).saved, h.saved, j) /\ (j < Len(h.saved) => h.position <= h.saved[j + 1].at)
  <1>1. /\ h.every \in Nat \ {0} /\ h.limit \in Nat \ {0} /\ h.position \in Nat /\ h.saved \in Seq(Saved)
        /\ Len(h.saved) \in Nat /\ h \in Histories
        /\ \A i \in 1 .. Len(h.saved) : h.saved[i].at \in Nat
    BY HistoryFacts DEF HistoryRight
  <1> DEFINE s == h.saved
             n == Len(s)
  <1>2. CASE s # <<>> /\ s[n].at = h.position
    <2> DEFINE w == SubSeq(s, 1, n - 1)
               g == [h EXCEPT !.saved = w]
    <2>1. refreshed(h) = g
      BY <1>2 DEF refreshed, Last, Front
    <2>2. n > 0 /\ n - 1 \in 0 .. n
      BY <1>1, <1>2
    <2>3. Prefix(w, s, n - 1)
      BY <2>2, <1>1, PrefixFacts
    <2> HIDE DEF w
    <2>4. Placed(w, h.every)
      BY <2>3, <1>1, PrefixRight DEF HistoryRight
    <2>5. w \in Seq(Saved) /\ Len(w) = n - 1 /\ \A i \in 1 .. Len(w) : w[i] = s[i]
      BY <2>3 DEF Prefix
    <2>6. g \in Histories /\ g.every = h.every /\ g.limit = h.limit /\ g.position = h.position /\ g.saved = w
      BY <2>5, <1>1 DEF Histories, Saved
    <2> HIDE DEF g
    <2>7. ASSUME NEW i \in 1 .. Len(w) PROVE w[i].at < h.position
      <3>1. i \in 1 .. n /\ n \in 1 .. n /\ i < n
        BY <2>2, <2>5, <1>1
      <3>2. s[i].at < s[n].at
        BY <3>1 DEF HistoryRight, Placed, InOrder
      <3> QED BY <3>2, <2>5, <1>2
    <2>8. ASSUME Len(w) > 0 PROVE h.position <= w[Len(w)].at + h.every
      <3>1. n - 1 \in 1 .. n - 1 /\ (n - 1) + 1 = n /\ Len(w) \in 1 .. Len(w)
        BY <2>2, <2>5, <2>8, <1>1
      <3>2. s[n].at <= s[n - 1].at + h.every
        <4>1. s[(n - 1) + 1].at <= s[n - 1].at + h.every
          BY <3>1 DEF HistoryRight, Placed, Gaps
        <4> QED BY <4>1, <3>1
      <3> QED BY <3>1, <3>2, <2>5, <1>2
    <2>9. Open(g)
      <3>1. Len(w) <= h.limit
        BY <2>5, <1>1 DEF HistoryRight
      <3> QED BY <3>1, <2>4, <2>6, <2>7, <2>8 DEF Open
    <2>10. Prefix(g.saved, s, n - 1) /\ (n - 1 < n => h.position <= s[(n - 1) + 1].at)
      <3>1. (n - 1) + 1 = n
        BY <1>1
      <3> QED BY <3>1, <1>1, <1>2, <2>3, <2>6
    <2> QED BY <2>1, <2>6, <2>9, <2>10
  <1>3. CASE ~(s # <<>> /\ s[n].at = h.position)
    <2>1. refreshed(h) = h
      BY <1>3 DEF refreshed, Last
    <2>2. ASSUME NEW i \in 1 .. n PROVE s[i].at < h.position
      <3>1. n \in 1 .. n /\ s # <<>>
        BY <1>1
      <3>2. s[n].at < h.position
        BY <3>1, <1>1, <1>3 DEF HistoryRight
      <3>3. i # n => s[i].at < s[n].at
        BY <3>1 DEF HistoryRight, Placed, InOrder
      <3> QED BY <3>1, <3>2, <3>3, <1>1
    <2>3. Open(h)
      BY <2>2 DEF Open, HistoryRight
    <2>4. Prefix(s, s, n) /\ (n < n => h.position <= s[n + 1].at)
      BY <1>1 DEF Prefix
    <2> QED BY <2>1, <2>3, <2>4
  <1> QED BY <1>2, <1>3

\* The history after a step back is kept as before.
LEMMA BackRight ==
    ASSUME NEW h, NEW place \in Nat, HistoryRight(h), Len(h.saved) > 0, h.saved[1].at <= place, place <= h.position
    PROVE  /\ HistoryRight(Back(h, place)) /\ Back(h, place).position = place
           /\ Back(h, place).saved = SubSeq(h.saved, 1, indexOf(h, place)) /\ Back(h, place).every = h.every
           /\ place - h.saved[indexOf(h, place)].at <= h.every
  <1>1. /\ h.every \in Nat \ {0} /\ h.limit \in Nat \ {0} /\ h.position \in Nat /\ h.saved \in Seq(Saved)
        /\ Len(h.saved) \in Nat /\ h \in Histories
        /\ \A i \in 1 .. Len(h.saved) : h.saved[i].at \in Nat
    BY HistoryFacts DEF HistoryRight
  <1> DEFINE s == h.saved
             x == indexOf(h, place)
             w == SubSeq(s, 1, x)
             g == [h EXCEPT !.position = place, !.saved = w]
  <1>2. /\ x \in 1 .. Len(s) /\ s[x].at <= place
        /\ x < Len(s) => place < s[x + 1].at
    BY <1>1, IndexFacts
  <1>3. Back(h, place) = g
    BY DEF Back
  <1> HIDE DEF x
  <1>4. Prefix(w, s, x)
    BY <1>1, <1>2, PrefixFacts
  <1>5. Placed(w, h.every)
    <2> HIDE DEF w
    <2> QED BY <1>4, <1>1, PrefixRight DEF HistoryRight
  <1>6. w \in Seq(Saved) /\ Len(w) = x /\ \A i \in 1 .. Len(w) : w[i] = s[i]
    BY <1>4 DEF Prefix
  <1>7. /\ g \in Histories /\ g.every = h.every /\ g.limit = h.limit /\ g.position = place /\ g.saved = w
    <2> HIDE DEF w
    <2> QED BY <1>1, <1>6 DEF Histories, Saved
  <1>8. ASSUME NEW i \in 1 .. Len(w) PROVE w[i].at <= place
    <2>1. i \in 1 .. Len(s) /\ w[i] = s[i] /\ i <= x
      BY <1>1, <1>2, <1>6
    <2>2. i # x => s[i].at < s[x].at
      BY <2>1, <1>2 DEF HistoryRight, Placed, InOrder
    <2> QED BY <2>1, <2>2, <1>1, <1>2
  <1>9. place <= s[x].at + h.every
    <2>1. CASE x = Len(s)
      BY <2>1, <1>1 DEF HistoryRight
    <2>2. CASE x # Len(s)
      <3>1. x < Len(s) /\ x \in 1 .. Len(s) - 1 /\ x + 1 \in 1 .. Len(s)
        BY <2>2, <1>1, <1>2
      <3>2. s[x + 1].at <= s[x].at + h.every
        BY <3>1 DEF HistoryRight, Placed, Gaps
      <3> QED BY <3>1, <3>2, <1>1, <1>2
    <2> QED BY <2>1, <2>2
  <1>10. HistoryRight(g)
    <2>1. Len(w) <= h.limit /\ Len(w) > 0 /\ place <= w[Len(w)].at + h.every
      BY <1>1, <1>2, <1>6, <1>9 DEF HistoryRight
    <2> HIDE DEF w, g
    <2> QED BY <2>1, <1>5, <1>7, <1>8 DEF HistoryRight
  <1>11. place - s[x].at <= h.every
    BY <1>1, <1>2, <1>9
  <1> HIDE DEF g, w
  <1> QED BY <1>3, <1>7, <1>10, <1>11 DEF x, w

\* The history after a piece is kept as before, and the machine in it where it has run far enough.
Far(h, ran, whole) == whole /\ apart + ran >= h.every

\* g is h after ran instructions, with e in it if they are far.
AdvancedTo(g, h, e, ran, far) ==
    /\ HistoryRight(g) /\ g.every = h.every /\ g.position = h.position + ran /\ Len(g.saved) > 0
    /\ far => /\ g.saved[Len(g.saved)] = e
              /\ \E moved : /\ Open(moved) /\ moved.saved = h.saved /\ moved.position = h.position + ran
                            /\ EndsWith(g, moved, e)
    /\ ~far => g.saved = h.saved

LEMMA AdvancedRight ==
    ASSUME NEW h, NEW m \in Machines, NEW q \in Nat \ {0}, NEW ran \in Nat, NEW whole \in BOOLEAN,
           HistoryRight(h), Len(h.saved) > 0, apart \in Nat,
           h.position = h.saved[Len(h.saved)].at + apart, apart + ran <= h.every
    PROVE  AdvancedTo(advanced(h, m, q, ran, whole), h, [at |-> h.position + ran, quantum |-> q, kept |-> m],
                      ran, Far(h, ran, whole))
  <1>1. /\ h.every \in Nat \ {0} /\ h.limit \in Nat \ {0} /\ h.position \in Nat /\ h.saved \in Seq(Saved)
        /\ Len(h.saved) \in Nat /\ h \in Histories
        /\ \A i \in 1 .. Len(h.saved) : h.saved[i].at \in Nat
    BY HistoryFacts DEF HistoryRight
  <1>m. PICK moved : moved = [h EXCEPT !.position = @ + ran]
    OBVIOUS
  <1>2. /\ moved \in Histories /\ moved.every = h.every /\ moved.limit = h.limit
        /\ moved.position = h.position + ran /\ moved.saved = h.saved
    <2>1. h.position + ran \in Nat
      BY <1>1
    <2>2. moved = [h EXCEPT !.position = h.position + ran]
      BY <1>m
    <2> QED BY <2>1, <2>2, <1>1 DEF Histories, Saved
  <1>3. advanced(h, m, q, ran, whole) = IF Far(h, ran, whole) THEN push(moved, m, q) ELSE moved
    BY <1>m, Zenon DEF advanced, Far
  <1> DEFINE n == Len(h.saved)
  <1>4. n \in 1 .. n
    BY <1>1
  <1>5. \A i \in 1 .. n : h.saved[i].at <= h.saved[n].at
    <2> TAKE i \in 1 .. n
    <2>1. i # n => h.saved[i].at < h.saved[n].at
      BY <1>1, <1>4 DEF HistoryRight, Placed, InOrder
    <2> QED BY <2>1, <1>1, <1>4
  <1>6. CASE Far(h, ran, whole)
    <2>1. ASSUME NEW i \in 1 .. n PROVE h.saved[i].at < h.position + ran
      <3>1. h.saved[i].at \in Nat /\ h.saved[n].at \in Nat /\ h.saved[i].at <= h.saved[n].at
        BY <1>1, <1>4, <1>5
      <3>2. apart + ran >= h.every /\ h.every \in Nat \ {0} /\ h.position = h.saved[n].at + apart
        BY <1>1, <1>6 DEF Far
      <3> QED BY <3>1, <3>2
    <2>2. h.position + ran <= h.saved[n].at + h.every
      BY <1>1, <1>4
    <2>3. Open(moved)
      BY <1>2, <2>1, <2>2 DEF Open, HistoryRight
    <2>e. PICK e : e = [at |-> h.position + ran, quantum |-> q, kept |-> m]
      OBVIOUS
    <2>4. e \in Saved /\ e.at = moved.position
      BY <2>e, <1>1, <1>2 DEF Saved
    <2>g. PICK g : g = push(moved, m, q)
      OBVIOUS
    <2>5. EndsWith(g, moved, e)
      <3>1. Len(moved.saved) <= moved.limit
        BY <2>3 DEF Open
      <3>2. EndsWith(push(moved, m, q), moved, [at |-> moved.position, quantum |-> q, kept |-> m])
        BY <3>1, <1>2, PushShape
      <3> QED BY <3>2, <2>e, <2>g, <1>2
    <2>6. HistoryRight(g) /\ Len(g.saved) > 0 /\ g.saved[Len(g.saved)] = e
      BY <2>3, <2>4, <2>5, EndsRight
    <2>7. g.every = h.every /\ g.position = h.position + ran
      BY <2>5, <1>2 DEF EndsWith
    <2>8. advanced(h, m, q, ran, whole) = g
      BY <1>3, <1>6, <2>g
    <2> QED BY <2>3, <2>5, <2>6, <2>7, <2>8, <2>e, <1>2, <1>6 DEF AdvancedTo
  <1>7. CASE ~Far(h, ran, whole)
    <2>1. advanced(h, m, q, ran, whole) = moved
      BY <1>3, <1>7
    <2>2. HistoryRight(moved)
      <3>1. \A i \in 1 .. n : h.saved[i].at <= h.position + ran
        BY <1>1 DEF HistoryRight
      <3>2. h.position + ran <= h.saved[n].at + h.every
        BY <1>1, <1>4
      <3> QED BY <3>1, <3>2, <1>2 DEF HistoryRight
    <2> QED BY <2>1, <2>2, <1>2, <1>7 DEF AdvancedTo
  <1> QED BY <1>6, <1>7

\* A piece is no longer than the fuel that is left, nor than what `every' leaves of it.
LEMMA PieceFacts ==
    ASSUME NEW l \in Nat, NEW s \in Nat, NEW q \in Nat \ {0}, NEW every \in Nat \ {0}, s < every
    PROVE  pieceOf(l, s, q, every) \in Nat /\ pieceOf(l, s, q, every) <= l /\ s + pieceOf(l, s, q, every) <= every
  <1>1. TurnsInPiece * q \in Nat
    BY HistoryAssumption
  <1> DEFINE most == TurnsInPiece * q
  <1> HIDE DEF most
  <1>2. pieceOf(l, s, q, every) = Smaller(l, Smaller(most, every - s))
    BY DEF pieceOf, most
  <1>3. most \in Nat
    BY <1>1 DEF most
  <1> QED BY <1>2, <1>3 DEF Smaller

LEMMA EveryFacts ==
    ASSUME NEW h, NEW q \in Nat \ {0}, h # NoHistory => HistoryRight(h)
    PROVE  everyOf(h, q) \in Nat \ {0} /\ (h # NoHistory => everyOf(h, q) = h.every)
  <1>1. CASE h = NoHistory
    <2>1. TurnsInPiece \in Nat \ {0}
      BY HistoryAssumption
    <2>2. TurnsInPiece * q \in Nat \ {0}
      BY <2>1
    <2> QED BY <1>1, <2>2 DEF everyOf
  <1>2. CASE h # NoHistory
    BY <1>2, HistoryFacts DEF everyOf, HistoryRight
  <1> QED BY <1>1, <1>2

\* What a run starts with.
LEMMA StartsRight ==
    ASSUME NEW h, NEW m \in Machines, NEW q \in Nat \ {0}, HistoryRight(h)
    PROVE  LET g == push(refreshed(h), m, q)
               e == [at |-> h.position, quantum |-> q, kept |-> m]
           IN  /\ HistoryRight(g) /\ g.every = h.every /\ g.position = h.position
               /\ Len(g.saved) > 0 /\ g.saved[Len(g.saved)] = e /\ EndsWith(g, refreshed(h), e)
  <1>r. PICK r : r = refreshed(h)
    OBVIOUS
  <1>g. PICK g : g = push(r, m, q)
    OBVIOUS
  <1>e. PICK e : e = [at |-> h.position, quantum |-> q, kept |-> m]
    OBVIOUS
  <1>1. Open(r) /\ r.every = h.every /\ r.position = h.position
    BY <1>r, RefreshedOpen
  <1>2. r \in Histories /\ Len(r.saved) <= r.limit /\ h.position \in Nat
    BY <1>1, HistoryFacts DEF Open, HistoryRight
  <1>3. e \in Saved /\ e.at = r.position
    BY <1>1, <1>2, <1>e DEF Saved
  <1>4. EndsWith(g, r, e)
    <2>1. EndsWith(push(r, m, q), r, [at |-> r.position, quantum |-> q, kept |-> m])
      BY <1>2, PushShape
    <2> QED BY <2>1, <1>1, <1>g, <1>e
  <1>5. HistoryRight(g) /\ Len(g.saved) > 0 /\ g.saved[Len(g.saved)] = e
    BY <1>1, <1>3, <1>4, EndsRight
  <1>6. g.every = h.every /\ g.position = h.position
    BY <1>1, <1>4 DEF EndsWith
  <1> QED BY <1>4, <1>5, <1>6, <1>r, <1>g, <1>e

\* An instruction leaves the machine as it is typed.
LEMMA RanFacts ==
    ASSUME NEW m \in Machines, NEW q \in Nat \ {0}
    PROVE  /\ ranNext(m, q) \in Machines /\ ranNext(m, q).models = m.models
           /\ [ranNext(m, q) EXCEPT !.turnUsed = 0] \in Machines
           /\ [ranNext(m, q) EXCEPT !.turnUsed = 0].models = m.models
           /\ Len(ranNext(m, q).did) = Len(m.did) + 1
  <1> DEFINE over == m.turnUsed >= q
             cur  == IF over THEN (m.cur % N) + 1 ELSE m.cur
             used == IF over THEN 1 ELSE m.turnUsed + 1
             did  == Append(m.did, cur)
  <1>1. m.did \in Seq(1 .. N \cup {Host}) /\ m.cur \in 1 .. N /\ m.turnUsed \in Nat /\ m.models \in SUBSET Models
    BY DEF Machines
  <1>2. cur \in 1 .. N /\ used \in Nat
    BY <1>1, HistoryAssumption
  <1> HIDE DEF cur, used
  <1>3. did \in Seq(1 .. N \cup {Host}) /\ Len(did) = Len(m.did) + 1
    BY <1>1, <1>2
  <1>4. ranNext(m, q) = [m EXCEPT !.did = did, !.cur = cur, !.turnUsed = used]
    BY DEF ranNext, cur, used
  <1> HIDE DEF did
  <1>r. PICK r : r = ranNext(m, q)
    OBVIOUS
  <1>5. r \in Machines /\ r.models = m.models /\ r.did = did
    BY <1>1, <1>2, <1>3, <1>4, <1>r DEF Machines
  <1>6. [r EXCEPT !.turnUsed = 0] \in Machines /\ [r EXCEPT !.turnUsed = 0].models = r.models
    BY <1>5 DEF Machines
  <1> QED BY <1>3, <1>5, <1>6, <1>r

-----------------------------------------------------------------------------
(* Every action keeps the invariant. *)

LEMMA RunStep ==
    ASSUME HistoryIInv, NEW q \in Quanta, NEW f \in Fuels, run(q, f)
    PROVE  HistoryIInv'
  <1>1. q \in Nat \ {0} /\ f \in Nat /\ machine \in Machines /\ (Keeps => HistoryRight(history))
    BY HistoryAssumption DEF HistoryIInv
  <1>2. everyOf(history, q) \in Nat \ {0} /\ (Keeps => everyOf(history, q) = history.every)
    BY <1>1, EveryFacts DEF Keeps
  <1>3. Keeps => /\ HistoryRight(history') /\ history'.every = history.every /\ Keeps'
                 /\ Len(history'.saved) > 0 /\ history'.position = history'.saved[Len(history'.saved)].at
    <2> SUFFICES ASSUME Keeps PROVE /\ HistoryRight(history') /\ history'.every = history.every /\ Keeps'
                                    /\ Len(history'.saved) > 0
                                    /\ history'.position = history'.saved[Len(history'.saved)].at
      OBVIOUS
    <2>1. history' = push(refreshed(history), machine, q)
      BY DEF run
    <2>2. /\ HistoryRight(history') /\ history'.every = history.every /\ Len(history'.saved) > 0
          /\ history'.position = history.position
          /\ history'.saved[Len(history'.saved)] = [at |-> history.position, quantum |-> q, kept |-> machine]
      BY <2>1, <1>1, StartsRight
    <2> QED BY <2>2, HistoryFacts DEF HistoryRight, Keeps
  <1>4. ~Keeps => history' = history
    BY DEF run
  <1>5. everyOf(history', q) = everyOf(history, q)
    BY <1>2, <1>3, <1>4 DEF everyOf, Keeps
  <1>6. /\ mode' = "run" /\ quantum' = q /\ left' = f /\ since' = 0 /\ apart' = 0 /\ steps' = 0
        /\ piece' = pieceOf(f, 0, q, everyOf(history, q)) /\ fuel' = piece'
        /\ machine' = machine /\ slot' = slot /\ target' = target /\ past' = past
    BY DEF run, StartPiece
  <1>7. piece' \in Nat /\ piece' <= f /\ 0 + piece' <= everyOf(history, q)
    <2>1. 0 \in Nat /\ 0 < everyOf(history, q)
      BY <1>2
    <2> QED BY <2>1, <1>1, <1>2, <1>6, PieceFacts
  <1>8. CountsRight'
    BY <1>1, <1>2, <1>5, <1>6, <1>7 DEF HistoryIInv, CountsRight
  <1>9. RunRight'
    <2>1. ASSUME Keeps' PROVE history'.position = history'.saved[Len(history'.saved)].at + 0 /\ Len(history'.saved) > 0
      <3>1. Keeps
        BY <2>1, <1>4 DEF Keeps
      <3>2. history'.position \in Nat
        BY <3>1, <1>3, HistoryFacts DEF HistoryRight
      <3> QED BY <3>1, <3>2, <1>3
    <2> QED BY <2>1, <1>6 DEF RunRight
  <1>10. Keeps' => HistoryRight(history')
    BY <1>3, <1>4 DEF Keeps
  <1>11. SlotRight'
    BY <1>6 DEF HistoryIInv, SlotRight
  <1> QED BY <1>6, <1>8, <1>9, <1>10, <1>11 DEF HistoryIInv, AgainRight

\* An instruction adds what it leaves to what the machine was, unless it runs again.
LEMMA RememberFacts ==
    ASSUME HistoryIInv, NEW m \in Machines, Remember(m)
    PROVE  past' \in Seq(Machines) /\ past' # <<>>
  <1>1. past \in Seq(Machines) /\ past # <<>>
    BY DEF HistoryIInv
  <1>2. Append(past, m) \in Seq(Machines) /\ Append(past, m) # <<>> /\ <<m>> \in Seq(Machines) /\ <<m>> # <<>>
    BY <1>1
  <1> QED BY <1>1, <1>2 DEF Remember

LEMMA InstructionStep ==
    ASSUME HistoryIInv, instruction \/ faulty
    PROVE  HistoryIInv'
  <1>1. machine \in Machines /\ quantum \in Nat \ {0} /\ CountsRight
    BY DEF HistoryIInv, CountsRight
  <1>2. /\ UNCHANGED <<history, slot, mode, quantum, left, since, piece, apart, target>>
        /\ machine' \in Machines /\ Remember(machine')
    BY <1>1, RanFacts DEF instruction, faulty
  <1>3. past' \in Seq(Machines) /\ past' # <<>>
    BY <1>2, RememberFacts
  <1>4. steps' \in Nat /\ fuel' \in Nat /\ steps' <= fuel' /\ fuel' <= piece
    BY <1>1 DEF instruction, faulty, CountsRight
  <1>5. CountsRight'
    BY <1>1, <1>2, <1>4 DEF CountsRight
  <1>6. RunRight' /\ AgainRight' /\ SlotRight' /\ (Keeps' => HistoryRight(history')) /\ mode' \in {"idle", "run", "again"}
    BY <1>2 DEF HistoryIInv, RunRight, AgainRight, SlotRight, Keeps
  <1> QED BY <1>2, <1>3, <1>5, <1>6 DEF HistoryIInv

\* The last of what was may be replaced.
LEMMA LastFacts ==
    ASSUME NEW p \in Seq(Machines), p # <<>>, NEW m \in Machines
    PROVE  LET r == [p EXCEPT ![Len(p)] = m]
           IN  /\ r \in Seq(Machines) /\ r # <<>> /\ Len(r) = Len(p) /\ r[Len(p)] = m
               /\ \A i \in 1 .. Len(p) - 1 : r[i] = p[i]
  OBVIOUS

LEMMA MachineFacts ==
    ASSUME NEW m \in Machines
    PROVE  /\ m.did \in Seq(1 .. N \cup {Host}) /\ m.models \in SUBSET Models
           /\ [m EXCEPT !.turnUsed = 0] \in Machines /\ [m EXCEPT !.turnUsed = 0].models = m.models
           /\ \A models \in SUBSET Models : [m EXCEPT !.models = models] \in Machines
           /\ [m EXCEPT !.did = Append(m.did, Host)] \in Machines
           /\ [m EXCEPT !.did = Append(m.did, Host)].models = m.models
  <1>1. m.did \in Seq(1 .. N \cup {Host}) /\ m.models \in SUBSET Models
    BY DEF Machines
  <1>2. Append(m.did, Host) \in Seq(1 .. N \cup {Host})
    BY <1>1
  <1> QED BY <1>1, <1>2 DEF Machines

\* Nothing runs after the end of a run.
LEMMA OverFacts ==
    ASSUME RunIsOver, mode' = "idle"
    PROVE  CountsRight' /\ RunRight' /\ AgainRight'
  BY DEF RunIsOver, CountsRight, RunRight, AgainRight

\* How far a piece takes the history.
LEMMA RunAdvances ==
    ASSUME HistoryIInv, mode = "run", Keeps, NEW whole \in BOOLEAN
    PROVE  AdvancedTo(advanced(history, machine, quantum, Ran, whole), history,
                      [at |-> history.position + Ran, quantum |-> quantum, kept |-> machine],
                      Ran, Far(history, Ran, whole))
  <1>1. HistoryRight(history) /\ machine \in Machines /\ CountsRight /\ RunRight
    BY DEF HistoryIInv
  <1>2. Ran \in Nat /\ Ran <= piece /\ quantum \in Nat \ {0} /\ apart \in Nat
    BY <1>1 DEF CountsRight, Ran
  <1>3. everyOf(history, quantum) = history.every /\ history.every \in Nat
    BY <1>1, <1>2, EveryFacts, HistoryFacts DEF Keeps, HistoryRight
  <1>4. /\ Len(history.saved) > 0 /\ apart + Ran <= history.every
        /\ history.position = history.saved[Len(history.saved)].at + apart
    BY <1>1, <1>2, <1>3 DEF RunRight, CountsRight
  <1> HIDE DEF Ran
  <1> QED BY <1>1, <1>2, <1>4, AdvancedRight

LEMMA StopsStep ==
    ASSUME HistoryIInv, stops
    PROVE  HistoryIInv'
  <1>1. /\ machine \in Machines /\ past \in Seq(Machines) /\ past # <<>> /\ CountsRight /\ RunRight
        /\ (Keeps => HistoryRight(history)) /\ SlotRight
    BY DEF HistoryIInv
  <1>2. /\ mode = "run" /\ mode' = "idle" /\ machine' = [machine EXCEPT !.turnUsed = 0] /\ slot' = slot
        /\ past' = [past EXCEPT ![Len(past)] = machine'] /\ RunIsOver
        /\ Keeps => history' = advanced(history, machine, quantum, Ran, FALSE)
        /\ ~Keeps => history' = history
    BY DEF stops
  <1>3. machine' \in Machines
    BY <1>1, <1>2, MachineFacts
  <1>4. past' \in Seq(Machines) /\ past' # <<>>
    BY <1>1, <1>2, <1>3, LastFacts
  <1>5. Keeps' => HistoryRight(history')
    <2>1. CASE Keeps
      <3>1. FALSE \in BOOLEAN
        OBVIOUS
      <3>2. AdvancedTo(history', history, [at |-> history.position + Ran, quantum |-> quantum, kept |-> machine],
                       Ran, Far(history, Ran, FALSE))
        BY <2>1, <3>1, <1>2, RunAdvances
      <3> QED BY <3>2 DEF AdvancedTo
    <2>2. CASE ~Keeps
      BY <2>2, <1>2 DEF Keeps
    <2> QED BY <2>1, <2>2
  <1>6. CountsRight' /\ RunRight' /\ AgainRight'
    BY <1>2, OverFacts
  <1>7. SlotRight'
    BY <1>1, <1>2 DEF SlotRight
  <1> QED BY <1>2, <1>3, <1>4, <1>5, <1>6, <1>7 DEF HistoryIInv

\* The end of a piece, and of a run.
LEMMA EndsStep ==
    ASSUME HistoryIInv, pieceEnds
    PROVE  HistoryIInv'
  <1>1. /\ CountsRight /\ RunRight /\ AgainRight /\ machine \in Machines /\ mode \in {"idle", "run", "again"}
        /\ (Keeps => HistoryRight(history)) /\ SlotRight
    BY DEF HistoryIInv
  <1> DEFINE every == everyOf(history, quantum)
             s     == IF since + piece >= every THEN 0 ELSE since + piece
             kept  == mode = "run" /\ Keeps /\ apart + Ran >= every
             over  == left <= piece
  <1>2. /\ mode # "idle" /\ steps = fuel /\ machine' = machine /\ slot' = slot /\ past' = past
        /\ (over /\ mode' = "idle" /\ RunIsOver)
           \/ (/\ ~over /\ StartPiece(left - piece, s, quantum, every)
               /\ apart' = (IF kept THEN 0 ELSE apart + Ran)
               /\ UNCHANGED <<mode, quantum, target>>)
        /\ history' = IF ~Keeps THEN history
                      ELSE IF mode = "run" THEN advanced(history, machine, quantum, Ran, TRUE)
                      ELSE IF left <= piece THEN Back(history, target)
                      ELSE history
    <2>1. left > piece <=> ~over
      BY <1>1 DEF CountsRight
    <2> QED BY <2>1, Zenon DEF pieceEnds
  <1>3. Ran = piece /\ Ran \in Nat /\ quantum \in Nat \ {0}
    BY <1>1, <1>2 DEF CountsRight, Ran
  <1>4. every \in Nat \ {0} /\ (Keeps => every = history.every)
    BY <1>1, <1>3, EveryFacts DEF Keeps
  <1>5. since + piece <= every /\ s \in Nat /\ s < every
    BY <1>1, <1>2, <1>4 DEF CountsRight
  <1> HIDE DEF every, s
  <1>6. Keeps /\ mode = "run" =>
           /\ HistoryRight(history') /\ history'.every = history.every /\ Len(history'.saved) > 0
           /\ history'.position = history.position + Ran
           /\ Far(history, Ran, TRUE) => history'.saved[Len(history'.saved)].at = history'.position
           /\ ~Far(history, Ran, TRUE) => history'.saved = history.saved
    <2> SUFFICES ASSUME Keeps, mode = "run"
                 PROVE  /\ HistoryRight(history') /\ history'.every = history.every /\ Len(history'.saved) > 0
                        /\ history'.position = history.position + Ran
                        /\ Far(history, Ran, TRUE) => history'.saved[Len(history'.saved)].at = history'.position
                        /\ ~Far(history, Ran, TRUE) => history'.saved = history.saved
      OBVIOUS
    <2>2. history' = advanced(history, machine, quantum, Ran, TRUE)
      BY <1>2
    <2>3. TRUE \in BOOLEAN
      OBVIOUS
    <2> HIDE DEF Ran
    <2>4. AdvancedTo(history', history, [at |-> history.position + Ran, quantum |-> quantum, kept |-> machine],
                     Ran, Far(history, Ran, TRUE))
      BY <2>2, <2>3, RunAdvances
    <2>5. PICK e : e = [at |-> history.position + Ran, quantum |-> quantum, kept |-> machine]
      OBVIOUS
    <2>6. e.at = history.position + Ran /\ AdvancedTo(history', history, e, Ran, Far(history, Ran, TRUE))
      BY <2>4, <2>5
    <2> QED BY <2>6, Zenon DEF AdvancedTo
  <1>7. Keeps => HistoryRight(history') /\ history'.every = history.every
    <2>1. CASE Keeps /\ mode = "again" /\ left <= piece
      <3>1. history' = Back(history, target)
        BY <2>1, <1>2
      <3> QED BY <2>1, <3>1, <1>1, BackRight DEF AgainRight, CountsRight
    <2>2. CASE Keeps /\ mode = "again" /\ ~(left <= piece)
      BY <2>2, <1>1, <1>2
    <2> QED BY <2>1, <2>2, <1>1, <1>2, <1>6
  <1>8. (Keeps' => HistoryRight(history')) /\ (Keeps' <=> Keeps) /\ everyOf(history', quantum) = every
    <2>1. ~Keeps => history' = history
      BY <1>2
    <2>2. Keeps => history' # NoHistory
      BY <1>7, HistoryFacts DEF HistoryRight
    <2> QED BY <2>1, <2>2, <1>4, <1>7 DEF Keeps, everyOf, every
  <1>9. SlotRight'
    BY <1>1, <1>2 DEF SlotRight
  <1>10. machine' \in Machines /\ past' \in Seq(Machines) /\ past' # <<>>
    BY <1>2 DEF HistoryIInv
  <1>11. CASE over /\ mode' = "idle" /\ RunIsOver
    <2>1. CountsRight' /\ RunRight' /\ AgainRight'
      BY <1>11, OverFacts
    <2> QED BY <2>1, <1>8, <1>9, <1>10, <1>11 DEF HistoryIInv
  <1>12. CASE /\ ~over /\ StartPiece(left - piece, s, quantum, every)
              /\ apart' = (IF kept THEN 0 ELSE apart + Ran)
              /\ UNCHANGED <<mode, quantum, target>>
    <2>1. /\ left' = left - piece /\ since' = s /\ piece' = pieceOf(left - piece, s, quantum, every)
          /\ fuel' = piece' /\ steps' = 0 /\ mode' = mode /\ quantum' = quantum /\ target' = target
      BY <1>12 DEF StartPiece
    <2>2. left - piece \in Nat /\ left - piece <= left
      BY <1>1, <1>12 DEF CountsRight
    <2>3. piece' \in Nat /\ piece' <= left' /\ s + piece' <= every
      BY <2>1, <2>2, <1>3, <1>4, <1>5, PieceFacts
    <2>4. apart' \in Nat
      BY <1>1, <1>3, <1>12 DEF CountsRight
    <2>5. CountsRight'
      BY <2>1, <2>2, <2>3, <2>4, <1>1, <1>3, <1>5, <1>8 DEF CountsRight
    <2>6. RunRight'
      <3> SUFFICES ASSUME mode = "run", Keeps
                   PROVE  /\ Len(history'.saved) > 0 /\ apart' = since'
                          /\ history'.position = history'.saved[Len(history'.saved)].at + apart'
        BY <2>1, <1>8 DEF RunRight
      <3>1. /\ apart = since /\ Len(history.saved) > 0 /\ apart \in Nat
            /\ history.position = history.saved[Len(history.saved)].at + apart
        BY <1>1 DEF RunRight, CountsRight
      <3>2. kept <=> Far(history, Ran, TRUE)
        BY <1>4 DEF Far
      <3>3. history'.position \in Nat /\ history.saved[Len(history.saved)].at \in Nat
        <4>1. Len(history.saved) \in 1 .. Len(history.saved)
          BY <1>1, <3>1, HistoryFacts DEF HistoryRight
        <4> QED BY <4>1, <1>1, <1>7, HistoryFacts DEF HistoryRight
      <3>4. CASE kept
        <4>1. apart' = 0 /\ since' = 0
          BY <3>1, <3>4, <2>1, <1>3, <1>12 DEF s
        <4>2. history'.saved[Len(history'.saved)].at = history'.position
          BY <3>2, <3>4, <1>6
        <4> QED BY <4>1, <4>2, <3>3, <1>6
      <3>5. CASE ~kept
        <4>1. apart' = apart + Ran /\ since' = apart + Ran
          BY <3>1, <3>5, <2>1, <1>3, <1>12 DEF s
        <4>2. history'.saved = history.saved /\ history'.position = history.position + Ran
          BY <3>2, <3>5, <1>6
        <4> QED BY <4>1, <4>2, <3>1, <3>3, <1>3
      <3> QED BY <3>4, <3>5
    <2>7. AgainRight'
      <3> SUFFICES ASSUME mode = "again"
                   PROVE  /\ Keeps' /\ Len(history'.saved) > 0 /\ history'.saved[1].at <= target'
                          /\ target' <= history'.position /\ left' <= history'.every
        BY <2>1 DEF AgainRight
      <3>1. history' = history
        BY <1>2, <1>12
      <3>2. left' <= history.every
        <4>1. left <= history.every /\ history.every \in Nat
          BY <1>1, HistoryFacts DEF AgainRight, HistoryRight
        <4> QED BY <4>1, <2>1, <2>2, <1>1 DEF CountsRight
      <3> QED BY <3>1, <3>2, <2>1, <1>1, <1>8 DEF AgainRight
    <2> QED BY <2>1, <2>5, <2>6, <2>7, <1>1, <1>8, <1>9, <1>10 DEF HistoryIInv
  <1> QED BY <1>2, <1>11, <1>12

\* Between runs the counts are as the last run left them.
LEMMA IdleFacts ==
    ASSUME HistoryIInv, mode = "idle", UNCHANGED <<mode, running>>
    PROVE  CountsRight' /\ RunRight' /\ AgainRight'
  BY DEF HistoryIInv, CountsRight, RunRight, AgainRight, running

LEMMA FreshRight ==
    ASSUME NEW every \in Nat \ {0}, NEW limit \in Nat \ {0}
    PROVE  HistoryRight(fresh(every, limit)) /\ fresh(every, limit) # NoHistory
  <1> DEFINE h == fresh(every, limit)
  <1>1. <<>> \in Seq(Saved) /\ Len(<<>>) = 0
    OBVIOUS
  <1>2. h \in Histories /\ h.saved = <<>> /\ h.limit = limit /\ h.every = every
    BY <1>1 DEF fresh, Histories, Saved
  <1> HIDE DEF h
  <1>3. Len(h.saved) = 0 /\ h.saved \in Seq(Saved) /\ h.every \in Nat /\ h # NoHistory
    BY <1>1, <1>2, HistoryFacts
  <1>4. HistoryRight(h)
    BY <1>2, <1>3 DEF HistoryRight, Placed, InOrder, Gaps
  <1> QED BY <1>3, <1>4 DEF h

LEMMA HostStep ==
    ASSUME HistoryIInv, hostWrites \/ \E model \in Models : attach(model)
    PROVE  HistoryIInv'
  <1>1. machine \in Machines /\ past \in Seq(Machines) /\ past # <<>>
    BY DEF HistoryIInv
  <1>2. /\ mode = "idle" /\ past' = [past EXCEPT ![Len(past)] = machine'] /\ UNCHANGED <<history, slot, mode, running>>
        /\ machine' \in Machines
    <2>1. CASE hostWrites
      BY <2>1, <1>1, MachineFacts DEF hostWrites
    <2>2. ASSUME NEW model \in Models, attach(model)
          PROVE  /\ mode = "idle" /\ past' = [past EXCEPT ![Len(past)] = machine']
                 /\ UNCHANGED <<history, slot, mode, running>> /\ machine' \in Machines
      <3>1. machine.models \cup {model} \in SUBSET Models
        BY <1>1, MachineFacts
      <3> QED BY <3>1, <2>2, <1>1, MachineFacts DEF attach
    <2> QED BY <2>1, <2>2
  <1>3. past' \in Seq(Machines) /\ past' # <<>>
    BY <1>1, <1>2, LastFacts
  <1>4. CountsRight' /\ RunRight' /\ AgainRight'
    BY <1>2, IdleFacts
  <1>5. SlotRight' /\ (Keeps' => HistoryRight(history')) /\ mode' \in {"idle", "run", "again"}
    BY <1>2 DEF HistoryIInv, SlotRight, Keeps
  <1> QED BY <1>2, <1>3, <1>4, <1>5 DEF HistoryIInv

LEMMA KeepStep ==
    ASSUME HistoryIInv, NEW every \in Everys, NEW limit \in Limits, keepHistory(every, limit)
    PROVE  HistoryIInv'
  <1>1. Larger(every, 1) \in Nat \ {0} /\ Larger(limit, 1) \in Nat \ {0}
    BY HistoryAssumption DEF Larger
  <1>2. HistoryRight(history')
    BY <1>1, FreshRight DEF keepHistory
  <1>3. machine' = machine /\ slot' = slot /\ past' = <<machine>> /\ mode = "idle" /\ UNCHANGED <<mode, running>>
    BY DEF keepHistory
  <1>4. past' \in Seq(Machines) /\ past' # <<>> /\ machine' \in Machines
    BY <1>3 DEF HistoryIInv
  <1>5. CountsRight' /\ RunRight' /\ AgainRight'
    BY <1>3, IdleFacts
  <1>6. SlotRight' /\ mode' \in {"idle", "run", "again"}
    BY <1>3 DEF HistoryIInv, SlotRight
  <1> QED BY <1>2, <1>4, <1>5, <1>6 DEF HistoryIInv

LEMMA SaveStep ==
    ASSUME HistoryIInv, save
    PROVE  HistoryIInv'
  <1>1. /\ machine' = machine /\ history' = history /\ past' = past /\ mode = "idle" /\ UNCHANGED <<mode, running>>
        /\ slot' = [kept |-> machine, history |-> history, past |-> past]
    BY DEF save, keep
  <1>2. CountsRight' /\ RunRight' /\ AgainRight'
    BY <1>1, IdleFacts
  <1>3. slot'.kept = machine /\ slot'.history = history /\ slot'.past = past
    BY <1>1
  <1>4. SlotRight'
    BY <1>3 DEF HistoryIInv, SlotRight, Keeps
  <1> QED BY <1>1, <1>2, <1>4 DEF HistoryIInv, Keeps

LEMMA RestoreStep ==
    ASSUME HistoryIInv, restore
    PROVE  HistoryIInv'
  <1>1. /\ mode = "idle" /\ slot # NoHistory /\ machine' = restoreKept(slot.kept)
        /\ UNCHANGED <<slot, mode, running>>
        /\ history' = IF ~Keeps THEN NoHistory
                      ELSE IF slot.history # NoHistory THEN slot.history
                      ELSE fresh(history.every, history.limit)
        /\ past' = IF Keeps /\ slot.history # NoHistory THEN slot.past ELSE <<machine'>>
    BY DEF restore
  <1>2. /\ machine \in Machines /\ slot.kept \in Machines /\ slot.past \in Seq(Machines) /\ slot.past # <<>>
        /\ slot.history # NoHistory => HistoryRight(slot.history)
        /\ Keeps => HistoryRight(history)
    BY <1>1 DEF HistoryIInv, SlotRight
  <1>3. machine' \in Machines
    <2>1. machine.models \in SUBSET Models
      BY <1>2, MachineFacts
    <2> QED BY <2>1, <1>1, <1>2, MachineFacts DEF restoreKept
  <1>4. past' \in Seq(Machines) /\ past' # <<>>
    <2>1. <<machine'>> \in Seq(Machines) /\ <<machine'>> # <<>>
      BY <1>3
    <2> QED BY <2>1, <1>1, <1>2
  <1>5. Keeps' => HistoryRight(history')
    <2>1. CASE Keeps /\ slot.history = NoHistory
      <3>1. history.every \in Nat \ {0} /\ history.limit \in Nat \ {0}
        BY <2>1, <1>2, HistoryFacts DEF HistoryRight
      <3> QED BY <3>1, <2>1, <1>1, FreshRight
    <2> QED BY <2>1, <1>1, <1>2 DEF Keeps
  <1>6. CountsRight' /\ RunRight' /\ AgainRight'
    BY <1>1, IdleFacts
  <1>7. SlotRight' /\ mode' \in {"idle", "run", "again"}
    BY <1>1 DEF HistoryIInv, SlotRight
  <1> QED BY <1>3, <1>4, <1>5, <1>6, <1>7 DEF HistoryIInv

LEMMA BackStep ==
    ASSUME HistoryIInv, NEW count \in Counts, stepBack(count)
    PROVE  HistoryIInv'
  <1> DEFINE place == history.position - count
             index == indexOf(history, place)
             from  == history.saved[index]
  <1>1. /\ mode = "idle" /\ Keeps /\ history.saved # <<>> /\ count <= history.position
        /\ place >= history.saved[1].at /\ machine' = restoreKept(from.kept) /\ slot' = slot
        /\ past' = IF count < Len(past) THEN SubSeq(past, 1, Len(past) - count) ELSE <<Head(past)>>
        /\ \/ /\ place > from.at /\ mode' = "again" /\ target' = place /\ quantum' = from.quantum
              /\ StartPiece(place - from.at, 0, from.quantum, history.every) /\ apart' = 0
              /\ history' = history
           \/ /\ place = from.at /\ history' = Back(history, place) /\ UNCHANGED <<mode, running>>
    BY Zenon DEF stepBack
  <1>2. /\ HistoryRight(history) /\ machine \in Machines /\ past \in Seq(Machines) /\ past # <<>>
    BY <1>1 DEF HistoryIInv
  <1>3. /\ history.every \in Nat \ {0} /\ history.position \in Nat /\ history.saved \in Seq(Saved)
        /\ Len(history.saved) \in Nat /\ history # NoHistory /\ \A i \in 1 .. Len(history.saved) : history.saved[i].at \in Nat
    BY <1>2, HistoryFacts DEF HistoryRight
  <1>4. Len(history.saved) > 0 /\ count \in Nat \ {0} /\ place \in Nat /\ place <= history.position
    BY <1>1, <1>3, HistoryAssumption
  <1>5. history.saved[1].at <= place
    <2>1. 1 \in 1 .. Len(history.saved)
      BY <1>3, <1>4
    <2> QED BY <2>1, <1>1, <1>3, <1>4
  <1> HIDE DEF place
  <1>6. /\ index \in 1 .. Len(history.saved) /\ from.at <= place
    BY <1>3, <1>4, <1>5, IndexFacts
  <1>7. HistoryRight(Back(history, place)) /\ place - from.at <= history.every
    BY <1>2, <1>4, <1>5, BackRight
  <1> HIDE DEF index
  <1>8. from.at \in Nat /\ from.quantum \in Nat \ {0} /\ from.kept \in Machines
    BY <1>3, <1>6, SavedFacts
  <1> HIDE DEF from
  <1>9. machine' \in Machines
    <2>1. machine.models \in SUBSET Models
      BY <1>2, MachineFacts
    <2> QED BY <2>1, <1>1, <1>8, MachineFacts DEF restoreKept
  <1>10. past' \in Seq(Machines) /\ past' # <<>>
    <2>1. Len(past) \in Nat /\ Len(past) > 0 /\ Head(past) \in Machines
      BY <1>2
    <2>2. CASE count < Len(past)
      <3>1. Len(past) - count \in 1 .. Len(past)
        BY <2>1, <2>2, <1>4
      <3>2. SubSeq(past, 1, Len(past) - count) \in Seq(Machines) /\ Len(SubSeq(past, 1, Len(past) - count)) = Len(past) - count
        BY <3>1, <1>2
      <3> QED BY <3>1, <3>2, <2>2, <1>1
    <2>3. CASE ~(count < Len(past))
      BY <2>1, <2>3, <1>1
    <2> QED BY <2>2, <2>3
  <1>11. SlotRight'
    BY <1>1 DEF HistoryIInv, SlotRight
  <1>12. CASE /\ place > from.at /\ mode' = "again" /\ target' = place /\ quantum' = from.quantum
              /\ StartPiece(place - from.at, 0, from.quantum, history.every) /\ apart' = 0
              /\ history' = history
    <2>1. place - from.at \in Nat /\ 0 \in Nat /\ 0 < history.every
      BY <1>3, <1>4, <1>6, <1>8
    <2>2. /\ left' = place - from.at /\ since' = 0 /\ fuel' = piece' /\ steps' = 0
          /\ piece' = pieceOf(place - from.at, 0, from.quantum, history.every)
      BY <1>12 DEF StartPiece
    <2>3. piece' \in Nat /\ piece' <= left' /\ 0 + piece' <= history.every
      BY <2>1, <2>2, <1>3, <1>8, PieceFacts
    <2>4. everyOf(history', quantum') = history.every
      BY <1>1, <1>12 DEF everyOf, Keeps
    <2>5. CountsRight'
      BY <2>1, <2>2, <2>3, <2>4, <1>4, <1>8, <1>12 DEF CountsRight
    <2>6. RunRight' /\ AgainRight'
      BY <2>2, <1>1, <1>4, <1>5, <1>7, <1>12 DEF RunRight, AgainRight, Keeps
    <2> QED BY <2>5, <2>6, <1>2, <1>9, <1>10, <1>11, <1>12 DEF HistoryIInv
  <1>13. CASE place = from.at /\ history' = Back(history, place) /\ UNCHANGED <<mode, running>>
    <2>1. CountsRight' /\ RunRight' /\ AgainRight'
      BY <1>1, <1>13, IdleFacts
    <2> QED BY <2>1, <1>1, <1>7, <1>9, <1>10, <1>11, <1>13 DEF HistoryIInv
  <1> QED BY <1>1, <1>12, <1>13

LEMMA InitRight == Init => HistoryIInv
  <1> SUFFICES ASSUME Init PROVE HistoryIInv
    OBVIOUS
  <1>1. machine \in Machines
    BY HistoryAssumption DEF Init, Machines
  <1>2. past \in Seq(Machines) /\ past # <<>>
    BY <1>1 DEF Init
  <1> QED BY <1>1, <1>2 DEF Init, HistoryIInv, Keeps, SlotRight, CountsRight, RunRight, AgainRight

LEMMA StepRight == HistoryIInv /\ [Next]_vars => HistoryIInv'
  <1> SUFFICES ASSUME HistoryIInv, [Next]_vars PROVE HistoryIInv'
    OBVIOUS
  <1>1. CASE UNCHANGED vars
    BY <1>1 DEF HistoryIInv, Keeps, SlotRight, CountsRight, RunRight, AgainRight, vars, running
  <1>2. CASE Next
    BY <1>2, RunStep, InstructionStep, StopsStep, EndsStep, HostStep, KeepStep, SaveStep, RestoreStep, BackStep
       DEF Next
  <1> QED BY <1>1, <1>2

LEMMA HistoryInvariant == Spec => []HistoryIInv
  BY InitRight, StepRight, PTL DEF Spec

\* Machine.run, save, restore and stepBack, in any order and with any quanta, fuel and faults,
\* leave the machine and its history typed, and what is kept is never more than the limit.
THEOREM HistoryTypeCorrect == Spec => []TypeOK
  BY HistoryInvariant, ImpliesTypeOK, PTL

\* What Machine.stepBack looks through is always in order, one state for each place and none
\* after the machine, however runs stopped and whatever was undone and restored.
THEOREM AlwaysKeptInOrder == Spec => []KeptInOrder
  BY HistoryInvariant, ImpliesKeptInOrder, PTL

\* A step back never runs more than `every' instructions again.
THEOREM AlwaysRunsAgainLittle == Spec => []RunsAgainLittle
  BY HistoryInvariant, ImpliesRunsAgainLittle, PTL

-----------------------------------------------------------------------------
(* What the machine was. *)

\* Between runs, what is kept is what was there, except at the last place, which the host may change.
IdleRecorded(h, p, models) == Len(p) = h.position + 1 /\ Tracks(h.saved, models, p, h.position)

\* A run has added what it ran, by the quantum that is kept with what it started with.
RunRecorded ==
    mode = "run" /\ Keeps =>
        /\ Len(past) = history.position + 1 + Ran
        /\ Tracks(history.saved, machine.models, past, Len(past))
        /\ history.saved[Len(history.saved)].quantum = quantum

\* What runs again is where it was then.
AgainRecorded ==
    mode = "again" =>
        /\ Len(past) = target + 1
        /\ Tracks(history.saved, machine.models, past, Len(past))
        /\ quantum = history.saved[indexOf(history, target)].quantum
        /\ history.saved[indexOf(history, target)].at + left <= target
        /\ machine = past[target + 1 - left + Ran]

SlotRecorded ==
    slot # NoHistory =>
        /\ slot.kept.models \subseteq machine.models
        /\ slot.kept = slot.past[Len(slot.past)]
        /\ slot.history # NoHistory => IdleRecorded(slot.history, slot.past, machine.models)

RecordIInv ==
    /\ HistoryIInv
    /\ mode # "idle" => steps <= Len(machine.did)
    /\ mode # "again" => machine = past[Len(past)]
    /\ mode = "idle" /\ Keeps => IdleRecorded(history, past, machine.models)
    /\ RunRecorded /\ AgainRecorded /\ SlotRecorded

LEMMA ImpliesStepsBack == RecordIInv => StepsBack
  BY DEF RecordIInv, StepsBack, Last

\* What is kept is still what was, if what was is the same up to there, and if models were attached.
LEMMA SameRecorded ==
    ASSUME NEW s \in Seq(Saved), NEW models, NEW more, NEW p, NEW r, NEW n \in Nat, NEW l \in Nat,
           Tracks(s, models, p, n), models \subseteq more, l <= n, \A i \in 1 .. l : r[i] = p[i]
    PROVE  Tracks(s, more, r, l)
  <1>1. Known(s, more)
    BY DEF Tracks, Known
  <1>2. ASSUME NEW i \in 1 .. Len(s), s[i].at < l PROVE s[i].kept = r[s[i].at + 1]
    <2>1. s[i].at \in Nat
      BY SavedFacts
    <2>2. s[i].at + 1 \in 1 .. l /\ s[i].at < n
      BY <2>1, <1>2
    <2> QED BY <2>2 DEF Tracks, Recorded
  <1>3. ASSUME NEW i \in 1 .. Len(s), NEW k \in Nat,
               s[i].at <= k, k + 1 < l, i < Len(s) => k + 1 < s[i + 1].at
        PROVE  r[k + 2] = Ahead(r[k + 1], s[i].quantum)
    <2>1. k + 1 \in 1 .. l /\ k + 2 \in 1 .. l /\ k + 1 < n
      BY <1>3
    <2>2. p[k + 2] = Ahead(p[k + 1], s[i].quantum)
      BY <2>1, <1>3 DEF Tracks, Recorded
    <2> QED BY <2>1, <2>2
  <1> QED BY <1>1, <1>2, <1>3 DEF Tracks, Recorded

\* An instruction is recorded by the quantum of what is kept last.
LEMMA GrowRecorded ==
    ASSUME NEW s \in Seq(Saved), NEW models, NEW p \in Seq(Machines), NEW m \in Machines,
           Tracks(s, models, p, Len(p)), Len(s) > 0, \A i \in 1 .. Len(s) : s[i].at < Len(p),
           m = Ahead(p[Len(p)], s[Len(s)].quantum)
    PROVE  Tracks(s, models, Append(p, m), Len(p) + 1)
  <1>r. PICK r : r = Append(p, m)
    OBVIOUS
  <1>n. PICK n : n = Len(p)
    OBVIOUS
  <1>1. n \in Nat /\ r[n + 1] = m /\ \A i \in 1 .. n : r[i] = p[i]
    BY <1>r, <1>n
  <1>2. Known(s, models) /\ Len(s) \in Nat
    BY DEF Tracks
  <1>3. ASSUME NEW i \in 1 .. Len(s) PROVE s[i].kept = r[s[i].at + 1]
    <2>1. s[i].at \in Nat /\ s[i].at < n
      BY SavedFacts, <1>n
    <2>2. s[i].at + 1 \in 1 .. n
      BY <2>1, <1>1
    <2> QED BY <2>1, <2>2, <1>1, <1>n DEF Tracks, Recorded
  <1>4. ASSUME NEW i \in 1 .. Len(s), NEW k \in Nat,
               s[i].at <= k, k + 1 < n + 1, i < Len(s) => k + 1 < s[i + 1].at
        PROVE  r[k + 2] = Ahead(r[k + 1], s[i].quantum)
    <2>1. CASE k + 1 < n
      <3>1. k + 1 \in 1 .. n /\ k + 2 \in 1 .. n
        BY <2>1, <1>1
      <3>2. p[k + 2] = Ahead(p[k + 1], s[i].quantum)
        BY <2>1, <1>4, <1>n DEF Tracks, Recorded
      <3> QED BY <3>1, <3>2, <1>1
    <2>2. CASE k + 1 = n
      <3>1. i = Len(s)
        <4> SUFFICES ASSUME i < Len(s) PROVE FALSE
          BY <1>2
        <4>1. i + 1 \in 1 .. Len(s)
          BY <1>2
        <4>2. s[i + 1].at < n /\ s[i + 1].at \in Nat
          BY <4>1, <1>n, SavedFacts
        <4> QED BY <4>2, <2>2, <1>4, <1>1
      <3>2. k + 2 = n + 1 /\ k + 1 \in 1 .. n
        BY <2>2, <1>1
      <3> QED BY <3>1, <3>2, <2>2, <1>1, <1>n
    <2> QED BY <2>1, <2>2, <1>1, <1>4
  <1>5. Tracks(s, models, r, n + 1)
    BY <1>2, <1>3, <1>4 DEF Tracks, Recorded
  <1> QED BY <1>5, <1>r, <1>n

\* What goes back has all its models, and is what it was.
LEMMA RestoredFacts ==
    ASSUME NEW m \in Machines, Restorable(m), m.models \subseteq machine.models
    PROVE  restoreKept(m) = m /\ m.models = machine.models
  <1>1. m.models = machine.models
    BY DEF Restorable
  <1>2. [m EXCEPT !.models = m.models] = m
    BY DEF Machines
  <1> QED BY <1>1, <1>2 DEF restoreKept

LEMMA SlotKeeps ==
    ASSUME HistoryIInv, SlotRecorded, slot' = slot, machine.models \subseteq machine'.models
    PROVE  SlotRecorded'
  <1> SUFFICES ASSUME slot # NoHistory
               PROVE  /\ slot.kept.models \subseteq machine'.models
                      /\ slot.kept = slot.past[Len(slot.past)]
                      /\ slot.history # NoHistory => IdleRecorded(slot.history, slot.past, machine'.models)
    BY DEF SlotRecorded
  <1>1. ASSUME slot.history # NoHistory PROVE IdleRecorded(slot.history, slot.past, machine'.models)
    <2>1. HistoryRight(slot.history) /\ IdleRecorded(slot.history, slot.past, machine.models)
      BY <1>1 DEF HistoryIInv, SlotRight, SlotRecorded
    <2>2. slot.history.saved \in Seq(Saved) /\ slot.history.position \in Nat
      BY <2>1, HistoryFacts DEF HistoryRight
    <2>3. slot.history.position <= slot.history.position
      BY <2>2
    <2>4. Tracks(slot.history.saved, machine'.models, slot.past, slot.history.position)
      BY <2>1, <2>2, <2>3, SameRecorded DEF IdleRecorded
    <2> QED BY <2>1, <2>4 DEF IdleRecorded
  <1> QED BY <1>1 DEF SlotRecorded

\* A piece that starts has run nothing.
LEMMA NothingRan ==
    ASSUME piece' \in Nat, fuel' = piece', steps' = 0
    PROVE  Ran' = 0
  <1>1. Ran' = piece' - piece' + 0
    BY DEF Ran
  <1>2. \A x \in Nat : x - x + 0 = 0
    OBVIOUS
  <1> QED BY <1>1, <1>2, Zenon

LEMMA RunRecords ==
    ASSUME RecordIInv, NEW q \in Quanta, NEW f \in Fuels, run(q, f)
    PROVE  RecordIInv'
  <1>1. HistoryIInv /\ HistoryIInv' /\ SlotRecorded
    BY RunStep DEF RecordIInv
  <1>2. /\ mode = "idle" /\ mode' = "run" /\ quantum' = q /\ steps' = 0 /\ fuel' = piece'
        /\ machine' = machine /\ slot' = slot /\ past' = past
        /\ Keeps => history' = push(refreshed(history), machine, q)
        /\ ~Keeps => history' = history
    BY DEF run, StartPiece
  <1>3. machine = past[Len(past)] /\ machine \in Machines /\ past \in Seq(Machines) /\ Len(machine.did) \in Nat
    BY <1>1, <1>2, MachineFacts DEF RecordIInv, HistoryIInv
  <1>4. Ran' = 0
    BY <1>1, <1>2, NothingRan DEF HistoryIInv, CountsRight
  <1>5. ASSUME Keeps
        PROVE  /\ Len(past) = history'.position + 1 + 0 /\ Tracks(history'.saved, machine.models, past, Len(past))
               /\ history'.saved[Len(history'.saved)].quantum = q
    <2>1. HistoryRight(history) /\ IdleRecorded(history, past, machine.models) /\ q \in Nat \ {0}
      BY <1>1, <1>2, <1>5, HistoryAssumption DEF RecordIInv, HistoryIInv
    <2>2. history.position \in Nat /\ history.saved \in Seq(Saved) /\ Len(past) = history.position + 1
      BY <2>1, HistoryFacts DEF HistoryRight, IdleRecorded
    <2>r. PICK r : r = refreshed(history)
      OBVIOUS
    <2>e. PICK e : e = [at |-> history.position, quantum |-> q, kept |-> machine]
      OBVIOUS
    <2>3. /\ history'.position = history.position /\ history'.saved[Len(history'.saved)] = e
          /\ EndsWith(history', r, e)
      BY <2>1, <2>r, <2>e, <1>2, <1>3, <1>5, StartsRight
    <2>4. Open(r) /\ r.position = history.position
      BY <2>1, <2>r, RefreshedOpen
    <2>5. PICK j : Prefix(r.saved, history.saved, j) /\ (j < Len(history.saved) => history.position <= history.saved[j + 1].at)
      BY <2>1, <2>r, RefreshedOpen
    <2>6. Tracks(r.saved, machine.models, past, history.position)
      BY <2>1, <2>2, <2>5, PrefixRecorded DEF IdleRecorded
    <2>7. e \in Saved /\ e.at = history.position /\ e.kept = machine /\ e.quantum = q
      BY <2>1, <2>2, <2>e, <1>3 DEF Saved
    <2>8. e.kept.models \subseteq machine.models /\ e.kept = past[history.position + 1]
      BY <2>2, <2>7, <1>3
    <2>9. Tracks(history'.saved, machine.models, past, history.position + 1)
      BY <2>3, <2>4, <2>6, <2>7, <2>8, EndsRecorded
    <2> QED BY <2>2, <2>3, <2>7, <2>9
  <1>6. RunRecorded'
    <2>1. Keeps' => Keeps
      BY <1>2 DEF Keeps
    <2> QED BY <2>1, <1>2, <1>4, <1>5 DEF RunRecorded
  <1>7. SlotRecorded'
    BY <1>1, <1>2, SlotKeeps
  <1> QED BY <1>1, <1>2, <1>3, <1>6, <1>7 DEF RecordIInv, AgainRecorded

LEMMA InstructionRecords ==
    ASSUME Faults \subseteq {0}, RecordIInv, instruction \/ faulty
    PROVE  RecordIInv'
  <1>1. HistoryIInv /\ HistoryIInv' /\ SlotRecorded /\ CountsRight /\ machine \in Machines /\ past \in Seq(Machines)
    BY InstructionStep DEF RecordIInv, HistoryIInv
  <1>2. /\ UNCHANGED <<history, slot, mode, quantum, left, since, piece, apart, target>>
        /\ mode # "idle" /\ steps < fuel /\ Remember(machine')
    BY DEF instruction, faulty
  <1>3. /\ steps \in Nat /\ fuel \in Nat /\ piece \in Nat /\ fuel <= piece /\ quantum \in Nat \ {0}
        /\ steps <= Len(machine.did) /\ piece <= left /\ left \in Nat /\ target \in Nat
    BY <1>1, <1>2 DEF RecordIInv, CountsRight
  <1>4. machine' = Ahead(machine, quantum)
    BY DEF instruction, faulty, Ahead
  <1>5. machine' \in Machines /\ machine'.models = machine.models /\ Len(machine'.did) = Len(machine.did) + 1
    <2>1. /\ ranNext(machine, quantum) \in Machines /\ ranNext(machine, quantum).models = machine.models
          /\ [ranNext(machine, quantum) EXCEPT !.turnUsed = 0] \in Machines
          /\ [ranNext(machine, quantum) EXCEPT !.turnUsed = 0].models = machine.models
          /\ Len(ranNext(machine, quantum).did) = Len(machine.did) + 1
      BY <1>1, <1>3, RanFacts
    <2>2. [ranNext(machine, quantum) EXCEPT !.turnUsed = 0].did = ranNext(machine, quantum).did
      BY <2>1 DEF Machines
    <2> QED BY <2>1, <2>2, <1>4 DEF Ahead
  <1>6. Len(machine.did) \in Nat
    BY <1>1, MachineFacts
  <1>7. steps' <= Len(machine'.did) /\ Ran' = Ran + 1 /\ Ran \in Nat /\ Ran < piece
    <2>1. CASE instruction
      BY <2>1, <1>2, <1>3, <1>5, <1>6 DEF instruction, Ran
    <2>2. CASE faulty
      <3>1. steps = 0 /\ steps' = 0 /\ fuel' = fuel - 1
        BY <2>2, <1>3, <1>6 DEF faulty
      <3> QED BY <3>1, <1>2, <1>3, <1>5, <1>6 DEF Ran
    <2> QED BY <2>1, <2>2
  <1> HIDE DEF Ran
  <1>8. Len(past) \in Nat /\ Len(past) > 0
    BY <1>1 DEF HistoryIInv
  <1>9. CASE mode = "again"
    <2>1. past' = past
      BY <1>2, <1>9 DEF Remember
    <2> DEFINE f == indexOf(history, target)
               k == target - left + Ran
    <2>2. /\ Keeps /\ Len(history.saved) > 0 /\ history.saved[1].at <= target
      BY <1>1, <1>9 DEF HistoryIInv, AgainRight
    <2>3. history.saved \in Seq(Saved)
      BY <2>2, <1>1, HistoryFacts DEF HistoryIInv, HistoryRight
    <2>4. /\ f \in 1 .. Len(history.saved) /\ history.saved[f].at <= target
          /\ f < Len(history.saved) => target < history.saved[f + 1].at
      BY <2>2, <2>3, <1>3, IndexFacts
    <2>5. /\ Len(past) = target + 1 /\ Tracks(history.saved, machine.models, past, Len(past))
          /\ quantum = history.saved[f].quantum /\ history.saved[f].at + left <= target
          /\ machine = past[target + 1 - left + Ran]
      BY <1>9 DEF RecordIInv, AgainRecorded
    <2>6. Len(history.saved) \in Nat /\ history.saved[f].at \in Nat
          /\ (f < Len(history.saved) => history.saved[f + 1].at \in Nat)
      <3>1. f < Len(history.saved) => f + 1 \in 1 .. Len(history.saved)
        BY <2>3, <2>4
      <3> QED BY <3>1, <2>3, <2>4, SavedFacts
    <2> HIDE DEF f
    <2>7. /\ k \in Nat /\ history.saved[f].at <= k /\ k + 1 < Len(past) /\ k + 1 <= target
          /\ target + 1 - left + Ran = k + 1 /\ target + 1 - left + (Ran + 1) = k + 2
      BY <2>5, <2>6, <1>3, <1>7
    <2>8. f < Len(history.saved) => k + 1 < history.saved[f + 1].at
      BY <2>4, <2>6, <2>7, <1>3
    <2> HIDE DEF k
    <2>9. past[k + 2] = Ahead(past[k + 1], history.saved[f].quantum)
      BY <2>4, <2>5, <2>7, <2>8 DEF Tracks, Recorded
    <2>10. machine' = past'[target' + 1 - left' + Ran']
      BY <2>1, <2>5, <2>7, <2>9, <1>2, <1>4, <1>7
    <2>11. AgainRecorded'
      BY <2>1, <2>5, <2>10, <1>2, <1>5 DEF AgainRecorded, f
    <2>12. SlotRecorded'
      BY <1>1, <1>2, <1>5, SlotKeeps
    <2> QED BY <2>11, <2>12, <1>1, <1>2, <1>7, <1>9 DEF RecordIInv, RunRecorded
  <1>10. CASE mode # "again"
    <2>1. mode = "run" /\ machine = past[Len(past)] /\ mode' = "run"
      BY <1>1, <1>2, <1>10 DEF RecordIInv, HistoryIInv
    <2>2. CASE Keeps
      <3>1. past' = Append(past, machine')
        BY <2>2, <1>2, <1>10 DEF Remember
      <3>2. Len(past') = Len(past) + 1 /\ past'[Len(past')] = machine'
        BY <3>1, <1>1, <1>5
      <3>3. /\ Len(past) = history.position + 1 + Ran /\ Tracks(history.saved, machine.models, past, Len(past))
            /\ history.saved[Len(history.saved)].quantum = quantum
        BY <2>1, <2>2 DEF RecordIInv, RunRecorded
      <3>4. HistoryRight(history) /\ Len(history.saved) > 0
        BY <2>1, <2>2, <1>1 DEF HistoryIInv, RunRight
      <3>5. history.saved \in Seq(Saved) /\ history.position \in Nat
            /\ \A i \in 1 .. Len(history.saved) : history.saved[i].at \in Nat
        BY <3>4, HistoryFacts DEF HistoryRight
      <3>6. \A i \in 1 .. Len(history.saved) : history.saved[i].at < Len(past)
        BY <3>3, <3>4, <3>5, <1>7 DEF HistoryRight
      <3>7. Tracks(history.saved, machine.models, past', Len(past) + 1)
        BY <3>1, <3>3, <3>4, <3>5, <3>6, <2>1, <1>1, <1>4, <1>5, GrowRecorded
      <3>8. Len(past') = history.position + 1 + Ran'
        <4>1. Len(past') = Len(past) + 1 /\ Len(past) = history.position + 1 + Ran
          BY <3>2, <3>3
        <4>2. Ran' = Ran + 1 /\ Ran \in Nat /\ history.position \in Nat
          BY <3>5, <1>7
        <4>3. history.position + 1 + (Ran + 1) = (history.position + 1 + Ran) + 1
          BY <4>2
        <4> QED BY <4>1, <4>2, <4>3, Zenon
      <3>9. RunRecorded'
        BY <3>2, <3>3, <3>7, <3>8, <1>2, <1>5 DEF RunRecorded
      <3>10. SlotRecorded'
        BY <1>1, <1>2, <1>5, SlotKeeps
      <3> QED BY <3>2, <3>9, <3>10, <2>1, <1>1, <1>7 DEF RecordIInv, AgainRecorded
    <2>3. CASE ~Keeps
      <3>1. past' = <<machine'>>
        BY <2>3, <1>2, <1>10 DEF Remember
      <3>2. past'[Len(past')] = machine'
        BY <3>1
      <3>3. ~Keeps'
        BY <2>3, <1>2 DEF Keeps
      <3>4. SlotRecorded'
        BY <1>1, <1>2, <1>5, SlotKeeps
      <3> QED BY <3>2, <3>3, <3>4, <2>1, <1>1, <1>7 DEF RecordIInv, RunRecorded, AgainRecorded
    <2> QED BY <2>2, <2>3
  <1> QED BY <1>9, <1>10

\* The last of what was may change, which is no part of what is recorded.
LEMMA IdleChanges ==
    ASSUME NEW h, NEW models, NEW more, NEW p \in Seq(Machines), NEW m \in Machines, HistoryRight(h),
           Tracks(h.saved, models, p, h.position), Len(p) = h.position + 1, models \subseteq more
    PROVE  /\ IdleRecorded(h, [p EXCEPT ![Len(p)] = m], more)
           /\ [p EXCEPT ![Len(p)] = m][Len([p EXCEPT ![Len(p)] = m])] = m
  <1>1. h.saved \in Seq(Saved) /\ h.position \in Nat /\ h.position <= h.position /\ p # <<>>
    BY HistoryFacts DEF HistoryRight
  <1>r. PICK r : r = [p EXCEPT ![Len(p)] = m]
    OBVIOUS
  <1>2. Len(r) = Len(p) /\ r[Len(p)] = m /\ \A i \in 1 .. Len(p) - 1 : r[i] = p[i]
    BY <1>1, <1>r, LastFacts
  <1>3. \A i \in 1 .. h.position : r[i] = p[i]
    BY <1>1, <1>2
  <1>4. Tracks(h.saved, more, r, h.position)
    BY <1>1, <1>3, SameRecorded
  <1> QED BY <1>2, <1>4, <1>r DEF IdleRecorded

LEMMA StopsRecords ==
    ASSUME RecordIInv, stops
    PROVE  RecordIInv'
  <1>1. /\ HistoryIInv /\ HistoryIInv' /\ SlotRecorded /\ machine \in Machines
        /\ past \in Seq(Machines) /\ past # <<>> /\ machine' \in Machines
    BY StopsStep DEF RecordIInv, HistoryIInv
  <1>2. /\ mode = "run" /\ mode' = "idle" /\ machine' = [machine EXCEPT !.turnUsed = 0] /\ slot' = slot
        /\ past' = [past EXCEPT ![Len(past)] = machine']
        /\ Keeps => history' = advanced(history, machine, quantum, Ran, FALSE)
        /\ ~Keeps => history' = history
    BY DEF stops
  <1>3. machine'.models = machine.models
    BY <1>1, <1>2, MachineFacts
  <1>4. past'[Len(past')] = machine'
    BY <1>1, <1>2, LastFacts
  <1>5. ASSUME Keeps PROVE IdleRecorded(history', past', machine'.models)
    <2>1. FALSE \in BOOLEAN
      OBVIOUS
    <2>2. AdvancedTo(history', history, [at |-> history.position + Ran, quantum |-> quantum, kept |-> machine],
                     Ran, Far(history, Ran, FALSE))
      BY <2>1, <1>1, <1>2, <1>5, RunAdvances
    <2>3. HistoryRight(history') /\ history'.saved = history.saved /\ history'.position = history.position + Ran
      BY <2>2 DEF AdvancedTo, Far
    <2>4. Len(past) = history.position + 1 + Ran /\ Tracks(history.saved, machine.models, past, Len(past))
      BY <1>2, <1>5 DEF RecordIInv, RunRecorded
    <2>5. /\ history'.saved \in Seq(Saved) /\ history'.position \in Nat /\ Len(past) \in Nat
          /\ history.position \in Nat /\ Ran \in Nat
      <3>1. HistoryRight(history)
        BY <1>1, <1>5 DEF HistoryIInv
      <3>2. Ran \in Nat
        BY <1>1 DEF HistoryIInv, CountsRight, Ran
      <3> QED BY <3>1, <3>2, <2>3, <1>1, HistoryFacts DEF HistoryRight
    <2> HIDE DEF Ran
    <2>6. Len(past) = history'.position + 1 /\ history'.position <= Len(past)
      BY <2>3, <2>4, <2>5
    <2>7. Tracks(history'.saved, machine.models, past, history'.position)
      <3>1. \A i \in 1 .. history'.position : past[i] = past[i]
        OBVIOUS
      <3> QED BY <3>1, <2>3, <2>4, <2>5, <2>6, SameRecorded
    <2> QED BY <2>3, <2>6, <2>7, <1>1, <1>2, <1>3, IdleChanges
  <1>6. SlotRecorded'
    BY <1>1, <1>2, <1>3, SlotKeeps
  <1>7. Keeps' => Keeps
    BY <1>2 DEF Keeps
  <1> QED BY <1>1, <1>2, <1>4, <1>5, <1>6, <1>7 DEF RecordIInv, RunRecorded, AgainRecorded

\* What stays after a step back is what was.
LEMMA BackRecorded ==
    ASSUME NEW h, NEW place \in Nat, NEW models, NEW p, HistoryRight(h), Len(h.saved) > 0,
           h.saved[1].at <= place, place <= h.position,
           Tracks(h.saved, models, p, place), Len(p) = place + 1
    PROVE  IdleRecorded(Back(h, place), p, models)
  <1>1. h.saved \in Seq(Saved) /\ Len(h.saved) \in Nat /\ \A i \in 1 .. Len(h.saved) : h.saved[i].at \in Nat
    BY HistoryFacts DEF HistoryRight
  <1>x. PICK x : x = indexOf(h, place)
    OBVIOUS
  <1>2. x \in 1 .. Len(h.saved) /\ (x < Len(h.saved) => place < h.saved[x + 1].at)
    BY <1>1, <1>x, IndexFacts
  <1>3. x < Len(h.saved) => place <= h.saved[x + 1].at
    <2>1. x < Len(h.saved) => x + 1 \in 1 .. Len(h.saved)
      BY <1>1, <1>2
    <2> QED BY <2>1, <1>1, <1>2
  <1>4. x \in 0 .. Len(h.saved)
    BY <1>1, <1>2
  <1>5. Prefix(SubSeq(h.saved, 1, x), h.saved, x)
    BY <1>1, <1>4, PrefixFacts
  <1>6. Tracks(SubSeq(h.saved, 1, x), models, p, place)
    BY <1>1, <1>3, <1>5, PrefixRecorded
  <1>7. Back(h, place).position = place /\ Back(h, place).saved = SubSeq(h.saved, 1, x)
    BY <1>x, BackRight
  <1> QED BY <1>6, <1>7 DEF IdleRecorded

LEMMA EndsRecords ==
    ASSUME RecordIInv, pieceEnds
    PROVE  RecordIInv'
  <1>1. /\ HistoryIInv /\ HistoryIInv' /\ SlotRecorded /\ machine \in Machines /\ CountsRight /\ CountsRight'
        /\ past \in Seq(Machines) /\ past # <<>> /\ mode \in {"idle", "run", "again"}
    BY EndsStep DEF RecordIInv, HistoryIInv
  <1>2. /\ mode # "idle" /\ steps = fuel /\ machine' = machine /\ slot' = slot /\ past' = past
        /\ \/ left <= piece /\ mode' = "idle"
           \/ /\ left > piece /\ UNCHANGED <<mode, quantum, target>>
              /\ left' = left - piece /\ fuel' = piece' /\ steps' = 0
        /\ history' = IF ~Keeps THEN history
                      ELSE IF mode = "run" THEN advanced(history, machine, quantum, Ran, TRUE)
                      ELSE IF left <= piece THEN Back(history, target)
                      ELSE history
    BY DEF pieceEnds, StartPiece
  <1>3. Ran = piece /\ Ran \in Nat /\ quantum \in Nat \ {0} /\ left \in Nat /\ target \in Nat /\ piece <= left
    BY <1>1, <1>2 DEF CountsRight, Ran
  <1>4. left > piece => Ran' = 0
    <2>1. piece' \in Nat
      BY <1>1 DEF CountsRight
    <2>2. left > piece => fuel' = piece' /\ steps' = 0
      BY <1>2, <1>3
    <2> QED BY <2>1, <2>2, NothingRan
  <1> HIDE DEF Ran
  <1>5. SlotRecorded'
    BY <1>1, <1>2, SlotKeeps
  <1>6. Len(machine.did) \in Nat
    BY <1>1, MachineFacts
  <1>7. CASE mode = "run" /\ ~Keeps
    <2>1. history' = history /\ ~Keeps' /\ machine = past[Len(past)]
      BY <1>2, <1>7 DEF Keeps, RecordIInv
    <2>2. mode' # "idle" => steps' <= Len(machine.did)
      BY <1>2, <1>6
    <2>3. mode' # "again"
      BY <1>2, <1>7
    <2> QED BY <2>1, <2>2, <2>3, <1>1, <1>2, <1>5 DEF RecordIInv, RunRecorded, AgainRecorded
  <1>8. CASE mode = "run" /\ Keeps
    <2>e. PICK e : e = [at |-> history.position + Ran, quantum |-> quantum, kept |-> machine]
      OBVIOUS
    <2>1. TRUE \in BOOLEAN
      OBVIOUS
    <2>2. history' = advanced(history, machine, quantum, Ran, TRUE)
      BY <1>2, <1>8
    <2>3. AdvancedTo(history', history, e, Ran, Far(history, Ran, TRUE))
      BY <2>1, <2>2, <2>e, <1>1, <1>8, RunAdvances
    <2>4. HistoryRight(history) /\ HistoryRight(history') /\ history'.position = history.position + Ran
          /\ history'.every = history.every
      BY <2>3, <1>1, <1>8 DEF HistoryIInv, AdvancedTo
    <2>5. history.position \in Nat /\ history.saved \in Seq(Saved) /\ history'.saved \in Seq(Saved) /\ history' # NoHistory
      BY <2>4, HistoryFacts DEF HistoryRight
    <2>6. /\ machine = past[Len(past)] /\ Len(past) = history.position + 1 + Ran
          /\ Tracks(history.saved, machine.models, past, Len(past))
          /\ history.saved[Len(history.saved)].quantum = quantum
      BY <1>8 DEF RecordIInv, RunRecorded
    <2>7. /\ history'.position \in Nat /\ Len(past) = history'.position + 1 /\ history'.position <= Len(past)
          /\ Len(past) \in Nat
      <3>1. history.position + 1 + Ran = (history.position + Ran) + 1 /\ history.position + Ran \in Nat
        BY <2>5, <1>3
      <3> QED BY <3>1, <2>4, <2>6
    <2>8. /\ Tracks(history'.saved, machine.models, past, Len(past))
          /\ history'.saved[Len(history'.saved)].quantum = quantum
      <3>1. CASE ~Far(history, Ran, TRUE)
        <4>1. history'.saved = history.saved
          BY <2>3, <3>1 DEF AdvancedTo
        <4> QED BY <4>1, <2>6
      <3>2. CASE Far(history, Ran, TRUE)
        <4>1. PICK moved : /\ Open(moved) /\ moved.saved = history.saved /\ moved.position = history.position + Ran
                           /\ EndsWith(history', moved, e)
          BY <2>3, <3>2 DEF AdvancedTo
        <4>2. e \in Saved /\ e.at = moved.position /\ e.quantum = quantum /\ e.kept = machine
          <5>1. history.position + Ran \in Nat
            BY <2>5, <1>3
          <5> QED BY <5>1, <4>1, <2>e, <1>1, <1>3 DEF Saved
        <4>3. Tracks(moved.saved, machine.models, past, moved.position)
          <5>1. \A i \in 1 .. history'.position : past[i] = past[i]
            OBVIOUS
          <5>2. Tracks(history.saved, machine.models, past, history'.position)
            BY <5>1, <2>5, <2>6, <2>7, SameRecorded
          <5> QED BY <5>2, <4>1, <2>4
        <4>4. e.kept.models \subseteq machine.models /\ e.kept = past[moved.position + 1]
          BY <4>1, <4>2, <2>4, <2>6, <2>7
        <4>5. Tracks(history'.saved, machine.models, past, moved.position + 1)
          BY <4>1, <4>2, <4>3, <4>4, EndsRecorded
        <4>6. history'.saved[Len(history'.saved)] = e
          BY <2>3, <3>2 DEF AdvancedTo
        <4> QED BY <4>1, <4>2, <4>5, <4>6, <2>4, <2>7
      <3> QED BY <3>1, <3>2
    <2>9. CASE mode' = "idle"
      <3>1. \A i \in 1 .. history'.position : past[i] = past[i]
        OBVIOUS
      <3>2. Tracks(history'.saved, machine.models, past, history'.position)
        BY <3>1, <2>5, <2>7, <2>8, SameRecorded
      <3>3. IdleRecorded(history', past, machine.models)
        BY <3>2, <2>7 DEF IdleRecorded
      <3> QED BY <3>3, <2>6, <2>9, <1>1, <1>2, <1>5 DEF RecordIInv, RunRecorded, AgainRecorded
    <2>10. CASE mode' # "idle"
      <3>1. mode' = "run" /\ quantum' = quantum /\ steps' = 0 /\ Ran' = 0
        BY <2>10, <1>2, <1>4, <1>8
      <3>2. Len(past) = history'.position + 1 + 0
        BY <2>7
      <3>3. RunRecorded'
        BY <3>1, <3>2, <2>8, <1>2 DEF RunRecorded
      <3>4. steps' <= Len(machine'.did)
        BY <3>1, <1>2, <1>6
      <3> QED BY <3>1, <3>3, <3>4, <2>6, <1>1, <1>2, <1>5 DEF RecordIInv, AgainRecorded
    <2> QED BY <2>9, <2>10
  <1>9. CASE mode = "again"
    <2>1. /\ Keeps /\ HistoryRight(history) /\ Len(history.saved) > 0 /\ history.saved[1].at <= target
          /\ target <= history.position
      BY <1>1, <1>9 DEF HistoryIInv, AgainRight
    <2>2. history.saved \in Seq(Saved) /\ history.position \in Nat
      BY <2>1, HistoryFacts DEF HistoryRight
    <2>f. PICK f : f = indexOf(history, target)
      OBVIOUS
    <2>3. /\ Len(past) = target + 1 /\ Tracks(history.saved, machine.models, past, Len(past))
          /\ quantum = history.saved[f].quantum /\ history.saved[f].at + left <= target
          /\ machine = past[target + 1 - left + Ran]
      BY <2>f, <1>9 DEF RecordIInv, AgainRecorded
    <2>4. CASE left <= piece
      <3>1. mode' = "idle" /\ history' = Back(history, target)
        BY <2>1, <2>4, <1>2, <1>3, <1>9
      <3>2. target + 1 - left + Ran = Len(past)
        BY <2>3, <2>4, <1>3
      <3>3. Tracks(history.saved, machine.models, past, target)
        <4>1. target <= Len(past) /\ Len(past) \in Nat /\ \A i \in 1 .. target : past[i] = past[i]
          BY <2>3, <1>3
        <4> QED BY <4>1, <2>2, <2>3, <1>3, SameRecorded
      <3>4. IdleRecorded(history', past, machine.models)
        BY <3>1, <3>3, <2>1, <2>3, <1>3, BackRecorded
      <3>5. machine = past[Len(past)]
        BY <3>2, <2>3
      <3> QED BY <3>1, <3>4, <3>5, <1>1, <1>2, <1>5 DEF RecordIInv, RunRecorded, AgainRecorded
    <2>5. CASE ~(left <= piece)
      <3>1. /\ mode' = "again" /\ history' = history /\ quantum' = quantum /\ target' = target /\ left' = left - piece
            /\ steps' = 0 /\ Ran' = 0
        BY <2>1, <2>5, <1>2, <1>3, <1>4, <1>9
      <3>2. target + 1 - left + Ran = target + 1 - left' + 0 /\ left' \in Nat /\ left' <= left
        BY <3>1, <2>5, <1>3
      <3>3. history.saved[f].at + left' <= target
        <4>1. history.saved[f].at \in Nat
          <5>1. f \in 1 .. Len(history.saved)
            BY <2>f, <2>1, <2>2, <1>3, IndexFacts
          <5> QED BY <5>1, <2>2, SavedFacts
        <4> QED BY <4>1, <3>2, <2>3, <1>3
      <3>4. machine = past[target + 1 - left' + 0]
        BY <3>2, <2>3
      <3>5. AgainRecorded'
        BY <3>1, <3>3, <3>4, <2>3, <2>f, <1>2 DEF AgainRecorded
      <3>6. steps' <= Len(machine'.did)
        BY <3>1, <1>2, <1>6
      <3> QED BY <3>1, <3>5, <3>6, <1>1, <1>2, <1>5 DEF RecordIInv, RunRecorded
    <2> QED BY <2>4, <2>5
  <1> QED BY <1>1, <1>2, <1>7, <1>8, <1>9

LEMMA HostRecords ==
    ASSUME RecordIInv, hostWrites \/ \E model \in Models : attach(model)
    PROVE  RecordIInv'
  <1>1. /\ HistoryIInv /\ HistoryIInv' /\ SlotRecorded /\ machine \in Machines /\ machine' \in Machines
        /\ past \in Seq(Machines) /\ past # <<>>
    BY HostStep DEF RecordIInv, HistoryIInv
  <1>2. /\ mode = "idle" /\ mode' = "idle" /\ past' = [past EXCEPT ![Len(past)] = machine']
        /\ history' = history /\ slot' = slot
    BY DEF hostWrites, attach
  <1>3. machine.models \subseteq machine'.models
    <2>1. CASE hostWrites
      BY <2>1, <1>1, MachineFacts DEF hostWrites
    <2>2. ASSUME NEW model \in Models, attach(model) PROVE machine.models \subseteq machine'.models
      <3>1. machine' = [machine EXCEPT !.models = machine.models \cup {model}]
        BY <2>2 DEF attach
      <3>2. machine'.models = machine.models \cup {model}
        BY <3>1, <1>1 DEF Machines
      <3> QED BY <3>2
    <2> QED BY <2>1, <2>2
  <1>4. past'[Len(past')] = machine'
    BY <1>1, <1>2, LastFacts
  <1>5. ASSUME Keeps PROVE IdleRecorded(history', past', machine'.models)
    <2>1. HistoryRight(history) /\ IdleRecorded(history, past, machine.models)
      BY <1>1, <1>2, <1>5 DEF RecordIInv, HistoryIInv
    <2>2. Tracks(history.saved, machine.models, past, history.position) /\ Len(past) = history.position + 1
      BY <2>1 DEF IdleRecorded
    <2>3. IdleRecorded(history, [past EXCEPT ![Len(past)] = machine'], machine'.models)
      BY <2>1, <2>2, <1>1, <1>3, IdleChanges
    <2> QED BY <2>3, <1>2
  <1>6. SlotRecorded'
    BY <1>1, <1>2, <1>3, SlotKeeps
  <1> QED BY <1>1, <1>2, <1>4, <1>5, <1>6 DEF RecordIInv, RunRecorded, AgainRecorded, Keeps

\* A history that has nothing records nothing.
LEMMA FreshRecorded ==
    ASSUME NEW every, NEW limit, NEW m, NEW models
    PROVE  IdleRecorded(fresh(every, limit), <<m>>, models) /\ <<m>>[Len(<<m>>)] = m
  <1>1. fresh(every, limit).position = 0 /\ fresh(every, limit).saved = <<>> /\ Len(<<>>) = 0
    BY DEF fresh
  <1>2. Tracks(<<>>, models, <<m>>, 0)
    BY DEF Tracks, Known, Recorded
  <1> QED BY <1>1, <1>2 DEF IdleRecorded

LEMMA KeepRecords ==
    ASSUME RecordIInv, NEW every \in Everys, NEW limit \in Limits, keepHistory(every, limit)
    PROVE  RecordIInv'
  <1>1. HistoryIInv /\ HistoryIInv' /\ SlotRecorded
    BY KeepStep DEF RecordIInv
  <1>2. /\ mode = "idle" /\ mode' = "idle" /\ machine' = machine /\ slot' = slot /\ past' = <<machine>>
        /\ history' = fresh(Larger(every, 1), Larger(limit, 1))
    BY DEF keepHistory
  <1>3. IdleRecorded(history', past', machine'.models) /\ past'[Len(past')] = machine'
    BY <1>2, FreshRecorded
  <1>4. SlotRecorded'
    BY <1>1, <1>2, SlotKeeps
  <1> QED BY <1>1, <1>2, <1>3, <1>4 DEF RecordIInv, RunRecorded, AgainRecorded

LEMMA SaveRecords ==
    ASSUME RecordIInv, save
    PROVE  RecordIInv'
  <1>1. HistoryIInv /\ HistoryIInv'
    BY SaveStep DEF RecordIInv
  <1>2. /\ machine' = machine /\ history' = history /\ past' = past /\ mode = "idle" /\ mode' = mode
        /\ slot' = [kept |-> machine, history |-> history, past |-> past]
    BY DEF save, keep
  <1>3. slot'.kept = machine /\ slot'.history = history /\ slot'.past = past
    BY <1>2
  <1>4. SlotRecorded'
    BY <1>2, <1>3 DEF RecordIInv, SlotRecorded, Keeps
  <1> QED BY <1>1, <1>2, <1>4 DEF RecordIInv, RunRecorded, AgainRecorded, Keeps

LEMMA RestoreRecords ==
    ASSUME RecordIInv, restore
    PROVE  RecordIInv'
  <1>1. HistoryIInv /\ HistoryIInv' /\ SlotRecorded
    BY RestoreStep DEF RecordIInv
  <1>2. /\ mode = "idle" /\ mode' = "idle" /\ slot # NoHistory /\ Restorable(slot.kept)
        /\ machine' = restoreKept(slot.kept) /\ slot' = slot
        /\ history' = IF ~Keeps THEN NoHistory
                      ELSE IF slot.history # NoHistory THEN slot.history
                      ELSE fresh(history.every, history.limit)
        /\ past' = IF Keeps /\ slot.history # NoHistory THEN slot.past ELSE <<machine'>>
    BY DEF restore
  <1>3. /\ slot.kept \in Machines /\ slot.kept.models \subseteq machine.models
        /\ slot.kept = slot.past[Len(slot.past)]
        /\ slot.history # NoHistory => IdleRecorded(slot.history, slot.past, machine.models)
    BY <1>1, <1>2 DEF HistoryIInv, SlotRight, SlotRecorded
  <1>4. machine' = slot.kept /\ machine'.models = machine.models
    BY <1>2, <1>3, RestoredFacts
  <1>5. SlotRecorded'
    BY <1>1, <1>2, <1>4, SlotKeeps
  <1>6. past'[Len(past')] = machine'
    <2>1. CASE Keeps /\ slot.history # NoHistory
      BY <2>1, <1>2, <1>3, <1>4
    <2>2. CASE ~(Keeps /\ slot.history # NoHistory)
      BY <2>2, <1>2
    <2> QED BY <2>1, <2>2
  <1>7. ASSUME Keeps' PROVE IdleRecorded(history', past', machine'.models)
    <2>1. Keeps
      BY <1>2, <1>7 DEF Keeps
    <2>2. CASE slot.history # NoHistory
      BY <2>1, <2>2, <1>2, <1>3, <1>4
    <2>3. CASE slot.history = NoHistory
      BY <2>1, <2>3, <1>2, FreshRecorded
    <2> QED BY <2>2, <2>3
  <1> QED BY <1>1, <1>2, <1>5, <1>6, <1>7 DEF RecordIInv, RunRecorded, AgainRecorded

LEMMA BackRecords ==
    ASSUME RecordIInv, NEW count \in Counts, stepBack(count)
    PROVE  RecordIInv'
  <1>p. PICK place : place = history.position - count
    OBVIOUS
  <1>x. PICK x : x = indexOf(history, place)
    OBVIOUS
  <1>f. PICK from : from = history.saved[x]
    OBVIOUS
  <1>1. /\ HistoryIInv /\ HistoryIInv' /\ SlotRecorded /\ machine \in Machines
        /\ past \in Seq(Machines) /\ past # <<>> /\ CountsRight'
    BY BackStep DEF RecordIInv, HistoryIInv
  <1>2. /\ mode = "idle" /\ Keeps /\ history.saved # <<>> /\ count <= history.position
        /\ place >= history.saved[1].at /\ Restorable(from.kept) /\ machine' = restoreKept(from.kept) /\ slot' = slot
        /\ past' = IF count < Len(past) THEN SubSeq(past, 1, Len(past) - count) ELSE <<Head(past)>>
        /\ \/ /\ place > from.at /\ mode' = "again" /\ target' = place /\ quantum' = from.quantum
              /\ left' = place - from.at /\ fuel' = piece' /\ steps' = 0 /\ history' = history
           \/ /\ place = from.at /\ history' = Back(history, place) /\ mode' = mode
    BY <1>p, <1>x, <1>f, Zenon DEF stepBack, StartPiece
  <1>3. HistoryRight(history) /\ IdleRecorded(history, past, machine.models)
    BY <1>1, <1>2 DEF HistoryIInv, RecordIInv
  <1>4. /\ history.position \in Nat /\ history.saved \in Seq(Saved) /\ Len(history.saved) \in Nat
        /\ \A i \in 1 .. Len(history.saved) : history.saved[i].at \in Nat
    BY <1>3, HistoryFacts DEF HistoryRight
  <1>5. Len(history.saved) > 0 /\ count \in Nat \ {0} /\ place \in Nat /\ place + count = history.position
    BY <1>2, <1>4, <1>p, HistoryAssumption
  <1>6. history.saved[1].at <= place /\ place <= history.position /\ place + 1 <= history.position
    <2>1. 1 \in 1 .. Len(history.saved)
      BY <1>4, <1>5
    <2>2. history.saved[1].at \in Nat
      BY <2>1, <1>4
    <2> QED BY <2>2, <1>2, <1>4, <1>5
  <1>7. x \in 1 .. Len(history.saved) /\ from.at <= place
    BY <1>4, <1>5, <1>6, <1>x, <1>f, IndexFacts
  <1>8. from.at \in Nat /\ from.quantum \in Nat \ {0} /\ from.kept \in Machines
    BY <1>4, <1>7, <1>f, SavedFacts
  <1>9. Len(past) = history.position + 1 /\ Tracks(history.saved, machine.models, past, history.position)
    BY <1>3 DEF IdleRecorded
  <1>10. /\ Len(past') = place + 1 /\ \A i \in 1 .. place + 1 : past'[i] = past[i]
    <2>1. count < Len(past) /\ Len(past) - count = place + 1 /\ place + 1 \in 0 .. Len(past)
      BY <1>4, <1>5, <1>9
    <2>2. past' = SubSeq(past, 1, place + 1)
      BY <2>1, <1>2
    <2> QED BY <2>1, <2>2, <1>1
  <1>11. machine' = from.kept /\ machine'.models = machine.models /\ machine' = past'[from.at + 1]
    <2>1. from.kept.models \subseteq machine.models
      BY <1>7, <1>9, <1>f DEF Tracks, Known
    <2>2. from.at < history.position /\ from.at + 1 \in 1 .. place + 1
      BY <1>4, <1>5, <1>6, <1>7, <1>8
    <2>3. from.kept = past[from.at + 1]
      BY <2>2, <1>7, <1>9, <1>f DEF Tracks, Recorded
    <2>4. restoreKept(from.kept) = from.kept /\ from.kept.models = machine.models
      BY <2>1, <1>2, <1>8, RestoredFacts
    <2>5. past'[from.at + 1] = past[from.at + 1]
      BY <2>2, <1>10
    <2> QED BY <2>3, <2>4, <2>5, <1>2
  <1>12. Tracks(history.saved, machine.models, past', place + 1)
    <2>1. place + 1 \in Nat
      BY <1>5
    <2> QED BY <2>1, <1>4, <1>6, <1>9, <1>10, SameRecorded
  <1>13. SlotRecorded'
    BY <1>1, <1>2, <1>11, SlotKeeps
  <1>14. CASE /\ place > from.at /\ mode' = "again" /\ target' = place /\ quantum' = from.quantum
              /\ left' = place - from.at /\ fuel' = piece' /\ steps' = 0 /\ history' = history
    <2>1. Ran' = 0
      BY <1>1, <1>14, NothingRan DEF CountsRight
    <2>2. place + 1 - left' + 0 = from.at + 1 /\ from.at + left' <= place
      BY <1>5, <1>8, <1>14
    <2>3. machine' = past'[target' + 1 - left' + Ran']
      BY <2>1, <2>2, <1>11, <1>14
    <2>4. AgainRecorded'
      BY <2>2, <2>3, <1>10, <1>11, <1>12, <1>14, <1>x, <1>f DEF AgainRecorded
    <2>5. steps' <= Len(machine'.did)
      <3>1. Len(machine'.did) \in Nat
        BY <1>8, <1>11, MachineFacts
      <3> QED BY <3>1, <1>14
    <2> QED BY <2>4, <2>5, <1>1, <1>13, <1>14 DEF RecordIInv, RunRecorded
  <1>15. CASE place = from.at /\ history' = Back(history, place) /\ mode' = mode
    <2>1. Tracks(history.saved, machine.models, past', place)
      <3>1. place <= place + 1 /\ place + 1 \in Nat /\ \A i \in 1 .. place : past'[i] = past'[i]
        BY <1>5
      <3> QED BY <3>1, <1>4, <1>5, <1>12, SameRecorded
    <2>2. IdleRecorded(history', past', machine'.models)
      BY <2>1, <1>3, <1>5, <1>6, <1>10, <1>11, <1>15, BackRecorded
    <2>3. machine' = past'[Len(past')]
      BY <1>10, <1>11, <1>15
    <2> QED BY <2>2, <2>3, <1>1, <1>2, <1>13, <1>15 DEF RecordIInv, RunRecorded, AgainRecorded
  <1> QED BY <1>2, <1>14, <1>15

LEMMA InitRecords == Init => RecordIInv
  <1> SUFFICES ASSUME Init PROVE RecordIInv
    OBVIOUS
  <1>1. HistoryIInv
    BY InitRight
  <1>2. machine = past[Len(past)]
    BY DEF Init
  <1> QED BY <1>1, <1>2 DEF Init, RecordIInv, Keeps, RunRecorded, AgainRecorded, SlotRecorded

LEMMA StepRecords ==
    ASSUME Faults \subseteq {0}
    PROVE  RecordIInv /\ [Next]_vars => RecordIInv'
  <1> SUFFICES ASSUME RecordIInv, [Next]_vars PROVE RecordIInv'
    OBVIOUS
  <1>1. CASE UNCHANGED vars
    <2>1. HistoryIInv'
      BY <1>1, StepRight DEF RecordIInv
    <2> QED BY <2>1, <1>1 DEF RecordIInv, Keeps, Ran, RunRecorded, AgainRecorded, SlotRecorded, vars, running
  <1>2. CASE Next
    BY <1>2, RunRecords, InstructionRecords, StopsRecords, EndsRecords, HostRecords, KeepRecords, SaveRecords,
       RestoreRecords, BackRecords
       DEF Next
  <1> QED BY <1>1, <1>2

\* Machine.stepBack undoes the last instructions as if they had never run, for any threads,
\* quanta, fuel, `every', limit and counts, and any order of runs, stops, writes of the host,
\* saves, restores and steps back, where no guest faults but on its first instruction.  With a
\* later fault it does not hold, as the run of MCFaults shows: what runPreemptive ran before the
\* fault is not counted.
THEOREM AlwaysStepsBack ==
    ASSUME Faults \subseteq {0}
    PROVE  Spec => []StepsBack
  <1>1. RecordIInv /\ [Next]_vars => RecordIInv'
    BY StepRecords
  <1> QED BY <1>1, InitRecords, ImpliesStepsBack, PTL DEF Spec
=============================================================================

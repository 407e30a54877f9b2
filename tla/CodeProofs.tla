----------------------------- MODULE CodeProofs -----------------------------
(***************************************************************************)
(* Proofs about what native code computes and how long it runs.  Ops: it   *)
(* gives what the expression means for the guest, for host words, guest    *)
(* words and bytes of any width and at all of their values.  Budget: the   *)
(* copy goes on at every check at which the range would have, for any      *)
(* range and any budget.                                                   *)
(***************************************************************************)
EXTENDS Ops, Budget, TLAPS, WellFoundedInduction, FiniteSetTheorems, SequenceTheorems

-----------------------------------------------------------------------------
(* Numbers. *)

\* A set of numbers that is not empty has a least one.
LEMMA Least ==
    ASSUME NEW S \in SUBSET Nat, S # {}
    PROVE  \E x \in S : \A y \in S : x <= y
<1> DEFINE Less == {ss \in Nat \X Nat : ss[1] < ss[2]}
<1>1. IsWellFoundedOn(Less, Nat)
  BY NatLessThanWellFounded, Zenon DEF OpToRel
<1>2. \E x \in S : \A y \in S : ~(<<y, x>> \in Less)
  <2> HIDE DEF Less
  <2> QED BY <1>1, WFMin, Zenon
<1>3. PICK x \in S : \A y \in S : ~(<<y, x>> \in Less)
  BY <1>2
<1>4. ASSUME NEW y \in S PROVE x <= y
  <2>1. <<y, x>> \in Nat \X Nat
    OBVIOUS
  <2>2. ~(<<y, x>>[1] < <<y, x>>[2])
    BY <1>3, <2>1
  <2> QED BY <2>2
<1> QED
  BY <1>4

\* Induction up to a bound: a set that has 0, and the next of each of its members, has all.
LEMMA UpTo ==
    ASSUME NEW N \in Nat, NEW S, 0 \in S, \A n \in 0 .. N - 1 : n \in S => n + 1 \in S
    PROVE  0 .. N \subseteq S
<1> DEFINE Out == {n \in 0 .. N : n \notin S}
<1> SUFFICES ASSUME Out # {} PROVE FALSE
  OBVIOUS
<1>1. Out \in SUBSET Nat
  OBVIOUS
<1>2. PICK x \in Out : \A y \in Out : x <= y
  BY <1>1, Least
<1>3. x # 0 /\ x - 1 \in 0 .. N - 1 /\ x - 1 \notin Out
  BY <1>2
<1> QED BY <1>3

\* There is a function that its equation is true of, made one power at a time.
LEMMA Pow2Exists ==
    \E f : f = [n \in 0 .. HostBits |-> IF n = 0 THEN 1 ELSE 2 * f[n - 1]]
<1> DEFINE Is(f, m) == f = [n \in 0 .. m |-> IF n = 0 THEN 1 ELSE 2 * f[n - 1]]
           S == {m \in Nat : \E f : Is(f, m)}
<1>1. 0 \in S
  <2>1. Is([n \in 0 .. 0 |-> 1], 0)
    OBVIOUS
  <2> QED BY <2>1
<1>2. ASSUME NEW m \in 0 .. HostBits - 1, m \in S
      PROVE  m + 1 \in S
  <2>1. PICK f : Is(f, m)
    BY <1>2
  <2> DEFINE g == [n \in 0 .. m + 1 |-> IF n = m + 1 THEN 2 * f[m] ELSE f[n]]
  <2>2. Is(g, m + 1)
    BY <2>1
  <2>3. m + 1 \in Nat
    OBVIOUS
  <2> HIDE DEF Is, g
  <2> QED BY <2>2, <2>3
<1>3. HostBits \in S
  <2> HIDE DEF S
  <2> QED BY <1>1, <1>2, UpTo, OpsAssumption
<1> QED BY <1>3

\* Pow2 is what its equation says.
LEMMA Pow2Is ==
    Pow2 = [n \in 0 .. HostBits |-> IF n = 0 THEN 1 ELSE 2 * Pow2[n - 1]]
BY Pow2Exists, Zenon DEF Pow2

\* Powers are not 0, the first is 1 and each is twice the one before.
LEMMA Pow2Type ==
    /\ Pow2 \in [0 .. HostBits -> Nat \ {0}]
    /\ Pow2[0] = 1
    /\ \A n \in 0 .. HostBits - 1 : Pow2[n + 1] = 2 * Pow2[n]
<1>1. DOMAIN Pow2 = 0 .. HostBits /\ Pow2[0] = 1
  BY Pow2Is, OpsAssumption
<1>2. ASSUME NEW n \in 0 .. HostBits - 1 PROVE Pow2[n + 1] = 2 * Pow2[n]
  <2>1. n + 1 \in 0 .. HostBits /\ n + 1 # 0 /\ (n + 1) - 1 = n
    BY OpsAssumption
  <2>2. ASSUME NEW m \in 0 .. HostBits, m # 0 PROVE Pow2[m] = 2 * Pow2[m - 1]
    BY Pow2Is, <2>2, Zenon
  <2>3. Pow2[n + 1] = 2 * Pow2[(n + 1) - 1]
    BY <2>1, <2>2
  <2> QED BY <2>1, <2>3
<1> DEFINE S == {n \in 0 .. HostBits : Pow2[n] \in Nat \ {0}}
<1>3. 0 \in S
  BY <1>1, OpsAssumption
<1>4. ASSUME NEW n \in 0 .. HostBits - 1, n \in S PROVE n + 1 \in S
  BY <1>2, <1>4, OpsAssumption
<1>5. 0 .. HostBits \subseteq S
  <2> HIDE DEF S
  <2> QED BY <1>3, <1>4, UpTo, OpsAssumption
<1>6. Pow2 = [n \in 0 .. HostBits |-> Pow2[n]]
  BY Pow2Is
<1> QED BY <1>1, <1>2, <1>5, <1>6

\* A power of a sum is a product.
LEMMA Pow2Sum ==
    ASSUME NEW a \in 0 .. HostBits, NEW b \in 0 .. HostBits, a + b <= HostBits
    PROVE  Pow2[a + b] = Pow2[a] * Pow2[b]
<1> DEFINE N == HostBits - a
           S == {n \in 0 .. N : Pow2[a + n] = Pow2[a] * Pow2[n]}
<1>1. N \in Nat /\ b \in 0 .. N
  BY OpsAssumption
<1>2. 0 \in S
  BY <1>1, Pow2Type
<1>3. ASSUME NEW n \in 0 .. N - 1, n \in S PROVE n + 1 \in S
  <2>1. a + n \in 0 .. HostBits - 1 /\ n \in 0 .. HostBits - 1 /\ (a + n) + 1 = a + (n + 1)
    BY OpsAssumption
  <2>2. Pow2[a + (n + 1)] = 2 * Pow2[a + n] /\ Pow2[n + 1] = 2 * Pow2[n]
    BY <2>1, Pow2Type
  <2>3. Pow2[a + n] = Pow2[a] * Pow2[n] /\ n + 1 \in 0 .. N
    BY <1>3, <1>1
  <2>4. Pow2[a] \in Nat /\ Pow2[n] \in Nat
    <3>1. n \in 0 .. HostBits
      BY <2>1, OpsAssumption
    <3> QED BY <3>1, Pow2Type
  <2>5. \A x, y \in Nat : 2 * (x * y) = x * (2 * y)
    OBVIOUS
  <2> QED BY <2>2, <2>3, <2>4, <2>5
<1>4. 0 .. N \subseteq S
  <2> HIDE DEF S
  <2> QED BY <1>1, <1>2, <1>3, UpTo
<1> QED BY <1>1, <1>4

\* A power has every lower one in it.
LEMMA Pow2Split ==
    ASSUME NEW a \in 0 .. HostBits, NEW n \in 0 .. HostBits, a <= n
    PROVE  Pow2[n] = Pow2[a] * Pow2[n - a] /\ Pow2[n - a] \in Nat \ {0} /\ Pow2[a] <= Pow2[n]
<1> DEFINE b == n - a
<1>1. b \in 0 .. HostBits /\ a + b = n /\ a + b <= HostBits
  BY OpsAssumption
<1> HIDE DEF b
<1>2. Pow2[n] = Pow2[a] * Pow2[b] /\ Pow2[b] \in Nat \ {0} /\ Pow2[a] \in Nat
  BY <1>1, Pow2Sum, Pow2Type
<1>3. \A x \in Nat, y \in Nat \ {0} : x <= x * y
  OBVIOUS
<1> QED BY <1>2, <1>3 DEF b

-----------------------------------------------------------------------------
(* Quotients and remainders. *)

\* The only quotient and remainder are those.
LEMMA Unique ==
    ASSUME NEW a \in Int, NEW b \in Nat \ {0}, NEW q \in Int, NEW r \in 0 .. b - 1,
           a = b * q + r
    PROVE  a \div b = q /\ a % b = r
OBVIOUS

\* There is a quotient and a remainder.
LEMMA DivMod ==
    ASSUME NEW a \in Int, NEW b \in Nat \ {0}
    PROVE  \E q \in Int, r \in 0 .. b - 1 :
              a = b * q + r /\ a \div b = q /\ a % b = r
OBVIOUS

\* What is less than b is its own remainder.
LEMMA ModSmall ==
    ASSUME NEW b \in Nat \ {0}, NEW a \in 0 .. b - 1
    PROVE  a % b = a /\ a \div b = 0
BY Unique

\* What is a multiple of b apart has the same remainder.
LEMMA ModApart ==
    ASSUME NEW a \in Int, NEW b \in Nat \ {0}, NEW k \in Int
    PROVE  (a + b * k) % b = a % b /\ (a + b * k) \div b = (a \div b) + k
<1>1. PICK q \in Int, r \in 0 .. b - 1 : a = b * q + r /\ a \div b = q /\ a % b = r
  BY DivMod
<1> DEFINE A == a + b * k
           Q == q + k
<1>2. A \in Int /\ Q \in Int /\ A = b * Q + r
  BY <1>1
<1> HIDE DEF A, Q
<1>3. A \div b = Q /\ A % b = r
  BY <1>2, Unique
<1> QED BY <1>1, <1>3 DEF A, Q

\* A remainder of a multiple is as good as the number.
LEMMA ModMod ==
    ASSUME NEW a \in Int, NEW b \in Nat \ {0}, NEW c \in Nat \ {0}
    PROVE  (a % (b * c)) % b = a % b
<1> DEFINE m == b * c
<1>1. m \in Nat \ {0}
  OBVIOUS
<1> HIDE DEF m
<1>2. PICK q \in Int, r \in 0 .. m - 1 : a = m * q + r /\ a \div m = q /\ a % m = r
  BY <1>1, DivMod
<1> DEFINE k == c * q
<1>3. k \in Int /\ a = r + b * k
  BY <1>2 DEF m
<1>4. r \in Int
  BY <1>1, <1>2
<1> HIDE DEF k
<1>5. a % b = r % b
  BY <1>3, <1>4, ModApart
<1> QED BY <1>2, <1>5 DEF m

\* A quotient of a product.
LEMMA DivTimes ==
    ASSUME NEW a \in Int, NEW b \in Nat \ {0}
    PROVE  (a * b) \div b = a /\ (a * b) % b = 0
<1>1. a * b = b * a + 0
  OBVIOUS
<1> QED BY <1>1, Unique

\* A quotient in two steps, and what it leaves.
LEMMA DivDiv ==
    ASSUME NEW a \in Int, NEW b \in Nat \ {0}, NEW c \in Nat \ {0}
    PROVE  /\ a \div (b * c) = (a \div b) \div c
           /\ a % (b * c) = b * ((a \div b) % c) + (a % b)
<1>1. PICK q \in Int, r \in 0 .. b - 1 : a = b * q + r /\ a \div b = q /\ a % b = r
  BY DivMod
<1>2. PICK p \in Int, s \in 0 .. c - 1 : q = c * p + s /\ q \div c = p /\ q % c = s
  BY DivMod
<1> DEFINE m == b * c
           t == b * s + r
<1>3. m \in Nat \ {0} /\ a = m * p + t
  BY <1>1, <1>2
<1>4. t \in 0 .. m - 1
  <2>1. b * s \in Nat /\ b * s <= b * (c - 1) /\ b * (c - 1) = m - b
    OBVIOUS
  <2> QED BY <2>1
<1> HIDE DEF m, t
<1>5. a \div m = p /\ a % m = t
  BY <1>3, <1>4, Unique
<1> QED BY <1>1, <1>2, <1>5 DEF m, t

-----------------------------------------------------------------------------
(* Words. *)

\* 2^w is 2 * 2^(w - 1), and the width of a host word is w and the rest.
LEMMA Width ==
    ASSUME NEW w \in Widths
    PROVE  /\ Pow2[w] \in Nat \ {0, 1}
           /\ Pow2[w - 1] \in Nat \ {0}
           /\ Pow2[w] = 2 * Pow2[w - 1]
           /\ Pow2[HostBits - w] \in Nat \ {0}
           /\ Pow2[HostBits] = Pow2[w] * Pow2[HostBits - w]
           /\ Pow2[HostBits - 1] = Pow2[w - 1] * Pow2[HostBits - w]
           /\ Pow2[HostBits] \in Nat \ {0, 1}
           /\ Below(w) = 0 .. Pow2[w] - 1
<1>1. /\ w \in 0 .. HostBits /\ w - 1 \in 0 .. HostBits - 1 /\ (w - 1) + 1 = w
      /\ HostBits - w \in 0 .. HostBits /\ w + (HostBits - w) = HostBits
      /\ (w - 1) + (HostBits - w) = HostBits - 1
      /\ HostBits - 1 \in 0 .. HostBits - 1 /\ (HostBits - 1) + 1 = HostBits
      /\ w - 1 \in 0 .. HostBits /\ HostBits - 1 \in 0 .. HostBits /\ HostBits \in 0 .. HostBits
  BY OpsAssumption DEF Widths
<1>2. Pow2[w] = 2 * Pow2[w - 1] /\ Pow2[HostBits] = 2 * Pow2[HostBits - 1]
  BY <1>1, Pow2Type
<1>3. /\ Pow2[HostBits] = Pow2[w] * Pow2[HostBits - w]
      /\ Pow2[HostBits - 1] = Pow2[w - 1] * Pow2[HostBits - w]
  BY <1>1, Pow2Sum, OpsAssumption
<1>4. /\ Pow2[w] \in Nat \ {0} /\ Pow2[w - 1] \in Nat \ {0} /\ Pow2[HostBits - w] \in Nat \ {0}
      /\ Pow2[HostBits] \in Nat \ {0} /\ Pow2[HostBits - 1] \in Nat \ {0}
  BY <1>1, Pow2Type
<1> QED BY <1>2, <1>3, <1>4 DEF Below

\* The number that a word is with its sign, and the word that the number is.
LEMMA SignedRange ==
    ASSUME NEW w \in Widths, NEW v \in Below(w)
    PROVE  /\ Signed(w, v) \in Int
           /\ -Pow2[w - 1] <= Signed(w, v) /\ Signed(w, v) < Pow2[w - 1]
           /\ Signed(w, v) = v \/ Signed(w, v) = v - Pow2[w]
           /\ Signed(w, v) < 0 <=> v >= Pow2[w - 1]
           /\ Signed(w, v) = 0 <=> v = 0
           /\ Signed(w, v) % Pow2[w] = v
           /\ v \in Nat /\ v < Pow2[w]
<1>1. v \in Nat /\ v < Pow2[w]
  BY Width
<1>2. /\ Signed(w, v) \in Int
      /\ -Pow2[w - 1] <= Signed(w, v) /\ Signed(w, v) < Pow2[w - 1]
      /\ Signed(w, v) = v \/ Signed(w, v) = v - Pow2[w]
      /\ Signed(w, v) < 0 <=> v >= Pow2[w - 1]
      /\ Signed(w, v) = 0 <=> v = 0
  <2> DEFINE h == Pow2[w - 1]
             n == Pow2[w]
             a == Signed(w, v)
  <2>1. h \in Nat \ {0} /\ n = 2 * h
    BY Width
  <2>2. v \in Nat /\ v < n
    BY <1>1
  <2>3. a = IF v >= h THEN v - n ELSE v
    BY DEF Signed
  <2> HIDE DEF h, n, a
  <2>4. /\ a \in Int /\ -h <= a /\ a < h /\ (a = v \/ a = v - n)
        /\ a < 0 <=> v >= h
        /\ a = 0 <=> v = 0
    BY <2>1, <2>2, <2>3
  <2> QED BY <2>4 DEF h, n, a
<1> DEFINE m == Pow2[w]
<1>3. m \in Nat \ {0} /\ v \in 0 .. m - 1
  BY <1>1, Width
<1> HIDE DEF m
<1>4. v % m = v
  BY <1>3, ModSmall
<1>5. (v - m) % m = v % m
  <2>1. ASSUME NEW k \in Int PROVE (v + m * k) % m = v % m
    <3>1. v \in Int
      BY <1>3
    <3> QED BY <1>3, <3>1, ModApart, Zenon
  <2>2. v - m = v + m * (-1) /\ -1 \in Int
    BY <1>3
  <2> QED BY <2>1, <2>2
<1>6. Signed(w, v) % Pow2[w] = v
  BY <1>2, <1>4, <1>5, Zenon DEF m
<1> QED BY <1>1, <1>2, <1>6

\* Its sign says which it is.
LEMMA SignedIs ==
    ASSUME NEW w \in Widths, NEW v \in Below(w)
    PROVE  /\ Signed(w, v) < 0 => Signed(w, v) = v - Pow2[w]
           /\ Signed(w, v) >= 0 => Signed(w, v) = v
           /\ Signed(w, v) = 0 <=> v = 0
BY Width, SignedRange DEF Signed

\* A number that w bits have room for, with its sign, is that number again.
LEMMA SignedOf ==
    ASSUME NEW w \in Widths, NEW a \in Int, -Pow2[w - 1] <= a, a < Pow2[w - 1]
    PROVE  a % Pow2[w] \in Below(w) /\ Signed(w, a % Pow2[w]) = a
<1> DEFINE m == Pow2[w]
           h == Pow2[w - 1]
<1>1. m \in Nat \ {0} /\ h \in Nat \ {0} /\ m = 2 * h /\ Below(w) = 0 .. m - 1
  BY Width
<1>2. -h <= a /\ a < h
  OBVIOUS
<1>3. ASSUME NEW v \in Int PROVE Signed(w, v) = IF v >= h THEN v - m ELSE v
  BY DEF Signed
<1> HIDE DEF m, h
<1>4. CASE a >= 0
  <2>1. a % m = a
    BY <1>1, <1>2, <1>4, ModSmall
  <2> QED BY <1>1, <1>2, <1>3, <1>4, <2>1 DEF m
<1>5. CASE a < 0
  <2>1. a + m \in 0 .. m - 1
    BY <1>1, <1>2, <1>5
  <2>2. a % m = a + m
    <3> DEFINE t == a + m
               q == -1
    <3>1. q \in Int /\ t \in 0 .. m - 1 /\ a = m * q + t
      BY <1>1, <2>1
    <3> HIDE DEF t, q
    <3>2. a % m = t
      BY <1>1, <3>1, Unique
    <3> QED BY <3>2 DEF t
  <2> QED BY <1>1, <1>2, <1>3, <1>5, <2>1, <2>2 DEF m
<1> QED BY <1>4, <1>5

\* Cutting a host word to w bits is as good as cutting the number.
LEMMA CutHost ==
    ASSUME NEW w \in Widths, NEW a \in Int
    PROVE  /\ narrow(w, a % Pow2[HostBits]) = a % Pow2[w]
           /\ a % Pow2[HostBits] \in Nat
<1> DEFINE m == Pow2[w]
           c == Pow2[HostBits - w]
<1>1. m \in Nat \ {0} /\ c \in Nat \ {0} /\ Pow2[HostBits] = m * c
  BY Width
<1>2. m * c \in Nat \ {0}
  BY <1>1
<1> HIDE DEF m, c
<1>3. (a % (m * c)) % m = a % m
  BY <1>1, ModMod
<1>4. a % (m * c) \in Nat
  <2> DEFINE d == m * c
  <2> HIDE DEF d
  <2>1. d \in Nat \ {0} => a % d \in Nat
    OBVIOUS
  <2> QED BY <1>2, <2>1 DEF d
<1> QED BY <1>1, <1>3, <1>4 DEF narrow, m

\* signExtend gives the number with its sign, as the host has it.
LEMMA Extended ==
    ASSUME NEW w \in Widths, NEW v \in Below(w)
    PROVE  /\ signExtend(w, v) = Signed(w, v) % Pow2[HostBits]
           /\ signExtend(w, v) \in Below(HostBits)
           /\ Signed(HostBits, signExtend(w, v)) = Signed(w, v)
<1>0. HostBits \in Widths
  BY OpsAssumption DEF Widths
<1> DEFINE a == Signed(w, v)
           c == Pow2[HostBits - w]
           m == Pow2[w]
           h == Pow2[w - 1]
<1>1. /\ m \in Nat \ {0} /\ h \in Nat \ {0} /\ m = 2 * h /\ c \in Nat \ {0}
      /\ Pow2[HostBits] = m * c /\ Pow2[HostBits - 1] = h * c
  BY Width
<1>2. a \in Int /\ -h <= a /\ a < h /\ v \in Nat /\ v < m /\ a = IF v >= h THEN v - m ELSE v
  BY SignedRange DEF Signed
<1>3. a % Pow2[HostBits] \in Below(HostBits) /\ Signed(HostBits, a % Pow2[HostBits]) = a
  <2>1. h <= h * c /\ h * c \in Nat
    BY <1>1
  <2>2. -(h * c) <= a /\ a < h * c
    BY <1>1, <1>2, <2>1
  <2> QED BY <1>0, <1>1, <1>2, <2>2, SignedOf
<1>4. CASE w = HostBits
  <2>1. signExtend(w, v) = v
    BY <1>4, OpsAssumption DEF signExtend
  <2> QED BY <1>3, <1>4, <2>1, SignedRange
<1>5. CASE w # HostBits
  <2>1. w < HostBits /\ ~(HostBits - w >= HostBits)
    BY <1>5, OpsAssumption DEF Widths
  <2>2. Shl(v, HostBits - w) = v * c
    <3>1. v * c \in 0 .. (m * c) - 1
      <4>1. v * c \in Nat /\ v * c <= (m - 1) * c /\ (m - 1) * c = (m * c) - c
        BY <1>1, <1>2
      <4> QED BY <1>1, <4>1
    <3>2. (v * c) % (m * c) = v * c
      <4> DEFINE x == v * c
                 y == m * c
      <4>1. y \in Nat \ {0}
        BY <1>1
      <4> HIDE DEF x, y
      <4>2. x \in 0 .. y - 1 => x % y = x
        BY <4>1, ModSmall
      <4> QED BY <3>1, <4>2 DEF x, y
    <3> QED BY <2>1, <3>2, <1>1, Zenon DEF Shl
  <2>3. Signed(HostBits, v * c) = a * c
    <3>1. v * c >= h * c <=> v >= h
      BY <1>1, <1>2
    <3>2. (v - m) * c = (v * c) - (m * c)
      BY <1>1, <1>2
    <3> QED BY <1>1, <1>2, <3>1, <3>2 DEF Signed
  <2>4. (a * c) \div c = a
    BY <1>1, <1>2, DivTimes
  <2>5. signExtend(w, v) = a % Pow2[HostBits]
    BY <2>1, <2>2, <2>3, <2>4, Zenon DEF signExtend, AShr
  <2> QED BY <1>3, <2>5
<1> QED BY <1>4, <1>5

\* What fits is not cut.
LEMMA NarrowSmall ==
    ASSUME NEW w \in Widths, NEW v \in Below(w)
    PROVE  narrow(w, v) = v
<1> DEFINE m == Pow2[w]
<1>1. m \in Nat \ {0} /\ v \in 0 .. m - 1
  BY Width
<1> HIDE DEF m
<1>2. v % m = v
  BY <1>1, ModSmall
<1> QED BY <1>1, <1>2 DEF narrow, m

\* All ones of a host word, cut, are all ones.
LEMMA NarrowOnes ==
    ASSUME NEW w \in Widths
    PROVE  narrow(w, Ones) = Pow2[w] - 1 /\ Ones \in Nat
<1> DEFINE m == Pow2[w]
           c == Pow2[HostBits - w]
           q == c - 1
           t == m - 1
<1>1. m \in Nat \ {0} /\ c \in Nat \ {0} /\ Ones = (m * c) - 1
  BY Width DEF Ones
<1>2. Ones \in Nat /\ Ones = m * q + t /\ q \in Int /\ t \in 0 .. m - 1
  BY <1>1
<1> HIDE DEF m, q, t
<1>3. Ones % m = t
  <2>1. Ones \in Int
    BY <1>2
  <2> QED BY <1>1, <1>2, <2>1, Unique, Zenon
<1> QED BY <1>2, <1>3 DEF narrow, m, t

-----------------------------------------------------------------------------
(* The operations. *)

\* A shift of the host, with the select around it: none is Poison.
LEMMA ShiftIs ==
    ASSUME NEW l \in Nat, NEW r \in Nat
    PROVE  /\ shift("lshift", l, r) = IF r >= HostBits THEN 0 ELSE (l * Pow2[r]) % Pow2[HostBits]
           /\ shift("rshift", l, r) = IF r >= HostBits THEN 0 ELSE l \div Pow2[r]
<1>1. ASSUME NEW by \in 0 .. HostBits - 1
      PROVE  /\ Shl(l, by) = (l * Pow2[by]) % Pow2[HostBits] /\ Shl(l, by) \in Nat
             /\ LShr(l, by) = l \div Pow2[by] /\ LShr(l, by) \in Nat
  <2>1. by \in 0 .. HostBits /\ ~(by >= HostBits) /\ HostBits \in 0 .. HostBits
    BY OpsAssumption
  <2> DEFINE p == Pow2[by]
             m == Pow2[HostBits]
  <2>2. p \in Nat \ {0} /\ m \in Nat \ {0}
    BY <2>1, Pow2Type
  <2>3. Shl(l, by) = (l * p) % m /\ LShr(l, by) = l \div p
    BY <2>1 DEF Shl, LShr
  <2> HIDE DEF p, m
  <2>4. l * p \in Int
    BY <2>2
  <2>5. \A x \in Int : x % m \in Nat
    BY <2>2
  <2>6. l \div p \in Nat
    BY <2>2
  <2> QED BY <2>3, <2>4, <2>5, <2>6 DEF p, m
<1>2. CASE r >= HostBits
  <2>1. Shl(l, 0) \in Nat /\ LShr(l, 0) \in Nat
    BY <1>1, OpsAssumption
  <2> QED BY <1>2, <2>1 DEF shift, Select, Undefined
<1>3. CASE ~(r >= HostBits)
  <2>1. r \in 0 .. HostBits - 1
    BY <1>3, OpsAssumption
  <2>2. /\ Shl(l, r) = (l * Pow2[r]) % Pow2[HostBits] /\ Shl(l, r) \in Nat
        /\ LShr(l, r) = l \div Pow2[r] /\ LShr(l, r) \in Nat
    BY <1>1, <2>1
  <2>3. shift("lshift", l, r) = Shl(l, r) /\ shift("rshift", l, r) = LShr(l, r)
    BY <1>3, <2>2 DEF shift, Select, Undefined
  <2> QED BY <1>3, <2>2, <2>3
<1> QED BY <1>2, <1>3

\* Past the width of the guest, what is shifted is cut off; past that of the host it is 0.
LEMMA LeftShift ==
    ASSUME NEW w \in Widths, NEW l \in Below(w), NEW r \in Below(w)
    PROVE  lowered("lshift", w, l, r) = means("lshift", w, l, r)
<1> DEFINE m == Pow2[w]
<1>1. l \in Nat /\ r \in Nat /\ m \in Nat \ {0} /\ w \in 0 .. HostBits
  BY Width, SignedRange, OpsAssumption DEF Widths
<1>2. lowered("lshift", w, l, r) = narrow(w, shift("lshift", l, r))
  BY DEF lowered
<1>3. means("lshift", w, l, r) = IF r >= w THEN 0 ELSE (l * Pow2[r]) % m
  BY DEF means
<1>4. CASE r >= HostBits
  <2>1. shift("lshift", l, r) = 0 /\ r >= w
    BY <1>1, <1>4, ShiftIs, OpsAssumption
  <2>2. narrow(w, 0) = 0
    BY <1>1 DEF narrow
  <2> QED BY <1>2, <1>3, <2>1, <2>2
<1>5. CASE ~(r >= HostBits)
  <2>1. shift("lshift", l, r) = (l * Pow2[r]) % Pow2[HostBits]
    BY <1>1, <1>5, ShiftIs
  <2>2. r \in 0 .. HostBits /\ Pow2[r] \in Nat
    BY <1>1, <1>5, Pow2Type, OpsAssumption
  <2>3. narrow(w, shift("lshift", l, r)) = (l * Pow2[r]) % m
    <3> DEFINE x == l * Pow2[r]
    <3>1. x \in Int
      BY <1>1, <2>2
    <3> HIDE DEF x
    <3>2. narrow(w, x % Pow2[HostBits]) = x % m
      BY <3>1, CutHost
    <3> QED BY <2>1, <3>2 DEF x
  <2>4. CASE r >= w
    <3> DEFINE d == Pow2[r - w]
               x == l * d
    <3>1. Pow2[r] = m * d /\ d \in Nat
      BY <1>1, <2>2, <2>4, Pow2Split
    <3>2. l * Pow2[r] = x * m /\ x \in Int
      BY <1>1, <3>1
    <3> HIDE DEF x, m
    <3>3. (x * m) % m = 0
      BY <1>1, <3>2, DivTimes
    <3> QED BY <1>2, <1>3, <2>3, <2>4, <3>2, <3>3
  <2> QED BY <1>2, <1>3, <2>3, <2>4
<1> QED BY <1>4, <1>5

\* A part of a word, shifted down.
LEMMA Down ==
    ASSUME NEW l \in Nat, NEW a \in 0 .. HostBits, NEW b \in 0 .. HostBits,
           a + b <= HostBits, l < Pow2[a + b]
    PROVE  l \div Pow2[b] \in Below(a)
<1> DEFINE p == Pow2[a]
           d == Pow2[b]
<1>1. p \in Nat \ {0} /\ d \in Nat \ {0} /\ l < p * d
  BY Pow2Type, Pow2Sum
<1> HIDE DEF p, d
<1>2. PICK q \in Int, t \in 0 .. d - 1 : l = d * q + t /\ l \div d = q /\ l % d = t
  BY <1>1, DivMod
<1>3. q \in 0 .. p - 1
  BY <1>1, <1>2
<1> QED BY <1>2, <1>3 DEF Below, p, d

\* Past the width there is nothing left.
LEMMA RightShift ==
    ASSUME NEW w \in Widths, NEW l \in Below(w), NEW r \in Below(w)
    PROVE  lowered("rshift", w, l, r) = means("rshift", w, l, r)
<1> DEFINE m == Pow2[w]
<1>1. l \in Nat /\ r \in Nat /\ m \in Nat \ {0} /\ w \in 0 .. HostBits /\ l < m
  BY Width, SignedRange, OpsAssumption DEF Widths
<1>2. lowered("rshift", w, l, r) = narrow(w, shift("rshift", l, r))
  BY DEF lowered
<1>3. means("rshift", w, l, r) = IF r >= w THEN 0 ELSE l \div Pow2[r]
  BY DEF means
<1>4. narrow(w, 0) = 0
  BY <1>1 DEF narrow
<1>5. CASE r >= HostBits
  <2>1. shift("rshift", l, r) = 0 /\ r >= w
    BY <1>1, <1>5, ShiftIs, OpsAssumption
  <2> QED BY <1>2, <1>3, <1>4, <2>1
<1>6. CASE ~(r >= HostBits)
  <2>1. shift("rshift", l, r) = l \div Pow2[r]
    BY <1>1, <1>6, ShiftIs
  <2>2. r \in 0 .. HostBits /\ Pow2[r] \in Nat \ {0}
    BY <1>1, <1>6, Pow2Type, OpsAssumption
  <2>3. CASE r >= w
    <3> DEFINE p == Pow2[r]
    <3>1. m <= p
      BY <1>1, <2>2, <2>3, Pow2Split
    <3> HIDE DEF p
    <3>2. l \in 0 .. p - 1 /\ p \in Nat \ {0}
      BY <1>1, <2>2, <3>1 DEF p
    <3>3. l \div p = 0
      BY <3>2, ModSmall
    <3> QED BY <1>2, <1>3, <1>4, <2>1, <2>3, <3>3 DEF p
  <2>4. CASE ~(r >= w)
    <3>1. w - r \in Widths /\ w - r \in 0 .. HostBits /\ (w - r) + r = w
      BY <1>1, <2>4, OpsAssumption DEF Widths
    <3>2. l \div Pow2[r] \in Below(w - r)
      BY <1>1, <2>2, <3>1, Down, OpsAssumption
    <3>3. l \div Pow2[r] <= l
      BY <1>1, <2>2
    <3>4. l \div Pow2[r] \in Below(w)
      BY <1>1, <2>2, <3>3 DEF Below
    <3> QED BY <1>2, <1>3, <2>1, <2>4, <3>4, NarrowSmall
  <2> QED BY <2>3, <2>4
<1> QED BY <1>5, <1>6

\* A division without sign.
LEMMA DivideIs ==
    ASSUME NEW l \in Nat, NEW r \in Nat
    PROVE  /\ divide("div", l, r) = IF r = 0 THEN Ones ELSE l \div r
           /\ divide("rem", l, r) = IF r = 0 THEN l ELSE l % r
<1>1. Ones \in Nat
  BY Width, OpsAssumption DEF Ones, Widths
<1>2. ASSUME NEW d \in Nat \ {0}
      PROVE  UDiv(l, d) = l \div d /\ UDiv(l, d) \in Nat /\ URem(l, d) = l % d /\ URem(l, d) \in Nat
  BY DEF UDiv, URem
<1>3. UDiv(l, 1) \in Nat /\ URem(l, 1) \in Nat
  BY <1>2
<1>4. CASE r = 0
  BY <1>1, <1>3, <1>4 DEF divide, Select, Undefined
<1>5. CASE r # 0
  <2>1. UDiv(l, r) = l \div r /\ UDiv(l, r) \in Nat /\ URem(l, r) = l % r /\ URem(l, r) \in Nat
    BY <1>2, <1>5
  <2>2. divide("div", l, r) = UDiv(l, r) /\ divide("rem", l, r) = URem(l, r)
    BY <1>1, <1>5, <2>1 DEF divide, Select, Undefined
  <2> QED BY <1>5, <2>1, <2>2
<1> QED BY <1>4, <1>5

\* What a division gives fits, and by 0 it is all ones, or the dividend.
LEMMA Division ==
    ASSUME NEW w \in Widths, NEW l \in Below(w), NEW r \in Below(w)
    PROVE  /\ lowered("div", w, l, r) = means("div", w, l, r)
           /\ lowered("rem", w, l, r) = means("rem", w, l, r)
<1>1. l \in Nat /\ r \in Nat /\ l < Pow2[w] /\ r < Pow2[w] /\ Pow2[w] \in Nat
  BY Width, SignedRange
<1>2. /\ lowered("div", w, l, r) = narrow(w, divide("div", l, r))
      /\ lowered("rem", w, l, r) = narrow(w, divide("rem", l, r))
  BY DEF lowered
<1>3. /\ means("div", w, l, r) = IF r = 0 THEN Pow2[w] - 1 ELSE l \div r
      /\ means("rem", w, l, r) = IF r = 0 THEN l ELSE l % r
  BY DEF means
<1>4. CASE r = 0
  BY <1>1, <1>2, <1>3, <1>4, DivideIs, NarrowOnes, NarrowSmall
<1>5. CASE r # 0
  <2>1. l \div r \in Nat /\ l \div r <= l /\ l % r \in Nat /\ l % r < r
    BY <1>1, <1>5
  <2>2. l \div r \in Below(w) /\ l % r \in Below(w)
    BY <1>1, <2>1 DEF Below
  <2>3. divide("div", l, r) = l \div r /\ divide("rem", l, r) = l % r
    BY <1>1, <1>5, DivideIs
  <2> QED BY <1>2, <1>3, <1>5, <2>2, <2>3, NarrowSmall
<1> QED BY <1>4, <1>5

\* A quotient with sign is a number.
LEMMA QuotientType ==
    ASSUME NEW a \in Int, NEW b \in Int, b # 0
    PROVE  Quotient(a, b) \in Int
<1> DEFINE x == IF a < 0 THEN -a ELSE a
           y == IF b < 0 THEN -b ELSE b
<1>1. x \in Int /\ y \in Nat \ {0}
  OBVIOUS
<1>2. x \div y \in Int
  <2> HIDE DEF x, y
  <2> QED BY <1>1
<1> HIDE DEF x, y
<1>3. Quotient(a, b) = IF (a < 0) = (b < 0) THEN x \div y ELSE -(x \div y)
  BY DEF Quotient, x, y
<1> QED BY <1>2, <1>3

\* A division with sign, of host words: by 0 and where the quotient does not fit too.
LEMMA DivideSignedIs ==
    ASSUME NEW l \in Below(HostBits), NEW r \in Below(HostBits), NEW a, NEW b,
           a = Signed(HostBits, l), b = Signed(HostBits, r)
    PROVE  /\ divideSigned("sdiv", l, r) =
                IF r = 0 THEN IF a < 0 THEN 1 ELSE Ones ELSE Quotient(a, b) % Pow2[HostBits]
           /\ divideSigned("srem", l, r) =
                IF r = 0 THEN l ELSE (a - b * Quotient(a, b)) % Pow2[HostBits]
<1>0. HostBits \in Widths /\ HostBits - 1 \in Widths
  BY OpsAssumption DEF Widths
<1> DEFINE m == Pow2[HostBits]
           h == Pow2[HostBits - 1]
<1>1. m \in Nat \ {0} /\ h \in Nat \ {0, 1} /\ m = 2 * h /\ Ones = m - 1
  BY <1>0, Width DEF Ones
<1>2. /\ l \in Nat /\ r \in Nat /\ l < m /\ r < m /\ a \in Int /\ b \in Int
      /\ a = IF l >= h THEN l - m ELSE l
      /\ b = IF r >= h THEN r - m ELSE r
  BY <1>0, SignedRange DEF Signed
<1>3. b = 0 <=> r = 0
  BY <1>1, <1>2
<1>4. \A x \in Int : x % m \in Nat
  <2> HIDE DEF m
  <2> QED BY <1>1
<1>5. ASSUME NEW d \in Below(HostBits), SDivides(l, d)
      PROVE  SDiv(l, d) \in Nat /\ SRem(l, d) \in Nat
  <2> DEFINE c == Signed(HostBits, d)
             q == Quotient(a, c)
  <2>1. c \in Int /\ c # 0
    BY <1>0, <1>1, <1>5, SignedRange DEF SDivides, Signed
  <2>2. q \in Int
    BY <1>2, <2>1, QuotientType
  <2>3. SDiv(l, d) = q % m /\ SRem(l, d) = (a - c * q) % m
    BY <1>5 DEF SDiv, SRem
  <2> HIDE DEF c, q, m
  <2>4. a - c * q \in Int
    BY <1>2, <2>1, <2>2
  <2> QED BY <1>4, <2>2, <2>3, <2>4
<1>6. SDiv(l, 1) \in Nat /\ SRem(l, 1) \in Nat
  <2>1. 1 \in Below(HostBits) /\ SDivides(l, 1)
    BY <1>1 DEF Below, SDivides
  <2> QED BY <1>5, <2>1
<1>7. CASE r = 0
  <2>1. ~(l = h /\ r = Ones)
    BY <1>1, <1>7
  <2> QED BY <1>1, <1>2, <1>6, <1>7, <2>1 DEF divideSigned, Select, Undefined
<1>8. CASE r # 0 /\ l = h /\ r = Ones
  <2>1. a = -h /\ b = -1
    BY <1>1, <1>2, <1>8
  <2>2. Quotient(a, b) = h
    BY <1>1, <2>1 DEF Quotient
  <2>3. h % m = h /\ 0 % m = 0
    <3> HIDE DEF m, h
    <3> QED BY <1>1, ModSmall
  <2>4. a - b * Quotient(a, b) = 0
    BY <1>1, <2>1, <2>2
  <2>5. divideSigned("sdiv", l, r) = l /\ divideSigned("srem", l, r) = 0
    BY <1>1, <1>2, <1>6, <1>8 DEF divideSigned, Select, Undefined
  <2> QED BY <1>8, <2>2, <2>3, <2>4, <2>5
<1>9. CASE r # 0 /\ ~(l = h /\ r = Ones)
  <2>1. SDivides(l, r)
    BY <1>9 DEF SDivides
  <2>2. SDiv(l, r) \in Nat /\ SRem(l, r) \in Nat
    BY <1>5, <2>1
  <2>3. SDiv(l, r) = Quotient(a, b) % m /\ SRem(l, r) = (a - b * Quotient(a, b)) % m
    BY <2>1 DEF SDiv, SRem
  <2>4. divideSigned("sdiv", l, r) = SDiv(l, r) /\ divideSigned("srem", l, r) = SRem(l, r)
    BY <1>1, <1>2, <1>9, <2>2 DEF divideSigned, Select, Undefined
  <2> QED BY <1>9, <2>3, <2>4
<1> QED BY <1>7, <1>8, <1>9

\* A division with sign, of words of the guest, which are extended and cut.
LEMMA SignedDivision ==
    ASSUME NEW w \in Widths, NEW l \in Below(w), NEW r \in Below(w)
    PROVE  /\ lowered("sdiv", w, l, r) = means("sdiv", w, l, r)
           /\ lowered("srem", w, l, r) = means("srem", w, l, r)
<1> DEFINE a == Signed(w, l)
           b == Signed(w, r)
           q == Quotient(a, b)
           L == signExtend(w, l)
           R == signExtend(w, r)
           m == Pow2[HostBits]
<1>1. /\ L \in Below(HostBits) /\ Signed(HostBits, L) = a /\ L = a % m
      /\ R \in Below(HostBits) /\ Signed(HostBits, R) = b /\ R = b % m
  BY Extended
<1>2. /\ a \in Int /\ b \in Int /\ a % Pow2[w] = l /\ b % Pow2[w] = r
      /\ b = 0 <=> r = 0
  <2>1. a \in Int /\ a % Pow2[w] = l
    BY SignedRange
  <2>2. b \in Int /\ b % Pow2[w] = r /\ (b = 0 <=> r = 0)
    BY SignedRange
  <2> QED BY <2>1, <2>2
<1>3. R = 0 <=> r = 0
  <2>1. HostBits \in Widths
    BY OpsAssumption DEF Widths
  <2>2. ASSUME NEW v \in Below(HostBits) PROVE v = 0 <=> Signed(HostBits, v) = 0
    BY <2>1, SignedRange
  <2> HIDE DEF R
  <2> QED BY <1>1, <1>2, <2>2
<1>4. /\ divideSigned("sdiv", L, R) = IF R = 0 THEN IF a < 0 THEN 1 ELSE Ones ELSE q % m
      /\ divideSigned("srem", L, R) = IF R = 0 THEN L ELSE (a - b * q) % m
  BY <1>1, DivideSignedIs
<1>5. /\ lowered("sdiv", w, l, r) = narrow(w, divideSigned("sdiv", L, R))
      /\ lowered("srem", w, l, r) = narrow(w, divideSigned("srem", L, R))
  BY DEF lowered
<1>6. /\ means("sdiv", w, l, r) =
            IF r = 0 THEN IF a < 0 THEN 1 ELSE Pow2[w] - 1 ELSE q % Pow2[w]
      /\ means("srem", w, l, r) = IF r = 0 THEN l ELSE (a - b * q) % Pow2[w]
  BY DEF means
<1> HIDE DEF a, b, q, L, R, m
<1>7. CASE r = 0
  <2>1. narrow(w, 1) = 1
    <3>1. 1 \in Below(w)
      BY Width DEF Below
    <3> QED BY <3>1, NarrowSmall
  <2>2. narrow(w, L) = l
    BY <1>1, <1>2, CutHost DEF m
  <2> QED BY <1>3, <1>4, <1>5, <1>6, <1>7, <2>1, <2>2, NarrowOnes
<1>8. CASE r # 0
  <2>1. q \in Int
    BY <1>2, <1>8, QuotientType DEF q
  <2>2. a - b * q \in Int
    BY <1>2, <2>1
  <2>3. narrow(w, q % m) = q % Pow2[w]
    BY <2>1, CutHost DEF m
  <2>4. narrow(w, (a - b * q) % m) = (a - b * q) % Pow2[w]
    BY <2>2, CutHost DEF m
  <2> QED BY <1>3, <1>4, <1>5, <1>6, <1>8, <2>3, <2>4
<1> QED BY <1>7, <1>8

\* Comparisons with sign, of extended words.
LEMMA Comparison ==
    ASSUME NEW w \in Widths, NEW l \in Below(w), NEW r \in Below(w),
           NEW op \in {"slt", "sle", "sgt", "sge"}
    PROVE  lowered(op, w, l, r) = means(op, w, l, r)
<1> DEFINE a == Signed(w, l)
           b == Signed(w, r)
           L == signExtend(w, l)
           R == signExtend(w, r)
           holds == CASE op = "slt" -> a < b [] op = "sle" -> a <= b [] op = "sgt" -> a > b [] op = "sge" -> a >= b
<1>1. Signed(HostBits, L) = a /\ Signed(HostBits, R) = b
  BY Extended
<1>2. lowered(op, w, l, r) = narrow(1, compareSigned(op, L, R))
  BY DEF lowered
<1>3. means(op, w, l, r) = IF holds THEN 1 ELSE 0
  BY DEF means
<1>4. compareSigned(op, L, R) = IF holds THEN 1 ELSE 0
  BY <1>1 DEF compareSigned
<1>5. narrow(1, 0) = 0 /\ narrow(1, 1) = 1
  <2>1. 1 \in Widths
    BY OpsAssumption DEF Widths
  <2>2. 0 \in Below(1) /\ 1 \in Below(1)
    BY <2>1, Width DEF Below
  <2> QED BY <2>1, <2>2, NarrowSmall
<1> HIDE DEF holds, L, R
<1> QED BY <1>2, <1>3, <1>4, <1>5

\* A shift that is kept below the width leaves what all larger ones do.
LEMMA ArithmeticShift ==
    ASSUME NEW w \in Widths, NEW l \in Below(w), NEW r \in Below(w)
    PROVE  lowered("ashift", w, l, r) = means("ashift", w, l, r)
<1> DEFINE a == Signed(w, l)
           L == signExtend(w, l)
           m == Pow2[w]
           h == Pow2[w - 1]
<1>1. Signed(HostBits, L) = a
  BY Extended
<1>2. a \in Int /\ -h <= a /\ a < h /\ m \in Nat \ {0} /\ h \in Nat \ {0} /\ m = 2 * h /\ r \in Nat
  BY SignedRange, Width
<1>3. lowered("ashift", w, l, r) = narrow(w, AShr(L, IF r >= w THEN w - 1 ELSE r))
  BY DEF lowered, ashr
<1>4. means("ashift", w, l, r) =
        IF r >= w THEN IF a < 0 THEN m - 1 ELSE 0 ELSE (a \div Pow2[r]) % m
  BY DEF means
<1>5. ASSUME NEW by \in 0 .. w - 1
      PROVE  narrow(w, AShr(L, by)) = (a \div Pow2[by]) % m
  <2>1. by \in 0 .. HostBits /\ ~(by >= HostBits)
    BY OpsAssumption DEF Widths
  <2> DEFINE p == Pow2[by]
             q == a \div p
  <2>2. p \in Nat \ {0}
    BY <2>1, Pow2Type
  <2>3. q \in Int
    <3> HIDE DEF p, a
    <3> QED BY <1>2, <2>2
  <2>4. AShr(L, by) = q % Pow2[HostBits]
    BY <1>1, <2>1, Zenon DEF AShr
  <2> HIDE DEF q
  <2>5. narrow(w, q % Pow2[HostBits]) = q % m
    BY <2>3, CutHost
  <2> QED BY <2>4, <2>5 DEF q
<1> HIDE DEF a, L, m, h
<1>6. CASE r >= w
  <2>1. w - 1 \in 0 .. w - 1
    BY DEF Widths
  <2>2. narrow(w, AShr(L, w - 1)) = (a \div h) % m
    BY <1>5, <2>1 DEF h
  <2>3. CASE a >= 0
    <3>1. a \div h = 0 /\ 0 % m = 0
      BY <1>2, <2>3, ModSmall
    <3> QED BY <1>2, <1>3, <1>4, <1>6, <2>2, <2>3, <3>1
  <2>4. CASE a < 0
    <3> DEFINE q == -1
               t == a + h
               u == m - 1
    <3>1. q \in Int /\ t \in 0 .. h - 1 /\ a = h * q + t /\ u \in 0 .. m - 1 /\ q = m * q + u
      BY <1>2, <2>4
    <3> HIDE DEF q, t, u
    <3>2. a \div h = q /\ q % m = u
      BY <1>2, <3>1, Unique
    <3> QED BY <1>3, <1>4, <1>6, <2>2, <2>4, <3>2 DEF u
  <2> QED BY <1>2, <2>3, <2>4
<1>7. CASE ~(r >= w)
  <2>1. r \in 0 .. w - 1
    BY <1>2, <1>7 DEF Widths
  <2> QED BY <1>3, <1>4, <1>5, <1>7, <2>1
<1> QED BY <1>6, <1>7

\* Negation of a host word, cut to w bits.
LEMMA NegIs ==
    ASSUME NEW w \in Widths, NEW v \in Int
    PROVE  narrow(w, Neg(v)) = (-v) % Pow2[w] /\ Neg(v) \in Nat
BY CutHost DEF Neg

Abs(n) == IF n < 0 THEN -n ELSE n

\* The remainder of absolute values, made that with the sign of the divisor.
LEMMA FloorModIs ==
    ASSUME NEW a \in Int, NEW b \in Int, b # 0, NEW t, t = Abs(a) % Abs(b)
    PROVE  /\ FloorMod(a, b) =
                IF t = 0 THEN 0
                ELSE IF b < 0 THEN IF a < 0 THEN -t ELSE t + b
                     ELSE IF a < 0 THEN b - t ELSE t
<1>1. PICK x, y : x = Abs(a) /\ y = Abs(b)
  OBVIOUS
<1>2. /\ x = IF a < 0 THEN -a ELSE a
      /\ y = IF b < 0 THEN -b ELSE b
      /\ x \in Int /\ y \in Nat \ {0}
  BY <1>1 DEF Abs
<1>3. PICK q \in Int, s \in 0 .. y - 1 : x = y * q + s /\ x \div y = q /\ x % y = s
  BY <1>2, DivMod, Zenon
<1>4. t = s
  BY <1>1, <1>3
<1> DEFINE n == -x
           p == -q
           o == (-q) - 1
           u == y - s
<1>5. n % y = IF s = 0 THEN 0 ELSE y - s
  <2>1. CASE s = 0
    <3>1. n \in Int /\ p \in Int /\ n = y * p + s
      BY <1>3, <1>2, <2>1
    <3> HIDE DEF n, p
    <3>2. n % y = s
      BY <1>2, <3>1, Unique
    <3> QED BY <2>1, <3>2
  <2>2. CASE s # 0
    <3>1. n \in Int /\ o \in Int /\ u \in 0 .. y - 1 /\ n = y * o + u
      BY <1>3, <1>2, <2>2
    <3> HIDE DEF n, o, u
    <3>2. n % y = u
      BY <1>2, <3>1, Unique
    <3> QED BY <2>2, <3>2 DEF u
  <2> QED BY <2>1, <2>2
<1>6. FloorMod(a, b) = IF b > 0 THEN a % b ELSE -((-a) % (-b))
  BY DEF FloorMod
<1>7. CASE b > 0
  <2>1. y = b
    BY <1>7, <1>2
  <2>2. CASE a < 0
    <3>1. n = a
      BY <1>2, <2>2
    <3> HIDE DEF n
    <3> QED BY <1>4, <1>5, <1>6, <1>7, <2>1, <2>2, <3>1
  <2>3. CASE ~(a < 0)
    <3>1. x = a
      BY <1>2, <2>3
    <3> QED BY <1>3, <1>4, <1>6, <1>7, <2>1, <2>3, <3>1
  <2> QED BY <2>2, <2>3
<1>8. CASE ~(b > 0)
  <2>1. b < 0 /\ y = -b
    BY <1>8, <1>2
  <2>2. CASE a < 0
    <3>1. x = -a
      BY <1>2, <2>2
    <3>2. FloorMod(a, b) = -(x % y)
      BY <1>6, <1>8, <2>1, <3>1, Zenon
    <3> QED BY <1>3, <1>4, <2>1, <2>2, <3>2
  <2>3. CASE ~(a < 0)
    <3>1. x = a
      BY <1>2, <2>3
    <3>2. FloorMod(a, b) = -(n % y)
      BY <1>6, <1>8, <2>1, <3>1, Zenon
    <3> HIDE DEF n
    <3> QED BY <1>3, <1>4, <1>5, <2>1, <2>3, <3>2
  <2> QED BY <2>2, <2>3
<1> QED BY <1>4, <1>7, <1>8

\* A negation and a sum, cut to w bits.
LEMMA NegPlus ==
    ASSUME NEW w \in Widths, NEW t \in Int, NEW r \in Int
    PROVE  narrow(w, (Neg(t) + r) % Pow2[HostBits]) = (r - t) % Pow2[w]
<1> DEFINE m == Pow2[w]
           c == Pow2[HostBits - w]
           M == Pow2[HostBits]
           n == -t
<1>1. m \in Nat \ {0} /\ c \in Nat \ {0} /\ M = m * c /\ M \in Nat \ {0}
  BY Width
<1>2. n \in Int /\ Neg(t) = n % M
  BY DEF Neg
<1> HIDE DEF M, n, m, c
<1>3. PICK q \in Int, s \in 0 .. M - 1 : n = M * q + s /\ n \div M = q /\ n % M = s
  BY <1>1, <1>2, DivMod
<1> DEFINE d == r - t
           k == -(c * q)
<1>4. /\ d \in Int /\ k \in Int /\ Neg(t) + r = d + m * k
      /\ Neg(t) + r \in Int
  BY <1>1, <1>2, <1>3 DEF n
<1> HIDE DEF d, k
<1>5. (d + m * k) % m = d % m
  BY <1>1, <1>4, ModApart
<1>6. narrow(w, (Neg(t) + r) % M) = (Neg(t) + r) % m
  BY <1>4, CutHost DEF M, m
<1> QED BY <1>4, <1>5, <1>6 DEF d, m, M

\* The absolute value, as smod has it.
LEMMA Absolute ==
    ASSUME NEW w \in Widths, NEW l \in Below(w), NEW a, a = Signed(w, l)
    PROVE  (IF Signed(HostBits, signExtend(w, l)) < 0 THEN narrow(w, Neg(l)) ELSE l)
                = IF a < 0 THEN -a ELSE a
<1> DEFINE m == Pow2[w]
<1>1. Signed(HostBits, signExtend(w, l)) = a
  BY Extended
<1>2. m \in Nat \ {0} /\ l \in Nat /\ l < m /\ a \in Int
  BY Width, SignedRange
<1>3. a < 0 => a = l - m /\ l # 0
  BY SignedRange, Width DEF Signed
<1>4. a >= 0 => a = l
  BY SignedRange, Width DEF Signed
<1>5. CASE a < 0
  <2>1. narrow(w, Neg(l)) = (-l) % m
    BY <1>2, NegIs
  <2> HIDE DEF m
  <2> DEFINE n == -l
             q == -1
             t == m - l
  <2>2. n \in Int /\ q \in Int /\ t \in 0 .. m - 1 /\ n = m * q + t
    BY <1>2, <1>3, <1>5
  <2>3. -a = t
    BY <1>2, <1>3, <1>5
  <2> HIDE DEF n, q, t
  <2>4. n % m = t
    BY <1>2, <2>2, Unique
  <2> QED BY <1>1, <1>5, <2>1, <2>3, <2>4 DEF n
<1> QED BY <1>1, <1>2, <1>4, <1>5

\* smod, for each of the signs.
LEMMA SignedModulo ==
    ASSUME NEW w \in Widths, NEW l \in Below(w), NEW r \in Below(w)
    PROVE  lowered("smod", w, l, r) = means("smod", w, l, r)
<1> DEFINE a == Signed(w, l)
           b == Signed(w, r)
           m == Pow2[w]
           M == Pow2[HostBits]
           x == Abs(a)
           y == Abs(b)
           t == divide("rem", x, y)
           left == IF a < 0 THEN (Neg(t) + r) % M ELSE t
           both == IF a < 0 THEN Neg(t) ELSE (t + r) % M
<1>1. /\ a \in Int /\ b \in Int /\ m \in Nat \ {0} /\ l \in Nat /\ r \in Nat /\ a % m = l
      /\ (r = 0 <=> b = 0) /\ (l = 0 <=> a = 0)
      /\ b < 0 => b = r - m
      /\ b >= 0 => b = r
      /\ a >= 0 => a = l
  <2>1. /\ b < 0 => b = r - m
        /\ b >= 0 => b = r
        /\ b = 0 <=> r = 0
        /\ a >= 0 => a = l
        /\ a = 0 <=> l = 0
    BY SignedIs
  <2>2. a \in Int /\ a % m = l /\ l \in Nat /\ b \in Int /\ r \in Nat
    BY SignedRange
  <2>3. m \in Nat \ {0}
    BY Width
  <2> HIDE DEF a, b, m
  <2> QED BY <2>1, <2>2, <2>3
<1>2. lowered("smod", w, l, r) = narrow(w, IF t = 0 THEN t ELSE IF b < 0 THEN both ELSE left)
  <2> DEFINE sl == Signed(HostBits, signExtend(w, l))
             sr == Signed(HostBits, signExtend(w, r))
  <2>1. sl = a /\ sr = b
    BY Extended
  <2>2. /\ x = IF sl < 0 THEN narrow(w, Neg(l)) ELSE l
        /\ y = IF sr < 0 THEN narrow(w, Neg(r)) ELSE r
    BY Absolute DEF Abs
  <2>3. lowered("smod", w, l, r) = smod(w, l, r)
    BY DEF lowered
  <2> HIDE DEF a, b, x, y, M
  <2>4. smod(w, l, r) = narrow(w, IF t = 0 THEN t ELSE IF b < 0 THEN both ELSE left)
    BY <2>1, <2>2 DEF smod, M
  <2> QED BY <2>3, <2>4
<1>3. means("smod", w, l, r) = IF r = 0 THEN l ELSE FloorMod(a, b) % m
  BY DEF means
<1>4. x \in Nat /\ y \in Nat /\ (y = 0 <=> r = 0) /\ (x = 0 <=> a = 0) /\ (a < 0 => x = -a) /\ (a >= 0 => x = a)
  BY <1>1 DEF Abs
<1>5. t = IF y = 0 THEN x ELSE x % y
  BY <1>4, DivideIs
<1>6. t \in Nat
  <2> HIDE DEF x, y, t
  <2> QED BY <1>4, <1>5
<1> DEFINE z == IF t = 0 THEN t ELSE IF b < 0 THEN both ELSE left
<1>7. narrow(w, z) =
        IF t = 0 THEN 0
        ELSE IF b < 0 THEN IF a < 0 THEN (-t) % m ELSE (t + r) % m
             ELSE IF a < 0 THEN (r - t) % m ELSE t % m
  <2> HIDE DEF a, b, t, m
  <2>1. narrow(w, Neg(t)) = (-t) % m
    BY <1>6, NegIs DEF m
  <2>2. narrow(w, (t + r) % M) = (t + r) % m
    <3>1. t + r \in Int
      BY <1>1, <1>6
    <3> QED BY <3>1, CutHost DEF m
  <2>3. narrow(w, (Neg(t) + r) % M) = (r - t) % m
    BY <1>1, <1>6, NegPlus DEF m
  <2>4. narrow(w, t) = t % m /\ (t = 0 => narrow(w, t) = 0)
    BY <1>1, <1>6 DEF narrow, m
  <2> HIDE DEF M
  <2> QED BY <2>1, <2>2, <2>3, <2>4
<1> HIDE DEF z
<1>8. CASE r = 0
  <2>1. t = x /\ b = 0
    BY <1>1, <1>4, <1>5, <1>8
  <2> HIDE DEF t, b
  <2>2. CASE a = 0
    <3>1. t = 0 /\ l = 0
      BY <1>1, <1>4, <2>1, <2>2
    <3>2. narrow(w, z) = 0
      BY <1>7, <3>1
    <3> QED BY <1>2, <1>3, <1>8, <3>1, <3>2 DEF z
  <2>3. CASE a > 0
    <3>1. t # 0 /\ t = a /\ ~(b < 0) /\ ~(a < 0)
      BY <1>1, <1>4, <2>1, <2>3
    <3>2. narrow(w, z) = t % m
      BY <1>7, <3>1
    <3> QED BY <1>1, <1>2, <1>3, <1>8, <3>1, <3>2 DEF z
  <2>4. CASE a < 0
    <3>1. t # 0 /\ r - t = a /\ ~(b < 0)
      BY <1>1, <1>4, <1>8, <2>1, <2>4
    <3>2. narrow(w, z) = (r - t) % m
      BY <1>7, <2>4, <3>1
    <3> QED BY <1>1, <1>2, <1>3, <1>8, <3>1, <3>2 DEF z
  <2> QED BY <1>1, <2>2, <2>3, <2>4
<1>9. CASE r # 0
  <2>1. FloorMod(a, b) =
                IF t = 0 THEN 0
                ELSE IF b < 0 THEN IF a < 0 THEN -t ELSE t + b
                     ELSE IF a < 0 THEN b - t ELSE t
    <3>1. b # 0 /\ t = x % y /\ a \in Int /\ b \in Int
      BY <1>1, <1>4, <1>5, <1>9
    <3> HIDE DEF t, a, b
    <3> QED BY <3>1, FloorModIs
  <2>2. b < 0 /\ ~(a < 0) => (t + r) % m = (t + b) % m
    <3> HIDE DEF t, a, m
    <3> DEFINE k == -1
               e == t + r
    <3>1. b < 0 => e \in Int /\ k \in Int /\ t + b = e + m * k
      BY <1>1, <1>6
    <3> HIDE DEF k, e, b
    <3>2. b < 0 => (e + m * k) % m = e % m
      BY <1>1, <3>1, ModApart
    <3> QED BY <3>1, <3>2 DEF e
  <2>3. ~(b < 0) => b = r
    BY <1>1
  <2>4. 0 % m = 0
    <3> HIDE DEF m
    <3> QED BY <1>1, ModSmall
  <2> HIDE DEF t, a, b, m
  <2>5. narrow(w, z) = FloorMod(a, b) % m
    BY <1>7, <2>1, <2>2, <2>3, <2>4
  <2> QED BY <1>2, <1>3, <1>9, <2>5 DEF z
<1> QED BY <1>8, <1>9

\* All operations on two words.
LEMMA BinaryAgrees ==
    ASSUME NEW w \in Widths, NEW op \in BinOps, NEW l \in Below(w), NEW r \in Below(w)
    PROVE  lowered(op, w, l, r) = means(op, w, l, r)
BY LeftShift, RightShift, ArithmeticShift, Division, SignedDivision, SignedModulo, Comparison
   DEF BinOps

\* Casts to more bits, to fewer, and to the high ones.
LEMMA CastAgrees ==
    ASSUME NEW w \in Widths, NEW n \in Widths, NEW l \in Below(w),
           NEW op \in {"signed", "high"}, op = "high" => n <= w
    PROVE  loweredCast(op, w, l, n) = meansCast(op, w, l, n)
<1> DEFINE a == Signed(w, l)
<1>1. a \in Int /\ l \in Nat /\ l < Pow2[w] /\ (a = l \/ a = l - Pow2[w])
  BY SignedRange
<1>2. n \in 0 .. HostBits /\ w \in 0 .. HostBits /\ n \in Nat /\ w \in Nat
  BY OpsAssumption DEF Widths
<1>3. CASE op = "signed" /\ n >= w
  <2>1. loweredCast(op, w, l, n) = narrow(n, signExtend(w, l))
    BY <1>3 DEF loweredCast
  <2>2. meansCast(op, w, l, n) = a % Pow2[n]
    BY <1>3 DEF meansCast
  <2>3. narrow(n, a % Pow2[HostBits]) = a % Pow2[n] /\ signExtend(w, l) = a % Pow2[HostBits]
    <3>1. signExtend(w, l) = a % Pow2[HostBits]
      BY Extended
    <3> HIDE DEF a
    <3> QED BY <1>1, <3>1, CutHost
  <2> QED BY <2>1, <2>2, <2>3
<1>4. CASE op = "signed" /\ ~(n >= w)
  <2>1. loweredCast(op, w, l, n) = l % Pow2[n]
    BY <1>1, <1>4 DEF loweredCast, narrow
  <2>2. meansCast(op, w, l, n) = a % Pow2[n]
    BY <1>4 DEF meansCast
  <2> DEFINE m == Pow2[n]
             d == Pow2[w - n]
             k == -d
  <2>3. m \in Nat \ {0} /\ d \in Nat /\ Pow2[w] = m * d
    <3>1. n <= w
      BY <1>2, <1>4
    <3>2. m \in Nat \ {0}
      BY <1>2, Pow2Type
    <3> QED BY <1>2, <3>1, <3>2, Pow2Split
  <2>4. k \in Int /\ l - Pow2[w] = l + m * k
    BY <1>1, <2>3
  <2>5. l \in Int
    BY <1>1
  <2> HIDE DEF a, m, k
  <2>6. (l + m * k) % m = l % m
    BY <2>3, <2>4, <2>5, ModApart
  <2>7. a % m = l % m
    BY <1>1, <2>4, <2>6, Zenon
  <2> QED BY <2>1, <2>2, <2>7 DEF m
<1>5. CASE op = "high"
  <2> DEFINE b == w - n
  <2>1. b \in 0 .. HostBits /\ n + b = w /\ n + b <= HostBits /\ ~(b >= HostBits) /\ b \in Nat
    BY <1>2, <1>5, OpsAssumption DEF Widths
  <2>2. loweredCast(op, w, l, n) = narrow(n, shift("rshift", l, b))
    BY <1>5 DEF loweredCast
  <2>3. meansCast(op, w, l, n) = l \div Pow2[b]
    BY <1>5 DEF meansCast
  <2> HIDE DEF b
  <2>4. shift("rshift", l, b) = l \div Pow2[b]
    BY <1>1, <2>1, ShiftIs
  <2>5. l \div Pow2[b] \in Below(n)
    BY <1>1, <1>2, <2>1, Down
  <2> QED BY <2>2, <2>3, <2>4, <2>5, NarrowSmall
<1> QED BY <1>3, <1>4, <1>5

\* Bits of a word.
LEMMA ExtractAgrees ==
    ASSUME NEW w \in Widths, NEW n \in Widths, NEW low \in 0 .. HostBits - 1, NEW l \in Below(w)
    PROVE  loweredExtract(l, low, n) = meansExtract(l, low, n)
<1> DEFINE p == Pow2[low]
<1>1. l \in Nat /\ low \in Nat /\ low \in 0 .. HostBits /\ ~(low >= HostBits)
  BY SignedRange, OpsAssumption
<1>2. p \in Nat \ {0}
  BY <1>1, Pow2Type
<1>3. shift("rshift", l, low) = l \div p
  BY <1>1, ShiftIs
<1> HIDE DEF p
<1>4. l \div p \in Nat
  BY <1>1, <1>2
<1>5. narrow(n, l \div p) = (l \div p) % Pow2[n]
  BY <1>4 DEF narrow
<1> QED BY <1>3, <1>5 DEF loweredExtract, meansExtract, p

\* Two words as one, which fits the host.
LEMMA ConcatAgrees ==
    ASSUME NEW w \in Widths, NEW n \in Widths, NEW l \in Below(w), NEW r \in Below(n),
           w + n <= HostBits
    PROVE  loweredConcat(l, r, n) = meansConcat(l, r, n)
<1> DEFINE p == Pow2[n]
           m == Pow2[w]
           s == w + n
           x == l * p
           M == Pow2[HostBits]
<1>1. l \in Nat /\ l < m /\ m \in Nat \ {0} /\ p \in Nat \ {0} /\ M \in Nat \ {0}
  BY SignedRange, Width
<1>2. /\ n \in Nat /\ ~(n >= HostBits) /\ n \in 0 .. HostBits /\ w \in 0 .. HostBits
      /\ s \in 0 .. HostBits /\ s <= HostBits /\ HostBits \in 0 .. HostBits
  BY OpsAssumption DEF Widths
<1>3. Pow2[s] = m * p
  BY <1>2, Pow2Sum
<1>4. Pow2[s] <= M
  <2> HIDE DEF s
  <2> QED BY <1>2, Pow2Split
<1>5. x \in Nat /\ x < m * p
  BY <1>1
<1>6. x \in 0 .. M - 1
  BY <1>1, <1>3, <1>4, <1>5
<1>7. shift("lshift", l, n) = x % M
  BY <1>1, <1>2, ShiftIs
<1> HIDE DEF x, M
<1>8. x % M = x
  BY <1>1, <1>6, ModSmall
<1> QED BY <1>7, <1>8 DEF loweredConcat, meansConcat, x

\* What an expression comes to in native code is what it means for the guest, whatever the
\* width of the host's words and of the guest's, and whatever the values.
THEOREM NativeCodeAgrees == OpsSpec => []OpsAgree
<1>1. OpsInit => OpsAgree
  BY DEF OpsInit, OpsAgree
<1>2. OpsAgree /\ [OpsNext]_computed => OpsAgree'
  <2> SUFFICES ASSUME OpsAgree, [OpsNext]_computed PROVE OpsAgree'
    OBVIOUS
  <2>1. CASE UNCHANGED computed
    BY <2>1 DEF OpsAgree
  <2>2. ASSUME NEW w \in Widths, NEW op \in BinOps, NEW l \in Below(w), NEW r \in Below(w),
               Binary(op, w, l, r)
        PROVE  OpsAgree'
    <3>1. computed'.kind = "binary" /\ computed'.of = <<op, w, l, r>>
          /\ computed'.result = means(op, w, l, r)
      BY <2>2, BinaryAgrees DEF Binary
    <3> QED BY <3>1 DEF OpsAgree
  <2>3. ASSUME NEW w \in Widths, NEW n \in Widths, NEW op \in {"signed", "high"},
               NEW l \in Below(w), Cast(op, w, l, n)
        PROVE  OpsAgree'
    <3>1. computed'.kind = "cast" /\ computed'.of = <<op, w, l, n>>
          /\ computed'.result = meansCast(op, w, l, n)
      BY <2>3, CastAgrees DEF Cast
    <3> QED BY <3>1 DEF OpsAgree
  <2>4. ASSUME NEW w \in Widths, NEW n \in Widths, NEW low \in 0 .. HostBits - 1,
               NEW l \in Below(w), Extract(w, l, low, n)
        PROVE  OpsAgree'
    <3>1. computed'.kind = "extract" /\ computed'.of = <<l, low, n>>
          /\ computed'.result = meansExtract(l, low, n)
      BY <2>4, ExtractAgrees DEF Extract
    <3> QED BY <3>1 DEF OpsAgree
  <2>5. ASSUME NEW w \in Widths, NEW n \in Widths, NEW l \in Below(w), NEW r \in Below(n),
               Concat(w, l, n, r)
        PROVE  OpsAgree'
    <3>1. computed'.kind = "concat" /\ computed'.of = <<l, r, n>>
          /\ computed'.result = meansConcat(l, r, n)
      BY <2>5, ConcatAgrees DEF Concat
    <3> QED BY <3>1 DEF OpsAgree
  <2>6. ASSUME NEW value, NEW size, NEW big, NEW bigHost, NEW stores, NEW loads,
               StoreAndLoad(value, size, big, bigHost, stores, loads)
        PROVE  OpsAgree'
    <3>1. computed'.kind = "bytes"
      BY <2>6 DEF StoreAndLoad
    <3> QED BY <3>1 DEF OpsAgree
  <2> QED BY <2>1, <2>2, <2>3, <2>4, <2>5, <2>6 DEF OpsNext
<1> QED BY <1>1, <1>2, PTL DEF OpsSpec

-----------------------------------------------------------------------------
(* Bytes. *)

AccessSizes == 1 .. HostBits \div ByteBits

\* What the k-th byte counts.
Weight(k) == Pow2[ByteBits * k]

\* What bytes count, for an access that fits a host word.
LEMMA Weights ==
    ASSUME NEW size \in AccessSizes
    PROVE  /\ size \in Nat \ {0}
           /\ Pow2[ByteBits] \in Nat \ {0}
           /\ Weight(0) = 1
           /\ \A k \in 0 .. size : Weight(k) \in Nat \ {0}
           /\ \A k \in 0 .. size - 1 : Weight(k + 1) = Weight(k) * Pow2[ByteBits]
           /\ \A k \in 0 .. size, j \in 0 .. size :
                 k + j <= size => Weight(k + j) = Weight(k) * Weight(j)
<1>1. HostBits \div ByteBits \in Nat /\ ByteBits * (HostBits \div ByteBits) <= HostBits
  BY OpsAssumption
<1>2. size \in Nat \ {0} /\ size <= HostBits \div ByteBits
  BY <1>1 DEF AccessSizes
<1>3. ASSUME NEW k \in 0 .. size PROVE ByteBits * k \in 0 .. HostBits
  <2> DEFINE q == HostBits \div ByteBits
  <2>1. q \in Nat /\ ByteBits * q <= HostBits /\ k \in Nat /\ k <= q /\ ByteBits \in Nat /\ HostBits \in Nat
    BY <1>1, <1>2, OpsAssumption
  <2> HIDE DEF q
  <2>2. ByteBits * k \in Nat /\ ByteBits * k <= ByteBits * q
    BY <2>1
  <2>3. ByteBits * q \in Nat
    BY <2>1
  <2> QED BY <2>1, <2>2, <2>3
<1>4. ASSUME NEW k \in 0 .. size, NEW j \in 0 .. size, k + j <= size
      PROVE  Weight(k + j) = Weight(k) * Weight(j)
  <2> DEFINE x == ByteBits * k
             y == ByteBits * j
             z == ByteBits * (k + j)
  <2>1. k + j \in 0 .. size
    BY <1>2, <1>4
  <2>2. x \in 0 .. HostBits /\ y \in 0 .. HostBits /\ z \in 0 .. HostBits
    BY <1>3, <2>1
  <2>3. z = x + y
    BY <1>2, OpsAssumption
  <2> HIDE DEF x, y, z
  <2>4. Pow2[x + y] = Pow2[x] * Pow2[y]
    BY <2>2, <2>3, Pow2Sum, OpsAssumption
  <2> QED BY <2>3, <2>4 DEF Weight, x, y, z
<1>5. Weight(0) = 1 /\ Weight(1) = Pow2[ByteBits]
  <2>1. ByteBits * 0 = 0 /\ ByteBits * 1 = ByteBits
    BY OpsAssumption
  <2> QED BY <2>1, Pow2Type DEF Weight
<1>6. ASSUME NEW k \in 0 .. size PROVE Weight(k) \in Nat \ {0}
  BY <1>3, Pow2Type DEF Weight
<1>7. Pow2[ByteBits] \in Nat \ {0}
  BY <1>2, <1>5, <1>6
<1>8. ASSUME NEW k \in 0 .. size - 1 PROVE Weight(k + 1) = Weight(k) * Pow2[ByteBits]
  <2>1. k \in 0 .. size /\ 1 \in 0 .. size /\ k + 1 <= size
    BY <1>2
  <2> QED BY <1>4, <1>5, <2>1
<1> QED BY <1>2, <1>4, <1>5, <1>6, <1>7, <1>8

\* The sum is what its equation says.
LEMMA ReadsOfIs ==
    ASSUME NEW bytes, NEW size \in Nat, NEW big
    PROVE  ReadsOf(bytes, size, big) =
              [n \in 0 .. size |->
                IF n = 0 THEN 0
                ELSE ReadsOf(bytes, size, big)[n - 1]
                        + bytes[n - 1] * Pow2[ByteBits * (IF big THEN size - n ELSE n - 1)]]
<1> DEFINE IsSum(f) ==
        f = [n \in 0 .. size |->
                IF n = 0 THEN 0
                ELSE f[n - 1] + bytes[n - 1] * Pow2[ByteBits * (IF big THEN size - n ELSE n - 1)]]
<1>1. \E f : IsSum(f)
  <2> DEFINE term(n) == bytes[n - 1] * Pow2[ByteBits * (IF big THEN size - n ELSE n - 1)]
  <2> HIDE DEF term
  <2> DEFINE Is(f, m) == f = [n \in 0 .. m |-> IF n = 0 THEN 0 ELSE f[n - 1] + term(n)]
             S == {m \in Nat : \E f : Is(f, m)}
  <2>1. 0 \in S
    <3>1. Is([n \in 0 .. 0 |-> 0], 0)
      OBVIOUS
    <3> QED BY <3>1
  <2>2. ASSUME NEW m \in 0 .. size - 1, m \in S
        PROVE  m + 1 \in S
    <3>1. PICK f : Is(f, m)
      BY <2>2
    <3> DEFINE g == [n \in 0 .. m + 1 |-> IF n = m + 1 THEN f[m] + term(n) ELSE f[n]]
    <3>2. Is(g, m + 1)
      BY <3>1
    <3>3. m + 1 \in Nat
      OBVIOUS
    <3> HIDE DEF Is, g
    <3> QED BY <3>2, <3>3
  <2>3. size \in S
    <3> HIDE DEF S
    <3> QED BY <2>1, <2>2, UpTo
  <2> QED BY <2>3 DEF term
<1>2. ReadsOf(bytes, size, big) = CHOOSE f : IsSum(f)
  BY Zenon DEF ReadsOf
<1>3. IsSum(ReadsOf(bytes, size, big))
  <2> HIDE DEF IsSum
  <2> QED BY <1>1, <1>2, Zenon
<1> QED BY <1>3, Zenon

\* The sum, term by term.
LEMMA ReadsStep ==
    ASSUME NEW bytes, NEW size \in Nat, NEW big
    PROVE  /\ ReadsOf(bytes, size, big)[0] = 0
           /\ \A n \in 0 .. size - 1 :
                ReadsOf(bytes, size, big)[n + 1] =
                    ReadsOf(bytes, size, big)[n]
                        + bytes[n] * Weight(IF big THEN size - (n + 1) ELSE n)
<1> DEFINE f == ReadsOf(bytes, size, big)
           at(n) == IF big THEN size - n ELSE n - 1
<1>1. f = [n \in 0 .. size |-> IF n = 0 THEN 0 ELSE f[n - 1] + bytes[n - 1] * Pow2[ByteBits * at(n)]]
  BY ReadsOfIs
<1> HIDE DEF f, at
<1>2. f[0] = 0
  BY <1>1
<1>3. ASSUME NEW n \in 0 .. size - 1
      PROVE  f[n + 1] = f[n] + bytes[n] * Weight(IF big THEN size - (n + 1) ELSE n)
  <2>1. n + 1 \in 0 .. size /\ n + 1 # 0 /\ (n + 1) - 1 = n
    OBVIOUS
  <2>2. ASSUME NEW k \in 0 .. size, k # 0
        PROVE  f[k] = f[k - 1] + bytes[k - 1] * Weight(at(k))
    BY <1>1, <2>2, Zenon DEF Weight
  <2>3. f[n + 1] = f[(n + 1) - 1] + bytes[(n + 1) - 1] * Weight(at(n + 1))
    BY <2>1, <2>2
  <2>4. at(n + 1) = IF big THEN size - (n + 1) ELSE n
    BY <2>1 DEF at
  <2> QED BY <2>1, <2>3, <2>4
<1> QED BY <1>2, <1>3 DEF f

\* The sum with the least significant byte first.
LEMMA LittleStep ==
    ASSUME NEW bytes, NEW size \in Nat
    PROVE  /\ ReadsOf(bytes, size, FALSE)[0] = 0
           /\ \A n \in 0 .. size - 1 :
                ReadsOf(bytes, size, FALSE)[n + 1] =
                    ReadsOf(bytes, size, FALSE)[n] + bytes[n] * Weight(n)
<1> DEFINE at(n) == IF FALSE THEN size - (n + 1) ELSE n
<1>1. \A n \in 0 .. size - 1 : at(n) = n
  OBVIOUS
<1>2. /\ ReadsOf(bytes, size, FALSE)[0] = 0
      /\ \A n \in 0 .. size - 1 :
            ReadsOf(bytes, size, FALSE)[n + 1] =
                ReadsOf(bytes, size, FALSE)[n] + bytes[n] * Weight(at(n))
  BY ReadsStep, Zenon
<1> HIDE DEF at
<1> QED BY <1>1, <1>2

\* The sum with the most significant byte first.
LEMMA BigStep ==
    ASSUME NEW bytes, NEW size \in Nat
    PROVE  /\ ReadsOf(bytes, size, TRUE)[0] = 0
           /\ \A n \in 0 .. size - 1 :
                ReadsOf(bytes, size, TRUE)[n + 1] =
                    ReadsOf(bytes, size, TRUE)[n] + bytes[n] * Weight(size - (n + 1))
<1> DEFINE at(n) == IF TRUE THEN size - (n + 1) ELSE n
<1>1. \A n \in 0 .. size - 1 : at(n) = size - (n + 1)
  OBVIOUS
<1>2. /\ ReadsOf(bytes, size, TRUE)[0] = 0
      /\ \A n \in 0 .. size - 1 :
            ReadsOf(bytes, size, TRUE)[n + 1] =
                ReadsOf(bytes, size, TRUE)[n] + bytes[n] * Weight(at(n))
  BY ReadsStep, Zenon
<1> HIDE DEF at
<1> QED BY <1>1, <1>2

\* What is read of bytes is a number of so many bytes.
LEMMA LittleRange ==
    ASSUME NEW size \in AccessSizes, NEW bytes, \A k \in 0 .. size - 1 : bytes[k] \in 0 .. Pow2[ByteBits] - 1
    PROVE  \A n \in 0 .. size : /\ ReadsOf(bytes, size, FALSE)[n] \in 0 .. Weight(n) - 1
                                /\ ReadsOf(bytes, size, FALSE)[n] \in Nat
<1> DEFINE f == ReadsOf(bytes, size, FALSE)
           b == Pow2[ByteBits]
           S == {n \in 0 .. size : f[n] \in 0 .. Weight(n) - 1}
<1>1. /\ size \in Nat \ {0} /\ b \in Nat \ {0} /\ Weight(0) = 1
      /\ \A k \in 0 .. size : Weight(k) \in Nat \ {0}
      /\ \A k \in 0 .. size - 1 : Weight(k + 1) = Weight(k) * b
  BY Weights
<1>2. f[0] = 0 /\ \A n \in 0 .. size - 1 : f[n + 1] = f[n] + bytes[n] * Weight(n)
  BY <1>1, LittleStep
<1> HIDE DEF f, b
<1>3. 0 \in S
  BY <1>1, <1>2
<1>4. ASSUME NEW n \in 0 .. size - 1, n \in S PROVE n + 1 \in S
  <2> DEFINE w == Weight(n)
             d == bytes[n]
             x == f[n]
  <2>1. /\ w \in Nat \ {0} /\ d \in 0 .. b - 1 /\ x \in 0 .. w - 1 /\ n + 1 \in 0 .. size
        /\ f[n + 1] = x + d * w /\ Weight(n + 1) = w * b
    BY <1>1, <1>2, <1>4 DEF b
  <2> HIDE DEF w, d, x
  <2>2. d * w \in Nat /\ d * w <= (b - 1) * w /\ (b - 1) * w = (w * b) - w /\ w * b \in Nat
    BY <1>1, <2>1
  <2>3. x + d * w \in 0 .. (w * b) - 1
    BY <1>1, <2>1, <2>2
  <2> QED BY <2>1, <2>3
<1>5. 0 .. size \subseteq S
  <2> HIDE DEF S
  <2> QED BY <1>1, <1>3, <1>4, UpTo
<1>6. ASSUME NEW n \in 0 .. size PROVE f[n] \in 0 .. Weight(n) - 1 /\ f[n] \in Nat
  <2>1. n \in S /\ Weight(n) \in Nat
    BY <1>1, <1>5
  <2> QED BY <2>1
<1> QED BY <1>6 DEF f

\* The bytes of a number, the least significant first, are that number.
LEMMA LittleValue ==
    ASSUME NEW size \in AccessSizes, NEW value \in Nat, NEW bytes,
           \A k \in 0 .. size - 1 : bytes[k] = Digit(value, k)
    PROVE  Reads(bytes, size, FALSE) = Cut(value, size)
<1> DEFINE f == ReadsOf(bytes, size, FALSE)
           b == Pow2[ByteBits]
           S == {n \in 0 .. size : f[n] = value % Weight(n)}
<1>1. /\ size \in Nat \ {0} /\ b \in Nat \ {0} /\ Weight(0) = 1
      /\ \A k \in 0 .. size : Weight(k) \in Nat \ {0}
      /\ \A k \in 0 .. size - 1 : Weight(k + 1) = Weight(k) * b
  BY Weights
<1>2. f[0] = 0 /\ \A n \in 0 .. size - 1 : f[n + 1] = f[n] + bytes[n] * Weight(n)
  BY <1>1, LittleStep
<1>3. \A n \in 0 .. size - 1 : bytes[n] = (value \div Weight(n)) % b
  BY DEF Digit, Weight
<1> HIDE DEF f, b
<1>4. 0 \in S
  BY <1>1, <1>2
<1>5. ASSUME NEW n \in 0 .. size - 1, n \in S PROVE n + 1 \in S
  <2> DEFINE w == Weight(n)
             x == value % w
             d == (value \div w) % b
  <2>1. /\ w \in Nat \ {0} /\ n + 1 \in 0 .. size
        /\ f[n + 1] = x + d * w /\ Weight(n + 1) = w * b
    BY <1>1, <1>2, <1>3, <1>5
  <2> HIDE DEF w
  <2>2. value % (w * b) = w * d + x
    <3>1. value \in Int
      OBVIOUS
    <3> QED BY <1>1, <2>1, <3>1, DivDiv, Zenon
  <2>3. x \in Nat /\ value \div w \in Int
    BY <2>1
  <2>4. d \in Nat
    <3> DEFINE y == value \div w
    <3>1. y \in Int
      BY <2>3
    <3> HIDE DEF y
    <3>2. y % b \in Nat
      BY <1>1, <3>1
    <3> QED BY <3>2 DEF y
  <2> HIDE DEF x, d
  <2>5. w * d + x = x + d * w
    BY <2>1, <2>3, <2>4
  <2> QED BY <2>1, <2>2, <2>5
<1>6. 0 .. size \subseteq S
  <2> HIDE DEF S
  <2> QED BY <1>1, <1>4, <1>5, UpTo
<1>7. size \in 0 .. size
  BY <1>1
<1>8. f[size] = value % Weight(size)
  BY <1>6, <1>7
<1> QED BY <1>8 DEF f, Reads, Cut, Weight

\* A number that is read of bytes, the least significant first, has those bytes.
LEMMA LittleDigits ==
    ASSUME NEW size \in AccessSizes, NEW bytes, NEW k \in 0 .. size - 1,
           \A i \in 0 .. size - 1 : bytes[i] \in 0 .. Pow2[ByteBits] - 1
    PROVE  Digit(Reads(bytes, size, FALSE), k) = bytes[k]
<1> DEFINE f == ReadsOf(bytes, size, FALSE)
           b == Pow2[ByteBits]
           v == Weight(k)
           N == size - (k + 1)
           S == {j \in 0 .. N : (f[k + 1 + j] \div v) % b = bytes[k]}
<1>1. /\ size \in Nat \ {0} /\ b \in Nat \ {0}
      /\ \A i \in 0 .. size : Weight(i) \in Nat \ {0}
      /\ \A i \in 0 .. size - 1 : Weight(i + 1) = Weight(i) * b
      /\ \A i \in 0 .. size, j \in 0 .. size : i + j <= size => Weight(i + j) = Weight(i) * Weight(j)
  BY Weights
<1>2. f[0] = 0 /\ \A n \in 0 .. size - 1 : f[n + 1] = f[n] + bytes[n] * Weight(n)
  BY <1>1, LittleStep
<1>3. \A n \in 0 .. size : f[n] \in 0 .. Weight(n) - 1
  BY LittleRange
<1>4. \A i \in 0 .. size - 1 : bytes[i] \in 0 .. b - 1
  OBVIOUS
<1>5. N \in Nat /\ v \in Nat \ {0} /\ k \in Nat
  BY <1>1
<1> HIDE DEF f, b, v
<1>6. 0 \in S
  <2> DEFINE x == f[k]
             d == bytes[k]
             y == f[k + 1]
  <2>1. x \in 0 .. v - 1 /\ d \in 0 .. b - 1 /\ y = x + d * v /\ k + 1 + 0 = k + 1
    BY <1>1, <1>2, <1>3, <1>4 DEF v
  <2> HIDE DEF x, d, y
  <2>2. y \in Int /\ y = v * d + x /\ d \in Int
    BY <1>5, <2>1
  <2>3. y \div v = d
    <3>1. x \in 0 .. v - 1
      BY <2>1
    <3> QED BY <1>5, <2>2, <3>1, Unique
  <2>4. d % b = d
    BY <1>1, <2>1, ModSmall
  <2> QED BY <1>5, <2>1, <2>3, <2>4 DEF y, d
<1>7. ASSUME NEW j \in 0 .. N - 1, j \in S PROVE j + 1 \in S
  <2> DEFINE n == k + 1 + j
             x == f[n]
             d == bytes[n]
             c == Weight(j)
             q == x \div v
             g == c * d
             e == b * g
  <2>1. n \in 0 .. size - 1 /\ n + 1 = k + 1 + (j + 1) /\ j + 1 \in 0 .. N /\ n \in 0 .. size
    BY <1>1, <1>5
  <2>2. q % b = bytes[k]
    BY <1>7
  <2>3. /\ x \in Nat /\ d \in Nat /\ c \in Nat
        /\ f[n + 1] = x + d * Weight(n)
        /\ Weight(n) = v * (b * c)
    <3>1. f[n + 1] = x + d * Weight(n) /\ x \in 0 .. Weight(n) - 1 /\ d \in 0 .. b - 1 /\ Weight(n) \in Nat
      BY <1>1, <1>2, <1>3, <1>4, <2>1
    <3>2. j \in 0 .. size - 1 /\ j + 1 \in 0 .. size /\ k \in 0 .. size /\ j \in 0 .. size
          /\ n = k + (j + 1) /\ k + (j + 1) <= size
      BY <1>1, <1>5
    <3>3. Weight(j + 1) = c * b /\ c \in Nat /\ Weight(k + (j + 1)) = v * Weight(j + 1)
      BY <1>1, <3>2 DEF v
    <3>4. c * b = b * c
      BY <1>1, <3>3
    <3>5. Weight(n) = v * (b * c)
      BY <3>2, <3>3, <3>4
    <3> QED BY <1>1, <3>1, <3>3, <3>5
  <2> HIDE DEF x, d, c
  <2>4. g \in Int /\ e \in Int /\ f[n + 1] = x + v * e /\ x \in Int /\ q \in Int
    BY <1>1, <1>5, <2>3
  <2> HIDE DEF g
  <2>5. (q + b * g) % b = q % b
    <3> HIDE DEF q
    <3> QED BY <1>1, <2>4, ModApart
  <2> HIDE DEF e
  <2>6. (x + v * e) \div v = q + e
    BY <1>5, <2>4, ModApart, Zenon DEF q
  <2> QED BY <2>1, <2>2, <2>4, <2>5, <2>6 DEF e
<1>8. 0 .. N \subseteq S
  <2> HIDE DEF S, N
  <2> QED BY <1>5, <1>6, <1>7, UpTo
<1>9. N \in S /\ k + 1 + N = size
  <2>1. k + 1 + N = size /\ N \in 0 .. N
    BY <1>1, <1>5
  <2> HIDE DEF S, N
  <2> QED BY <1>8, <2>1
<1> QED BY <1>9 DEF Digit, Reads, f, b, v, Weight

\* The most significant first is the least significant first, from the other end.
LEMMA BigIsLittle ==
    ASSUME NEW size \in AccessSizes, NEW bytes, NEW turned,
           \A k \in 0 .. size - 1 : bytes[k] \in 0 .. Pow2[ByteBits] - 1,
           \A k \in 0 .. size - 1 : turned[k] = bytes[size - 1 - k]
    PROVE  Reads(bytes, size, TRUE) = Reads(turned, size, FALSE)
<1> DEFINE f == ReadsOf(bytes, size, TRUE)
           g == ReadsOf(turned, size, FALSE)
           S == {n \in 0 .. size : f[n] \in Int /\ f[n] + g[size - n] = g[size]}
<1>1. /\ size \in Nat \ {0} /\ Pow2[ByteBits] \in Nat
      /\ \A k \in 0 .. size : Weight(k) \in Nat \ {0}
  BY Weights
<1>2. f[0] = 0 /\ \A n \in 0 .. size - 1 : f[n + 1] = f[n] + bytes[n] * Weight(size - (n + 1))
  BY <1>1, BigStep
<1>3. g[0] = 0 /\ \A n \in 0 .. size - 1 : g[n + 1] = g[n] + turned[n] * Weight(n)
  BY <1>1, LittleStep
<1>4. \A n \in 0 .. size : g[n] \in Int
  <2>1. ASSUME NEW k \in 0 .. size - 1 PROVE turned[k] \in 0 .. Pow2[ByteBits] - 1
    <3>1. size - 1 - k \in 0 .. size - 1
      BY <1>1
    <3> QED BY <3>1
  <2>2. \A n \in 0 .. size : g[n] \in Nat
    BY <2>1, LittleRange
  <2> HIDE DEF g
  <2> QED BY <2>2
<1> HIDE DEF f, g
<1>5. 0 \in S
  BY <1>1, <1>2, <1>4
<1>6. ASSUME NEW n \in 0 .. size - 1, n \in S PROVE n + 1 \in S
  <2> DEFINE i == size - (n + 1)
             w == Weight(i)
             d == bytes[n]
  <2>1. /\ i \in 0 .. size - 1 /\ i \in 0 .. size /\ i + 1 = size - n /\ size - 1 - i = n
        /\ n + 1 \in 0 .. size /\ n \in 0 .. size /\ size \in 0 .. size
    BY <1>1
  <2>2. g[size - n] = g[i] + d * w
    <3>1. g[i + 1] = g[i] + turned[i] * w
      BY <1>3, <2>1
    <3>2. turned[i] = bytes[size - 1 - i]
      BY <2>1
    <3> HIDE DEF i
    <3> QED BY <2>1, <3>1, <3>2
  <2>3. f[n + 1] = f[n] + d * w
    BY <1>2
  <2>4. f[n] \in Int /\ f[n] + g[size - n] = g[size]
    BY <1>6
  <2>5. d * w \in Int
    <3>1. d \in Int /\ w \in Int
      BY <1>1, <2>1
    <3> HIDE DEF d, w
    <3> QED BY <3>1
  <2>6. g[i] \in Int
    BY <1>4, <2>1
  <2> DEFINE x == d * w
  <2> HIDE DEF x
  <2>7. f[n + 1] \in Int /\ f[n + 1] + g[i] = g[size]
    BY <2>2, <2>3, <2>4, <2>5, <2>6 DEF x
  <2> QED BY <2>1, <2>7
<1>7. 0 .. size \subseteq S
  <2> HIDE DEF S
  <2> QED BY <1>1, <1>5, <1>6, UpTo
<1>8. size \in S /\ size - size = 0
  BY <1>1, <1>7
<1>9. f[size] = g[size]
  BY <1>1, <1>3, <1>8
<1> QED BY <1>9 DEF Reads, f, g

\* A digit is a byte.
LEMMA DigitRange ==
    ASSUME NEW size \in AccessSizes, NEW value \in Nat, NEW k \in 0 .. size - 1
    PROVE  Digit(value, k) \in 0 .. Pow2[ByteBits] - 1
<1> DEFINE b == Pow2[ByteBits]
           w == Weight(k)
           q == value \div w
<1>1. b \in Nat \ {0} /\ w \in Nat \ {0}
  BY Weights
<1> HIDE DEF b, w
<1>2. q \in Int
  BY <1>1
<1> HIDE DEF q
<1>3. q % b \in 0 .. b - 1
  BY <1>1, <1>2
<1> QED BY <1>3 DEF Digit, b, w, q, Weight

\* What is cut off has none of the digits that are left.
LEMMA DigitCut ==
    ASSUME NEW size \in AccessSizes, NEW value \in Nat, NEW k \in 0 .. size - 1
    PROVE  Digit(Cut(value, size), k) = Digit(value, k) /\ Cut(value, size) \in Nat
<1> DEFINE b == Pow2[ByteBits]
           w == Weight(k)
           j == size - (k + 1)
           c == Weight(j)
           M == Weight(size)
<1>1. /\ size \in Nat \ {0} /\ b \in Nat \ {0}
      /\ \A i \in 0 .. size : Weight(i) \in Nat \ {0}
      /\ Weight(k + 1) = w * b
      /\ \A i \in 0 .. size, n \in 0 .. size : i + n <= size => Weight(i + n) = Weight(i) * Weight(n)
  BY Weights
<1>2. /\ k \in 0 .. size /\ k + 1 \in 0 .. size /\ j \in 0 .. size /\ (k + 1) + j = size
      /\ size \in 0 .. size
  BY <1>1
<1>3. M = (w * b) * c /\ w \in Nat \ {0} /\ c \in Nat \ {0} /\ M \in Nat \ {0}
  <2>1. Weight((k + 1) + j) = Weight(k + 1) * Weight(j)
    <3> HIDE DEF j
    <3> QED BY <1>1, <1>2
  <2> QED BY <1>1, <1>2, <2>1
<1> HIDE DEF b, w, c, M
<1>4. PICK q \in Int, t \in 0 .. M - 1 : value = M * q + t /\ value \div M = q /\ value % M = t
  <2>1. value \in Int
    OBVIOUS
  <2> QED BY <1>3, <2>1, DivMod, Zenon
<1> DEFINE g == c * q
           e == b * g
           p == t \div w
<1>5. g \in Int /\ e \in Int /\ value = t + w * e /\ t \in Nat
  BY <1>1, <1>3, <1>4
<1>6. p \in Int
  BY <1>3, <1>5
<1> HIDE DEF g, p
<1>7. (p + b * g) % b = p % b
  BY <1>1, <1>5, <1>6, ModApart
<1> HIDE DEF e
<1>8. (t + w * e) \div w = (t \div w) + e
  <2>1. t \in Int
    BY <1>5
  <2> QED BY <1>3, <1>5, <2>1, ModApart, Zenon
<1>9. (value \div w) % b = (t \div w) % b
  BY <1>5, <1>7, <1>8 DEF p, e
<1> QED BY <1>4, <1>5, <1>9 DEF Digit, Cut, b, w, M, Weight

\* A number that is read of bytes has those bytes.
LEMMA ReadsDigits ==
    ASSUME NEW size \in AccessSizes, NEW bytes, NEW big \in BOOLEAN, NEW k \in 0 .. size - 1,
           \A i \in 0 .. size - 1 : bytes[i] \in 0 .. Pow2[ByteBits] - 1
    PROVE  /\ Digit(Reads(bytes, size, big), k) = bytes[IF big THEN size - 1 - k ELSE k]
           /\ Reads(bytes, size, big) \in Nat
<1>1. size \in Nat \ {0} /\ size \in 0 .. size /\ \A i \in 0 .. size : Weight(i) \in Nat \ {0}
  BY Weights
<1>2. ASSUME NEW d, \A i \in 0 .. size - 1 : d[i] \in 0 .. Pow2[ByteBits] - 1
      PROVE  Digit(Reads(d, size, FALSE), k) = d[k] /\ Reads(d, size, FALSE) \in Nat
  <2>1. Digit(Reads(d, size, FALSE), k) = d[k]
    BY <1>2, LittleDigits
  <2>2. Reads(d, size, FALSE) \in Nat
    BY <1>1, <1>2, LittleRange DEF Reads
  <2> QED BY <2>1, <2>2
<1>3. CASE big = FALSE
  BY <1>2, <1>3
<1>4. CASE big = TRUE
  <2> DEFINE d == [i \in 0 .. size - 1 |-> bytes[size - 1 - i]]
  <2>1. ASSUME NEW i \in 0 .. size - 1
        PROVE  d[i] = bytes[size - 1 - i] /\ d[i] \in 0 .. Pow2[ByteBits] - 1
    <3>1. size - 1 - i \in 0 .. size - 1
      BY <1>1
    <3> QED BY <3>1
  <2> HIDE DEF d
  <2>2. Reads(bytes, size, TRUE) = Reads(d, size, FALSE)
    BY <2>1, BigIsLittle
  <2>3. Digit(Reads(d, size, FALSE), k) = d[k] /\ Reads(d, size, FALSE) \in Nat
    BY <1>2, <2>1
  <2> QED BY <1>4, <2>1, <2>2, <2>3
<1> QED BY <1>3, <1>4

\* The bytes of a value, read in the order that they were stored in, are the value.
LEMMA StoredReads ==
    ASSUME NEW size \in AccessSizes, NEW value \in Nat, NEW big \in BOOLEAN
    PROVE  /\ Reads(store_bytes(value, size, big), size, big) = Cut(value, size)
           /\ \A k \in 0 .. size - 1 :
                store_bytes(value, size, big)[k] \in 0 .. Pow2[ByteBits] - 1
<1> DEFINE s == store_bytes(value, size, big)
<1>1. size \in Nat \ {0}
  BY Weights
<1>2. ASSUME NEW k \in 0 .. size - 1
      PROVE  /\ s[k] = Digit(value, IF big THEN size - 1 - k ELSE k)
             /\ s[k] \in 0 .. Pow2[ByteBits] - 1
  <2>1. s[k] = Digit(value, IF big THEN size - 1 - k ELSE k)
    BY DEF store_bytes
  <2>2. (IF big THEN size - 1 - k ELSE k) \in 0 .. size - 1
    BY <1>1
  <2> QED BY <2>1, <2>2, DigitRange
<1> HIDE DEF s
<1>3. CASE big = FALSE
  <2>1. \A k \in 0 .. size - 1 : s[k] = Digit(value, k)
    BY <1>2, <1>3
  <2> QED BY <1>2, <1>3, <2>1, LittleValue DEF s
<1>4. CASE big = TRUE
  <2> DEFINE d == [k \in 0 .. size - 1 |-> Digit(value, k)]
  <2>1. ASSUME NEW k \in 0 .. size - 1 PROVE d[k] = s[size - 1 - k]
    <3> DEFINE i == size - 1 - k
    <3>1. i \in 0 .. size - 1 /\ size - 1 - i = k
      BY <1>1
    <3>2. s[i] = Digit(value, size - 1 - i)
      BY <1>2, <1>4, <3>1
    <3> QED BY <3>1, <3>2
  <2>2. \A k \in 0 .. size - 1 : d[k] = Digit(value, k)
    OBVIOUS
  <2> HIDE DEF d
  <2>3. Reads(d, size, FALSE) = Cut(value, size)
    BY <2>2, LittleValue
  <2>4. Reads(s, size, TRUE) = Reads(d, size, FALSE)
    BY <1>2, <2>1, BigIsLittle
  <2> QED BY <1>2, <1>4, <2>3, <2>4 DEF s
<1> QED BY <1>3, <1>4

\* A swap turns the digits around.
LEMMA Swap ==
    ASSUME NEW size \in AccessSizes, NEW value \in Nat, NEW k \in 0 .. size - 1
    PROVE  Digit(Bswap(value, size), k) = Digit(value, size - 1 - k)
<1> DEFINE d == [i \in 0 .. size - 1 |-> Digit(value, i)]
<1>1. size \in Nat \ {0}
  BY Weights
<1>2. \A i \in 0 .. size - 1 : d[i] = Digit(value, i) /\ d[i] \in 0 .. Pow2[ByteBits] - 1
  BY DigitRange
<1>3. Bswap(value, size) = Reads(d, size, TRUE)
  BY DEF Bswap
<1>4. size - 1 - k \in 0 .. size - 1
  BY <1>1
<1> HIDE DEF d
<1>5. Digit(Reads(d, size, TRUE), k) = d[size - 1 - k]
  <2>1. \A i \in 0 .. size - 1 : d[i] \in 0 .. Pow2[ByteBits] - 1
    BY <1>2
  <2> QED BY <2>1, ReadsDigits
<1> QED BY <1>2, <1>3, <1>4, <1>5

\* An instruction stores what a call does, on a host of either order.
LEMMA StoreInstructionIs ==
    ASSUME NEW size \in AccessSizes, NEW value \in Nat, NEW big \in BOOLEAN, NEW bigHost \in BOOLEAN
    PROVE  storeInstruction(value, size, big, bigHost) = store_bytes(value, size, big)
<1> DEFINE x == Cut(value, size)
           y == swapped(x, size, big, bigHost)
           at(k) == IF bigHost THEN size - 1 - k ELSE k
           to(k) == IF big THEN size - 1 - k ELSE k
<1>1. size \in Nat \ {0}
  BY Weights
<1>2. x \in Nat /\ \A k \in 0 .. size - 1 : Digit(x, k) = Digit(value, k)
  <2>1. 0 \in 0 .. size - 1
    BY <1>1
  <2> QED BY <2>1, DigitCut
<1>3. ASSUME NEW k \in 0 .. size - 1 PROVE Digit(y, at(k)) = Digit(value, to(k))
  <2>1. k \in 0 .. size - 1 /\ size - 1 - k \in 0 .. size - 1 /\ size - 1 - (size - 1 - k) = k
    BY <1>1
  <2> HIDE DEF x
  <2>2. CASE size = 1 \/ big = bigHost
    <3>1. y = x /\ at(k) = to(k) /\ to(k) \in 0 .. size - 1
      BY <1>1, <2>1, <2>2 DEF swapped
    <3> QED BY <1>2, <3>1
  <2>3. CASE ~(size = 1 \/ big = bigHost)
    <3>1. y = Bswap(x, size)
      BY <2>3 DEF swapped
    <3>2. \A i \in 0 .. size - 1 : Digit(Bswap(x, size), i) = Digit(x, size - 1 - i)
      BY <1>2, Swap
    <3>3. CASE big
      <4>1. at(k) = k /\ to(k) = size - 1 - k
        BY <2>3, <3>3
      <4> QED BY <1>2, <2>1, <3>1, <3>2, <4>1
    <3>4. CASE ~big
      <4>1. at(k) = size - 1 - k /\ to(k) = k
        BY <2>3, <3>4
      <4>2. Digit(Bswap(x, size), size - 1 - k) = Digit(x, k)
        BY <2>1, <3>2
      <4> QED BY <1>2, <2>1, <3>1, <4>1, <4>2
    <3> QED BY <3>3, <3>4
  <2> QED BY <2>2, <2>3
<1>4. storeInstruction(value, size, big, bigHost) = [k \in 0 .. size - 1 |-> Digit(y, at(k))]
  BY DEF storeInstruction, HostStore
<1>5. store_bytes(value, size, big) = [k \in 0 .. size - 1 |-> Digit(value, to(k))]
  BY DEF store_bytes
<1> HIDE DEF y, at, to
<1> QED BY <1>3, <1>4, <1>5

\* An instruction loads what was stored, on a host of either order.
LEMMA LoadInstructionIs ==
    ASSUME NEW size \in AccessSizes, NEW value \in Nat, NEW big \in BOOLEAN, NEW bigHost \in BOOLEAN
    PROVE  loadInstruction(store_bytes(value, size, big), size, big, bigHost) = Cut(value, size)
<1> DEFINE s == store_bytes(value, size, big)
           z == Reads(s, size, bigHost)
<1>1. size \in Nat \ {0}
  BY Weights
<1>2. Reads(s, size, big) = Cut(value, size) /\ \A k \in 0 .. size - 1 : s[k] \in 0 .. Pow2[ByteBits] - 1
  BY StoredReads
<1>3. \A k \in 0 .. size - 1 : s[k] = Digit(value, IF big THEN size - 1 - k ELSE k)
  BY DEF store_bytes
<1>4. loadInstruction(s, size, big, bigHost) = swapped(z, size, big, bigHost)
  BY DEF loadInstruction
<1> HIDE DEF s
<1>5. CASE big = bigHost
  BY <1>2, <1>4, <1>5 DEF swapped, s
<1>6. CASE size = 1
  <2>1. \A k \in 0 .. size - 1 : s[k] = s[size - 1 - k]
    BY <1>6
  <2>2. Reads(s, size, TRUE) = Reads(s, size, FALSE)
    BY <1>2, <2>1, BigIsLittle
  <2>3. z = Reads(s, size, big)
    BY <2>2
  <2> QED BY <1>2, <1>4, <1>6, <2>3 DEF swapped, s
<1>7. CASE ~(size = 1 \/ big = bigHost)
  <2>1. z \in Nat
    <3>1. 0 \in 0 .. size - 1
      BY <1>1
    <3> QED BY <1>2, <3>1, ReadsDigits
  <2>2. ASSUME NEW k \in 0 .. size - 1 PROVE Digit(z, k) = Digit(value, size - 1 - k)
    <3>1. size - 1 - k \in 0 .. size - 1
      BY <1>1
    <3>2. Digit(z, k) = s[IF bigHost THEN size - 1 - k ELSE k]
      BY <1>2, ReadsDigits
    <3> HIDE DEF z
    <3> QED BY <1>3, <1>7, <3>1, <3>2
  <2> DEFINE d == [k \in 0 .. size - 1 |-> Digit(z, k)]
  <2>3. Bswap(z, size) = Reads(d, size, TRUE)
    BY DEF Bswap
  <2>4. d = store_bytes(value, size, TRUE)
    <3> HIDE DEF z
    <3>1. store_bytes(value, size, TRUE) = [k \in 0 .. size - 1 |-> Digit(value, size - 1 - k)]
      BY DEF store_bytes
    <3> QED BY <2>2, <3>1
  <2>5. Reads(d, size, TRUE) = Cut(value, size)
    BY <2>4, StoredReads
  <2>6. swapped(z, size, big, bigHost) = Bswap(z, size)
    BY <1>7 DEF swapped
  <2> QED BY <1>4, <2>3, <2>5, <2>6 DEF s
<1> QED BY <1>5, <1>6, <1>7

\* A store and a load agree on the bytes of a value and on their order, whether an instruction
\* or a call does each, for words, bytes and hosts of any kind; and so does the log.
THEOREM BytesAlwaysAgree == OpsSpec => []BytesAgree
<1>1. OpsInit => BytesAgree
  BY DEF OpsInit, BytesAgree
<1>2. BytesAgree /\ [OpsNext]_computed => BytesAgree'
  <2> SUFFICES ASSUME BytesAgree, [OpsNext]_computed PROVE BytesAgree'
    OBVIOUS
  <2>1. CASE UNCHANGED computed
    BY <2>1 DEF BytesAgree
  <2>2. ASSUME NEW value \in Below(HostBits), NEW size \in 1 .. HostBits \div ByteBits,
               NEW big \in BOOLEAN, NEW bigHost \in BOOLEAN,
               NEW stores \in {"instruction", "bytes"}, NEW loads \in {"instruction", "bytes"},
               StoreAndLoad(value, size, big, bigHost, stores, loads)
        PROVE  BytesAgree'
    <3> DEFINE s == store_bytes(value, size, big)
    <3>1. HostBits \in Widths /\ size \in AccessSizes
      BY OpsAssumption DEF Widths, AccessSizes
    <3>2. value \in Nat
      BY <3>1, SignedRange
    <3>3. storeInstruction(value, size, big, bigHost) = s
      BY <3>1, <3>2, StoreInstructionIs
    <3>4. loadInstruction(s, size, big, bigHost) = Cut(value, size)
      BY <3>1, <3>2, LoadInstructionIs
    <3>5. Reads(s, size, big) = Cut(value, size)
      BY <3>1, <3>2, StoredReads
    <3>6. note(value, size, big) = s /\ load_bytes(s, size, big) = Reads(s, size, big)
      BY DEF note, store_bytes, load_bytes
    <3> HIDE DEF s
    <3>7. /\ computed'.of = <<value, size, big, bigHost, stores, loads>>
          /\ computed'.bytes = s /\ computed'.logged = s /\ computed'.loaded = Cut(value, size)
      BY <2>2, <3>3, <3>4, <3>5, <3>6 DEF StoreAndLoad, s
    <3> QED BY <3>5, <3>7 DEF BytesAgree
  <2>3. ASSUME computed'.kind # "bytes" PROVE BytesAgree'
    BY <2>3 DEF BytesAgree
  <2>4. ASSUME NEW op, NEW w, NEW l, NEW r, Binary(op, w, l, r) PROVE computed'.kind # "bytes"
    BY <2>4 DEF Binary
  <2>5. ASSUME NEW op, NEW w, NEW l, NEW n, Cast(op, w, l, n) PROVE computed'.kind # "bytes"
    BY <2>5 DEF Cast
  <2>6. ASSUME NEW w, NEW l, NEW low, NEW n, Extract(w, l, low, n) PROVE computed'.kind # "bytes"
    BY <2>6 DEF Extract
  <2>7. ASSUME NEW w, NEW l, NEW n, NEW r, Concat(w, l, n, r) PROVE computed'.kind # "bytes"
    BY <2>7 DEF Concat
  <2> QED BY <2>1, <2>2, <2>3, <2>4, <2>5, <2>6, <2>7 DEF OpsNext
<1> QED BY <1>1, <1>2, PTL DEF OpsSpec

-----------------------------------------------------------------------------
(* The budget of a run. *)

Frame == [block : Blocks, at : Nat \ {0}]

Shape ==
    /\ successors \in [Blocks -> Seq(Blocks)]
    /\ checking \in SUBSET Blocks
    /\ stage \in {"compile", "search", "run", "left"}
    /\ stack \in Seq(Frame)
    /\ visit \in [Blocks -> 0 .. 2]
    /\ targets \in SUBSET Blocks
    /\ inCopy \in BOOLEAN
    /\ block \in Blocks
    /\ rest \in Nat

\* What is being visited is what is on the stack, and a target was found in a search.
OnStack ==
    /\ \A i, j \in DOMAIN stack : stack[i].block = stack[j].block => i = j
    /\ \A b \in Blocks : visit[b] = 1 <=> \E i \in DOMAIN stack : stack[i].block = b
    /\ \A b \in targets : visit[b] # 0
    /\ stage = "compile" => stack = << >> /\ \A b \in Blocks : visit[b] = 0
    /\ stage # "compile" => visit[Start] # 0
    /\ stage \in {"run", "left"} => stack = << >> /\ visit[block] = 2

\* What has been looked at from a block on the stack is a target, is finished, or is what the
\* search went to from it.
Looked ==
    \A i \in DOMAIN stack :
        \A k \in DOMAIN successors[stack[i].block] :
            k < stack[i].at =>
                LET next == successors[stack[i].block][k]
                IN  \/ next \in targets
                    \/ visit[next] = 2
                    \/ i + 1 \in DOMAIN stack /\ next = stack[i + 1].block

\* Numbers of finished blocks, in the order in which they were.
Finished(rank, bound) ==
    \A b \in Blocks :
        visit[b] = 2 =>
            /\ rank[b] < bound
            /\ \A k \in DOMAIN successors[b] :
                  LET next == successors[b][k]
                  IN  next \in targets \/ (visit[next] = 2 /\ rank[next] < rank[b])

\* The checks that a run in the copy can still come to before a target.
Ahead(rank) == {c \in checking : rank[c] <= rank[block]}

Enough(rank) == stage = "run" /\ inCopy => Cardinality(Ahead(rank)) <= rest

Ranked ==
    \E rank \in [Blocks -> Nat], bound \in Nat : Finished(rank, bound) /\ Enough(rank)

Sound == Shape /\ OnStack /\ Looked /\ Ranked

LEMMA SoundInit == BudgetInit => Sound
<1> SUFFICES ASSUME BudgetInit PROVE Sound
  OBVIOUS
<1>1. /\ successors = [b \in Blocks |-> << >>] /\ checking = {} /\ stage = "compile"
      /\ stack = << >> /\ visit = [b \in Blocks |-> 0] /\ targets = {}
      /\ inCopy = FALSE /\ block = Start /\ rest = 0
  BY DEF BudgetInit
<1>2. Shape
  <2>1. << >> \in Seq(Blocks) /\ << >> \in Seq(Frame)
    BY EmptySeq
  <2>2. successors \in [Blocks -> Seq(Blocks)]
    BY <1>1, <2>1
  <2>3. visit \in [Blocks -> 0 .. 2]
    BY <1>1
  <2>4. stack \in Seq(Frame)
    BY <1>1, <2>1
  <2>5. inCopy \in BOOLEAN
    BY <1>1
  <2> QED BY <1>1, <2>2, <2>3, <2>4, <2>5, BudgetAssumption DEF Shape
<1>3. OnStack /\ Looked
  BY <1>1 DEF OnStack, Looked
<1>4. [b \in Blocks |-> 0] \in [Blocks -> Nat] /\ 0 \in Nat
  OBVIOUS
<1>5. Finished([b \in Blocks |-> 0], 0) /\ Enough([b \in Blocks |-> 0])
  BY <1>1 DEF Finished, Enough
<1> QED BY <1>2, <1>3, <1>4, <1>5, Zenon DEF Sound, Ranked

-----------------------------------------------------------------------------
(* The search. *)

LEMMA SoundCompile ==
    ASSUME Sound, stage = "compile", NEW checked \in SUBSET Blocks,
           NEW succ \in [Blocks -> {<< >>} \cup {<<b>> : b \in Blocks} \cup {<<b, c>> : b, c \in Blocks}],
           Compile(succ, checked)
    PROVE  Sound'
<1>1. /\ successors' = succ /\ checking' = checked /\ stage' = "search"
      /\ stack' = <<[block |-> Start, at |-> 1]>> /\ visit' = [visit EXCEPT ![Start] = 1]
      /\ UNCHANGED <<targets, inCopy, block, rest>>
      /\ stack = << >>
  BY DEF Compile, Sound, OnStack
<1>2. succ \in [Blocks -> Seq(Blocks)]
  <2>1. ASSUME NEW b \in Blocks PROVE succ[b] \in Seq(Blocks)
    <3>1. CASE succ[b] = << >>
      BY <3>1, EmptySeq
    <3>2. CASE \E c \in Blocks : succ[b] = <<c>>
      BY <3>2
    <3>3. CASE \E c, d \in Blocks : succ[b] = <<c, d>>
      BY <3>3
    <3> QED BY <3>1, <3>2, <3>3
  <2> QED BY <2>1
<1>3. [block |-> Start, at |-> 1] \in Frame
  BY BudgetAssumption DEF Frame
<1>4. /\ stack' \in Seq(Frame) /\ DOMAIN stack' = {1}
      /\ stack'[1].block = Start /\ stack'[1].at = 1
  BY <1>1, <1>3
<1>5. visit' \in [Blocks -> 0 .. 2] /\ \A b \in Blocks : visit'[b] = IF b = Start THEN 1 ELSE visit[b]
  BY <1>1, BudgetAssumption DEF Sound, Shape
<1>6. Shape'
  BY <1>1, <1>2, <1>4, <1>5 DEF Sound, Shape
<1>7. \A b \in Blocks : visit[b] = 0
  BY DEF Sound, OnStack
<1>8. OnStack'
  BY <1>1, <1>4, <1>5, <1>7, BudgetAssumption DEF Sound, Shape, OnStack
<1>9. Looked'
  <2>1. \A k \in DOMAIN succ[Start] : ~(k < 1)
    BY <1>2, BudgetAssumption
  <2> QED BY <1>1, <1>4, <2>1 DEF Looked
<1>10. Ranked'
  <2>1. \A b \in Blocks : visit'[b] # 2
    BY <1>5, <1>7
  <2>2. PICK rank \in [Blocks -> Nat] : TRUE
    BY DEF Sound, Ranked
  <2>3. Finished(rank, 0)' /\ Enough(rank)'
    BY <1>1, <2>1 DEF Finished, Enough
  <2> QED BY <2>3 DEF Ranked
<1> QED BY <1>6, <1>8, <1>9, <1>10 DEF Sound

\* The top of the stack.
LEMMA TopFact ==
    ASSUME Shape, stack # << >>
    PROVE  /\ Len(stack) \in Nat \ {0} /\ DOMAIN stack = 1 .. Len(stack)
           /\ Len(stack) \in DOMAIN stack
           /\ \A i \in DOMAIN stack : stack[i] \in Frame /\ stack[i].block \in Blocks /\ stack[i].at \in Nat \ {0}
           /\ \A b \in Blocks : /\ successors[b] \in Seq(Blocks)
                                /\ DOMAIN successors[b] = 1 .. Len(successors[b])
                                /\ Len(successors[b]) \in Nat
                                /\ \A k \in DOMAIN successors[b] : successors[b][k] \in Blocks
<1>1. Len(stack) \in Nat \ {0} /\ DOMAIN stack = 1 .. Len(stack)
  BY EmptySeq, LenProperties DEF Shape
<1>2. \A i \in DOMAIN stack : stack[i] \in Frame
  BY <1>1, ElementOfSeq DEF Shape
<1>3. ASSUME NEW b \in Blocks
      PROVE  /\ successors[b] \in Seq(Blocks)
             /\ DOMAIN successors[b] = 1 .. Len(successors[b])
             /\ Len(successors[b]) \in Nat
             /\ \A k \in DOMAIN successors[b] : successors[b][k] \in Blocks
  BY LenProperties DEF Shape
<1> QED BY <1>1, <1>2, <1>3 DEF Frame

\* One more is looked at from the top of the stack.
LEMMA MovedFact ==
    ASSUME Shape, stack # << >>, NEW moved, moved = [stack EXCEPT ![Len(stack)].at = @ + 1]
    PROVE  /\ moved \in Seq(Frame) /\ Len(moved) = Len(stack) /\ DOMAIN moved = DOMAIN stack
           /\ \A i \in DOMAIN stack :
                 /\ moved[i].block = stack[i].block
                 /\ moved[i].at = IF i = Len(stack) THEN stack[i].at + 1 ELSE stack[i].at
<1>1. PICK n : n = Len(stack)
  OBVIOUS
<1>2. PICK top : top = [stack[n] EXCEPT !.at = @ + 1]
  OBVIOUS
<1>3. n \in 1 .. Len(stack) /\ stack[n] \in Frame /\ stack[n].at \in Nat \ {0} /\ DOMAIN stack = 1 .. n
  BY <1>1, TopFact
<1>4. top \in Frame /\ top.block = stack[n].block /\ top.at = stack[n].at + 1
  BY <1>2, <1>3 DEF Frame
<1>5. moved = [stack EXCEPT ![n] = top]
  BY <1>1, <1>2
<1>6. stack \in Seq(Frame)
  BY DEF Shape
<1>7. /\ moved \in Seq(Frame) /\ Len(moved) = Len(stack)
      /\ \A i \in 1 .. Len(stack) : moved[i] = IF i = n THEN top ELSE stack[i]
  <2>1. top \in Frame /\ n \in 1 .. Len(stack)
    BY <1>3, <1>4
  <2>2. \A seq \in Seq(Frame) : \A i \in 1 .. Len(seq), e \in Frame :
           /\ [seq EXCEPT ![i] = e] \in Seq(Frame)
           /\ Len([seq EXCEPT ![i] = e]) = Len(seq)
    BY ExceptSeq
  <2>3. moved \in Seq(Frame) /\ Len(moved) = Len(stack)
    BY <1>5, <1>6, <2>1, <2>2
  <2> QED BY <1>3, <1>5, <2>3
<1>8. DOMAIN moved = DOMAIN stack
  BY <1>3, <1>5
<1> QED BY <1>1, <1>3, <1>4, <1>7, <1>8

\* What a step of the search leaves alone.
SearchKeeps ==
    /\ stage = "search"
    /\ UNCHANGED <<successors, checking, stage, inCopy, block, rest>>

\* The search is at the n-th of the stack, a block b of which `next' is looked at.
AtTop(n, b, at, next) ==
    /\ n \in Nat \ {0} /\ DOMAIN stack = 1 .. n
    /\ b \in Blocks /\ at \in Nat \ {0} /\ at \in DOMAIN successors[b] /\ next \in Blocks
    /\ b = stack[n].block /\ at = stack[n].at /\ next = successors[b][at]

\* That has been looked at, and the stack is of `size'.
LookedAt(n, at, size) ==
    /\ stack' \in Seq(Frame)
    /\ DOMAIN stack' = 1 .. size
    /\ \A i \in 1 .. n : /\ stack'[i].block = stack[i].block
                         /\ stack'[i].at = IF i = n THEN at + 1 ELSE stack[i].at

LEMMA SoundLook ==
    ASSUME Sound, stack # << >>, SearchKeeps, NEW n, NEW b, NEW at, NEW next,
           AtTop(n, b, at, next), visit[next] # 0, LookedAt(n, at, n), visit' = visit,
           targets' = IF visit[next] = 1 THEN targets \cup {next} ELSE targets
    PROVE  Sound'
<1>1. /\ stack' \in Seq(Frame) /\ DOMAIN stack' = DOMAIN stack
      /\ \A i \in DOMAIN stack :
            /\ stack'[i].block = stack[i].block
            /\ stack'[i].at = IF i = n THEN at + 1 ELSE stack[i].at
  BY DEF AtTop, LookedAt
<1>2. /\ n \in Nat \ {0} /\ DOMAIN stack = 1 .. n /\ n \in DOMAIN stack
      /\ b \in Blocks /\ at \in Nat \ {0} /\ at \in DOMAIN successors[b] /\ next \in Blocks
      /\ b = stack[n].block /\ at = stack[n].at /\ next = successors[b][at]
  BY DEF AtTop
<1>3. UNCHANGED <<successors, checking, stage, inCopy, block, rest>> /\ stage = "search"
  BY DEF SearchKeeps
<1>4. Shape'
  BY <1>1, <1>2, <1>3 DEF Sound, Shape
<1>5. OnStack'
  <2>1. /\ \A i, j \in DOMAIN stack' : stack'[i].block = stack'[j].block => i = j
        /\ \A c \in Blocks : visit'[c] = 1 <=> \E i \in DOMAIN stack' : stack'[i].block = c
    BY <1>1 DEF Sound, OnStack
  <2>2. \A c \in targets' : visit'[c] # 0
    BY DEF Sound, OnStack
  <2>3. visit'[Start] # 0
    BY <1>3 DEF Sound, OnStack
  <2> QED BY <1>3, <2>1, <2>2, <2>3 DEF OnStack
<1>6. visit[next] \in {1, 2}
  BY <1>2 DEF Sound, Shape
<1>7. Looked'
  <2> SUFFICES ASSUME NEW i \in DOMAIN stack, NEW k \in DOMAIN successors[stack[i].block], k < stack'[i].at
               PROVE  \/ successors[stack[i].block][k] \in targets'
                      \/ visit[successors[stack[i].block][k]] = 2
                      \/ i + 1 \in DOMAIN stack /\ successors[stack[i].block][k] = stack'[i + 1].block
    BY <1>1, <1>3 DEF Looked
  <2>1. stack[i].at \in Nat /\ k \in Nat
    BY <1>2, TopFact DEF Sound
  <2>2. CASE i # n \/ k # at
    <3>1. k < stack[i].at
      BY <1>1, <1>2, <2>1, <2>2
    <3>2. \/ successors[stack[i].block][k] \in targets
          \/ visit[successors[stack[i].block][k]] = 2
          \/ i + 1 \in DOMAIN stack /\ successors[stack[i].block][k] = stack[i + 1].block
      BY <3>1 DEF Sound, Looked
    <3> QED BY <1>1, <3>2
  <2>3. CASE i = n /\ k = at
    BY <1>2, <1>6, <2>3
  <2> QED BY <2>2, <2>3
<1>8. Ranked'
  <2>1. PICK rank \in [Blocks -> Nat], bound \in Nat : Finished(rank, bound)
    BY DEF Sound, Ranked
  <2>2. Finished(rank, bound)'
    BY <1>3, <2>1 DEF Finished
  <2>3. Enough(rank)'
    BY <1>3 DEF Enough
  <2> QED BY <2>2, <2>3 DEF Ranked
<1> QED BY <1>4, <1>5, <1>7, <1>8 DEF Sound

LEMMA SoundPush ==
    ASSUME Sound, stack # << >>, SearchKeeps, NEW n, NEW b, NEW at, NEW next,
           AtTop(n, b, at, next), visit[next] = 0, LookedAt(n, at, n + 1),
           stack'[n + 1].block = next, stack'[n + 1].at = 1,
           visit' = [visit EXCEPT ![next] = 1], targets' = targets
    PROVE  Sound'
<1>1. /\ n \in Nat \ {0} /\ DOMAIN stack = 1 .. n /\ n \in DOMAIN stack
      /\ b \in Blocks /\ at \in Nat \ {0} /\ at \in DOMAIN successors[b] /\ next \in Blocks
      /\ b = stack[n].block /\ at = stack[n].at /\ next = successors[b][at]
  BY DEF AtTop
<1>2. UNCHANGED <<successors, checking, stage, inCopy, block, rest>> /\ stage = "search"
  BY DEF SearchKeeps
<1>3. stack' \in Seq(Frame)
  BY DEF LookedAt
<1>4. /\ DOMAIN stack' = 1 .. n + 1
      /\ \A i \in 1 .. n : /\ stack'[i].block = stack[i].block
                           /\ stack'[i].at = IF i = n THEN at + 1 ELSE stack[i].at
      /\ stack'[n + 1].block = next /\ stack'[n + 1].at = 1
  BY DEF LookedAt
<1>5. /\ visit' \in [Blocks -> 0 .. 2]
      /\ \A c \in Blocks : visit'[c] = IF c = next THEN 1 ELSE visit[c]
  BY <1>1 DEF Sound, Shape
<1>6. Shape'
  BY <1>2, <1>3, <1>5 DEF Sound, Shape
<1>7. \A i \in 1 .. n : stack[i].block # next
  BY <1>1 DEF Sound, OnStack
<1>8. OnStack'
  <2>1. \A i, j \in DOMAIN stack' : stack'[i].block = stack'[j].block => i = j
    <3> SUFFICES ASSUME NEW i \in 1 .. n + 1, NEW j \in 1 .. n + 1, stack'[i].block = stack'[j].block
                 PROVE  i = j
      BY <1>4
    <3>1. (i \in 1 .. n \/ i = n + 1) /\ (j \in 1 .. n \/ j = n + 1)
      BY <1>1
    <3>2. CASE i \in 1 .. n /\ j \in 1 .. n
      <4>1. stack[i].block = stack[j].block
        BY <1>4, <3>2
      <4>2. i \in DOMAIN stack /\ j \in DOMAIN stack
        BY <1>1, <3>2
      <4> QED BY <4>1, <4>2 DEF Sound, OnStack
    <3> QED BY <1>4, <1>7, <3>1, <3>2
  <2>2. ASSUME NEW c \in Blocks
        PROVE  visit'[c] = 1 <=> \E i \in DOMAIN stack' : stack'[i].block = c
    <3>1. visit[c] = 1 <=> \E i \in 1 .. n : stack[i].block = c
      BY <1>1 DEF Sound, OnStack
    <3>2. (\E i \in 1 .. n + 1 : stack'[i].block = c) <=> (\E i \in 1 .. n : stack[i].block = c) \/ c = next
      <4>1. \A i \in 1 .. n + 1 : i \in 1 .. n \/ i = n + 1
        BY <1>1
      <4>2. n + 1 \in 1 .. n + 1 /\ \A i \in 1 .. n : i \in 1 .. n + 1
        BY <1>1
      <4> QED BY <1>4, <4>1, <4>2
    <3> QED BY <1>4, <1>5, <3>1, <3>2
  <2>3. \A c \in targets' : visit'[c] # 0
    BY <1>5 DEF Sound, Shape, OnStack
  <2>4. visit'[Start] # 0
    BY <1>2, <1>5, BudgetAssumption DEF Sound, OnStack
  <2> QED BY <1>2, <2>1, <2>2, <2>3, <2>4 DEF OnStack
<1>9. Looked'
  <2> SUFFICES ASSUME NEW i \in 1 .. n + 1, NEW k \in DOMAIN successors[stack'[i].block], k < stack'[i].at
               PROVE  \/ successors[stack'[i].block][k] \in targets'
                      \/ visit'[successors[stack'[i].block][k]] = 2
                      \/ i + 1 \in DOMAIN stack' /\ successors[stack'[i].block][k] = stack'[i + 1].block
    BY <1>2, <1>4 DEF Looked
  <2>1. CASE i = n + 1
    <3>1. stack'[i].block = next /\ k \in 1 .. Len(successors[next]) /\ Len(successors[next]) \in Nat
      BY <1>1, <1>4, <2>1, TopFact DEF Sound
    <3> QED BY <1>4, <2>1, <3>1
  <2>2. CASE i \in 1 .. n
    <3>1. /\ stack'[i].block = stack[i].block /\ stack[i].at \in Nat /\ k \in Nat
          /\ k \in DOMAIN successors[stack[i].block] /\ successors[stack[i].block][k] \in Blocks
      <4>1. stack'[i].block = stack[i].block /\ k \in DOMAIN successors[stack[i].block]
        BY <1>4, <2>2
      <4>2. stack[i].block \in Blocks /\ stack[i].at \in Nat
        BY <1>1, <2>2, TopFact DEF Sound
      <4>3. /\ DOMAIN successors[stack[i].block] = 1 .. Len(successors[stack[i].block])
            /\ Len(successors[stack[i].block]) \in Nat
            /\ successors[stack[i].block][k] \in Blocks
        BY <4>1, <4>2, TopFact DEF Sound
      <4> QED BY <4>1, <4>2, <4>3
    <3>2. CASE i # n \/ k # at
      <4>1. k < stack[i].at
        BY <1>1, <1>4, <2>2, <3>1, <3>2
      <4>2. \/ successors[stack[i].block][k] \in targets
            \/ visit[successors[stack[i].block][k]] = 2
            \/ i + 1 \in DOMAIN stack /\ successors[stack[i].block][k] = stack[i + 1].block
        BY <1>1, <2>2, <3>1, <4>1 DEF Sound, Looked
      <4>3. CASE i + 1 \in DOMAIN stack /\ successors[stack[i].block][k] = stack[i + 1].block
        BY <1>1, <1>4, <3>1, <4>3
      <4> QED BY <1>5, <3>1, <4>2, <4>3
    <3>3. CASE i = n /\ k = at
      <4>1. n + 1 \in DOMAIN stack' /\ successors[stack'[i].block][k] = next
        BY <1>1, <1>4, <3>1, <3>3
      <4> QED BY <1>4, <3>3, <4>1
    <3> QED BY <3>2, <3>3
  <2> QED BY <1>1, <2>1, <2>2
<1>10. Ranked'
  <2>1. PICK rank \in [Blocks -> Nat], bound \in Nat : Finished(rank, bound)
    BY DEF Sound, Ranked
  <2>2. ASSUME NEW c \in Blocks, visit'[c] = 2
        PROVE  /\ rank[c] < bound
               /\ \A k \in DOMAIN successors[c] :
                     \/ successors[c][k] \in targets
                     \/ visit'[successors[c][k]] = 2 /\ rank[successors[c][k]] < rank[c]
    <3>1. visit[c] = 2
      BY <1>5, <2>2
    <3>2. \A k \in DOMAIN successors[c] : successors[c][k] \in Blocks
      BY TopFact DEF Sound
    <3> QED BY <1>5, <2>1, <3>1, <3>2 DEF Finished
  <2>3. Finished(rank, bound)'
    BY <1>2, <2>2 DEF Finished
  <2>4. Enough(rank)'
    BY <1>2 DEF Enough
  <2> QED BY <2>3, <2>4 DEF Ranked
<1> QED BY <1>6, <1>8, <1>9, <1>10 DEF Sound

LEMMA SoundPop ==
    ASSUME Sound, stack # << >>, SearchKeeps, NEW n \in Nat \ {0}, NEW b \in Blocks,
           DOMAIN stack = 1 .. n, b = stack[n].block, stack[n].at > Len(successors[b]),
           stack' \in Seq(Frame), DOMAIN stack' = 1 .. n - 1,
           \A i \in 1 .. n - 1 : stack'[i] = stack[i],
           visit' = [visit EXCEPT ![b] = 2], targets' = targets
    PROVE  Sound'
<1>1. UNCHANGED <<successors, checking, stage, inCopy, block, rest>> /\ stage = "search"
  BY DEF SearchKeeps
<1>2. /\ visit' \in [Blocks -> 0 .. 2]
      /\ \A c \in Blocks : visit'[c] = IF c = b THEN 2 ELSE visit[c]
  BY DEF Sound, Shape
<1>3. Shape'
  BY <1>1, <1>2 DEF Sound, Shape
<1>4. n \in 1 .. n /\ visit[b] = 1 /\ \A i \in 1 .. n - 1 : i \in 1 .. n /\ stack[i].block # b
  BY DEF Sound, OnStack
<1>5. \A c \in Blocks : \A k \in DOMAIN successors[c] : successors[c][k] \in Blocks
  BY TopFact DEF Sound
<1>6. OnStack'
  <2>1. \A i, j \in DOMAIN stack' : stack'[i].block = stack'[j].block => i = j
    BY <1>4 DEF Sound, OnStack
  <2>2. ASSUME NEW c \in Blocks
        PROVE  visit'[c] = 1 <=> \E i \in DOMAIN stack' : stack'[i].block = c
    <3>1. visit[c] = 1 <=> \E i \in 1 .. n : stack[i].block = c
      BY DEF Sound, OnStack
    <3>2. \A i \in 1 .. n : i \in 1 .. n - 1 \/ i = n
      OBVIOUS
    <3> QED BY <1>2, <1>4, <3>1, <3>2
  <2>3. \A c \in targets' : visit'[c] # 0
    BY <1>2 DEF Sound, Shape, OnStack
  <2>4. visit'[Start] # 0
    BY <1>1, <1>2, BudgetAssumption DEF Sound, OnStack
  <2> QED BY <1>1, <2>1, <2>2, <2>3, <2>4 DEF OnStack
<1>7. Looked'
  <2> SUFFICES ASSUME NEW i \in 1 .. n - 1, NEW k \in DOMAIN successors[stack[i].block], k < stack[i].at
               PROVE  \/ successors[stack[i].block][k] \in targets
                      \/ visit'[successors[stack[i].block][k]] = 2
                      \/ i + 1 \in 1 .. n - 1 /\ successors[stack[i].block][k] = stack'[i + 1].block
    BY <1>1 DEF Looked
  <2>1. \/ successors[stack[i].block][k] \in targets
        \/ visit[successors[stack[i].block][k]] = 2
        \/ i + 1 \in 1 .. n /\ successors[stack[i].block][k] = stack[i + 1].block
    BY <1>4 DEF Sound, Looked
  <2>2. stack[i].block \in Blocks /\ successors[stack[i].block][k] \in Blocks
    BY <1>4, <1>5, TopFact DEF Sound
  <2>3. CASE i + 1 = n /\ successors[stack[i].block][k] = stack[i + 1].block
    BY <1>2, <2>3
  <2>4. CASE i + 1 \in 1 .. n - 1 /\ successors[stack[i].block][k] = stack[i + 1].block
    BY <2>4
  <2> QED BY <1>2, <2>1, <2>2, <2>3, <2>4
<1>8. Ranked'
  <2>1. PICK rank \in [Blocks -> Nat], bound \in Nat : Finished(rank, bound)
    BY DEF Sound, Ranked
  <2>2. PICK number \in [Blocks -> Nat] : \A c \in Blocks : number[c] = IF c = b THEN bound ELSE rank[c]
    <3>1. [rank EXCEPT ![b] = bound] \in [Blocks -> Nat]
      OBVIOUS
    <3> QED BY <3>1
  <2>3. ASSUME NEW c \in Blocks, visit'[c] = 2
        PROVE  /\ number[c] < bound + 1
               /\ \A k \in DOMAIN successors[c] :
                     \/ successors[c][k] \in targets
                     \/ visit'[successors[c][k]] = 2 /\ number[successors[c][k]] < number[c]
    <3>1. CASE c # b
      <4>1. visit[c] = 2
        BY <1>2, <2>3, <3>1
      <4>2. rank[c] < bound
        BY <2>1, <4>1 DEF Finished
      <4>3. ASSUME NEW k \in DOMAIN successors[c]
            PROVE  \/ successors[c][k] \in targets
                   \/ visit'[successors[c][k]] = 2 /\ number[successors[c][k]] < number[c]
        <5>1. PICK next \in Blocks : next = successors[c][k]
          BY <1>5
        <5>2. next \in targets \/ (visit[next] = 2 /\ rank[next] < rank[c])
          BY <2>1, <4>1, <5>1 DEF Finished
        <5>3. visit[next] = 2 => next # b /\ visit'[next] = 2
          BY <1>2, <1>4
        <5> QED BY <2>2, <3>1, <5>1, <5>2, <5>3
      <4> QED BY <2>2, <3>1, <4>2, <4>3
    <3>2. CASE c = b
      <4>1. ASSUME NEW k \in DOMAIN successors[b]
            PROVE  \/ successors[b][k] \in targets
                   \/ visit'[successors[b][k]] = 2 /\ number[successors[b][k]] < bound
        <5>1. k < stack[n].at
          <6>1. k \in 1 .. Len(successors[b]) /\ Len(successors[b]) \in Nat /\ stack[n].at \in Nat
            BY <1>4, TopFact DEF Sound
          <6> QED BY <6>1
        <5>2. PICK next \in Blocks : next = successors[b][k]
          BY <1>5
        <5>3. n + 1 \notin DOMAIN stack /\ n \in DOMAIN stack
          OBVIOUS
        <5>4. next \in targets \/ visit[next] = 2
          BY <5>1, <5>2, <5>3 DEF Sound, Looked
        <5>5. visit[next] = 2 => next # b /\ visit'[next] = 2 /\ rank[next] < bound
          BY <1>2, <1>4, <2>1 DEF Finished
        <5> QED BY <2>2, <5>2, <5>4, <5>5
      <4> QED BY <2>2, <3>2, <4>1
    <3> QED BY <3>1, <3>2
  <2>4. Finished(number, bound + 1)'
    BY <1>1, <2>3 DEF Finished
  <2>5. Enough(number)'
    BY <1>1 DEF Enough
  <2> QED BY <2>4, <2>5 DEF Ranked
<1> QED BY <1>3, <1>6, <1>7, <1>8 DEF Sound

LEMMA SoundSearch ==
    ASSUME Sound, Search
    PROVE  Sound'
<1>1. stack # << >> /\ SearchKeeps
  BY DEF Search, SearchKeeps
<1>2. PICK n : n = Len(stack)
  OBVIOUS
<1>3. PICK b, at : b = stack[n].block /\ at = stack[n].at
  OBVIOUS
<1>4. /\ n \in Nat \ {0} /\ DOMAIN stack = 1 .. n /\ n \in DOMAIN stack
      /\ b \in Blocks /\ at \in Nat \ {0} /\ Len(successors[b]) \in Nat
      /\ DOMAIN successors[b] = 1 .. Len(successors[b])
      /\ stack \in Seq(Frame)
  BY <1>1, <1>2, <1>3, TopFact DEF Sound, Shape
<1>5. CASE at <= Len(successors[b])
  <2>1. PICK next : next = successors[b][at]
    OBVIOUS
  <2>2. AtTop(n, b, at, next)
    BY <1>1, <1>3, <1>4, <1>5, <2>1, TopFact DEF AtTop, Sound
  <2>3. PICK moved : moved = [stack EXCEPT ![Len(stack)].at = @ + 1]
    OBVIOUS
  <2>4. /\ moved \in Seq(Frame) /\ Len(moved) = n /\ DOMAIN moved = 1 .. n
        /\ \A i \in 1 .. n :
              /\ moved[i].block = stack[i].block
              /\ moved[i].at = IF i = n THEN at + 1 ELSE stack[i].at
    BY <1>1, <1>2, <1>3, <1>4, <2>3, MovedFact DEF Sound
  <2>5. /\ targets' = IF visit[next] = 1 THEN targets \cup {next} ELSE targets
        /\ visit' = IF visit[next] = 0 THEN [visit EXCEPT ![next] = 1] ELSE visit
        /\ stack' = IF visit[next] = 0 THEN Append(moved, [block |-> next, at |-> 1]) ELSE moved
    <3>1. ~(stack[Len(stack)].at > Len(successors[stack[Len(stack)].block]))
      BY <1>2, <1>3, <1>4, <1>5
    <3>2. next = successors[stack[Len(stack)].block][stack[Len(stack)].at]
      BY <1>2, <1>3, <2>1
    <3> QED BY <2>3, <3>1, <3>2, Zenon DEF Search
  <2>6. CASE visit[next] # 0
    <3>1. LookedAt(n, at, n)
      BY <2>4, <2>5, <2>6 DEF LookedAt
    <3> QED BY <1>1, <2>2, <2>5, <2>6, <3>1, SoundLook
  <2>7. CASE visit[next] = 0
    <3>1. PICK pushed \in Frame : pushed = [block |-> next, at |-> 1] /\ pushed.block = next /\ pushed.at = 1
      <4>1. next \in Blocks
        BY <2>2 DEF AtTop
      <4>2. [block |-> next, at |-> 1] \in Frame
        BY <4>1 DEF Frame
      <4> QED BY <4>2
    <3>2. stack' = Append(moved, pushed)
      BY <2>5, <2>7, <3>1
    <3>3. /\ stack' \in Seq(Frame) /\ Len(stack') = n + 1
          /\ \A i \in 1 .. n : stack'[i] = moved[i]
          /\ stack'[n + 1] = pushed
      BY <2>4, <3>2, AppendProperties
    <3>4. DOMAIN stack' = 1 .. n + 1
      BY <3>3, LenProperties
    <3>5. LookedAt(n, at, n + 1)
      BY <2>4, <3>3, <3>4 DEF LookedAt
    <3>6. stack'[n + 1].block = next /\ stack'[n + 1].at = 1
      BY <3>1, <3>3
    <3>7. visit' = [visit EXCEPT ![next] = 1] /\ targets' = targets
      BY <2>5, <2>7
    <3> QED BY <1>1, <2>2, <2>7, <3>5, <3>6, <3>7, SoundPush
  <2> QED BY <2>6, <2>7
<1>6. CASE at > Len(successors[b])
  <2>1. visit' = [visit EXCEPT ![b] = 2] /\ stack' = SubSeq(stack, 1, n - 1) /\ targets' = targets
    <3>1. ~(stack[Len(stack)].at <= Len(successors[stack[Len(stack)].block]))
      BY <1>2, <1>3, <1>4, <1>6
    <3>2. /\ visit' = [visit EXCEPT ![stack[Len(stack)].block] = 2]
          /\ stack' = SubSeq(stack, 1, Len(stack) - 1) /\ targets' = targets
      BY <3>1, Zenon DEF Search
    <3> QED BY <1>2, <1>3, <3>2
  <2>2. \A i \in 1 .. n - 1 : stack[i] \in Frame
    BY <1>1, <1>4, TopFact DEF Sound
  <2>3. /\ stack' \in Seq(Frame) /\ Len(stack') = n - 1
        /\ \A i \in 1 .. n - 1 : stack'[i] = stack[i]
    BY <1>4, <2>1, <2>2, SubSeqProperties
  <2>4. DOMAIN stack' = 1 .. n - 1
    BY <2>3, LenProperties
  <2> QED BY <1>1, <1>3, <1>4, <1>6, <2>1, <2>3, <2>4, SoundPop
<1> QED BY <1>4, <1>5, <1>6

-----------------------------------------------------------------------------
(* The run. *)

\* There are only so many checks.
LEMMA FewerFact ==
    ASSUME NEW C \in SUBSET Blocks, NEW A \in SUBSET C
    PROVE  /\ IsFiniteSet(A) /\ IsFiniteSet(C)
           /\ Cardinality(A) \in Nat /\ Cardinality(C) \in Nat
           /\ Cardinality(A) <= Cardinality(C)
<1>1. IsFiniteSet(C)
  BY BudgetAssumption, FS_Subset
<1>2. IsFiniteSet(A) /\ Cardinality(A) <= Cardinality(C)
  BY <1>1, FS_Subset
<1> QED BY <1>1, <1>2, FS_CardinalityType

\* A run at a check has it ahead.
LEMMA AheadFact ==
    ASSUME Shape, NEW rank \in [Blocks -> Nat]
    PROVE  /\ Cardinality(Ahead(rank)) \in Nat
           /\ block \in checking => Cardinality(Ahead(rank)) > 0
<1>1. IsFiniteSet(Ahead(rank)) /\ Cardinality(Ahead(rank)) \in Nat
  BY FewerFact DEF Ahead, Shape
<1>2. ASSUME block \in checking PROVE Cardinality(Ahead(rank)) > 0
  <2>1. block \in Ahead(rank)
    BY <1>2 DEF Ahead, Shape
  <2> QED BY <1>1, <2>1, FS_EmptySet
<1> QED BY <1>1, <1>2

LEMMA SoundGoesOn ==
    ASSUME Sound
    PROVE  CopyGoesOn
<1>1. PICK rank \in [Blocks -> Nat], bound \in Nat : Finished(rank, bound) /\ Enough(rank)
  BY DEF Sound, Ranked
<1> QED BY <1>1, AheadFact DEF Sound, Enough, CopyGoesOn

LEMMA SoundEnter ==
    ASSUME Sound, NEW budgetOf \in 0 .. MaxBlocks, Enter(budgetOf)
    PROVE  Sound'
<1>1. /\ stage = "search" /\ stack = << >> /\ stage' = "run" /\ block' = Start /\ rest' = budgetOf
      /\ inCopy' = (budgetOf >= checks) /\ UNCHANGED <<successors, checking, stack, visit, targets>>
      /\ budgetOf \in Nat
  BY BudgetAssumption DEF Enter
<1>2. Shape'
  BY <1>1, BudgetAssumption DEF Sound, Shape
<1>3. visit[Start] = 2
  BY <1>1, BudgetAssumption DEF Sound, Shape, OnStack
<1>4. OnStack'
  BY <1>1, <1>3 DEF Sound, OnStack
<1>5. Looked'
  BY <1>1 DEF Looked
<1>6. PICK rank \in [Blocks -> Nat], bound \in Nat : Finished(rank, bound)
  BY DEF Sound, Ranked
<1>7. Finished(rank, bound)'
  BY <1>1, <1>6 DEF Finished
<1>8. Enough(rank)'
  <2>1. PICK A : A = {c \in checking : rank[c] <= rank[Start]}
    OBVIOUS
  <2>2. Ahead(rank)' = A
    BY <1>1, <2>1 DEF Ahead
  <2>3. Cardinality(A) \in Nat /\ checks \in Nat /\ Cardinality(A) <= checks
    BY <2>1, FewerFact DEF checks, Sound, Shape
  <2>4. inCopy' => checks <= budgetOf
    BY <1>1, Zenon
  <2>5. inCopy' => Cardinality(A) <= budgetOf
    BY <1>1, <2>3, <2>4
  <2> QED BY <1>1, <2>2, <2>5 DEF Enough
<1> QED BY <1>2, <1>4, <1>5, <1>7, <1>8 DEF Sound, Ranked

\* A check that is passed is ahead no more.
LEMMA AheadLess ==
    ASSUME Shape, NEW rank \in [Blocks -> Nat], NEW next \in Blocks, rank[next] < rank[block],
           NEW A, A = {c \in checking : rank[c] <= rank[next]}
    PROVE  /\ Cardinality(A) \in Nat
           /\ Cardinality(A) <= Cardinality(Ahead(rank))
           /\ block \in checking => Cardinality(A) < Cardinality(Ahead(rank))
<1>1. Ahead(rank) \in SUBSET Blocks /\ block \in Blocks
  BY DEF Ahead, Shape
<1>2. A \in SUBSET Ahead(rank)
  <2>1. ASSUME NEW c \in A PROVE c \in Ahead(rank)
    <3>1. c \in checking /\ c \in Blocks /\ rank[c] <= rank[next]
      BY DEF Shape
    <3>2. rank[c] \in Nat /\ rank[next] \in Nat /\ rank[block] \in Nat
      BY <1>1, <3>1
    <3>3. rank[c] <= rank[block]
      BY <3>1, <3>2
    <3> QED BY <3>1, <3>3 DEF Ahead
  <2> QED BY <2>1
<1>3. /\ IsFiniteSet(A) /\ IsFiniteSet(Ahead(rank))
      /\ Cardinality(A) \in Nat /\ Cardinality(Ahead(rank)) \in Nat
      /\ Cardinality(A) <= Cardinality(Ahead(rank))
  BY <1>1, <1>2, FewerFact
<1>4. ASSUME block \in checking PROVE Cardinality(A) < Cardinality(Ahead(rank))
  <2>1. block \in Ahead(rank) /\ block \notin A
    BY <1>1, <1>4 DEF Ahead
  <2>2. Cardinality(A) = Cardinality(Ahead(rank)) => A = Ahead(rank)
    BY <1>2, <1>3, FS_Subset
  <2> QED BY <1>3, <2>1, <2>2
<1> QED BY <1>3, <1>4

LEMMA SoundJump ==
    ASSUME Sound, NEW next \in Blocks, Jump(next)
    PROVE  Sound'
<1>1. PICK now : now = IF block \in checking THEN rest - 1 ELSE rest
  OBVIOUS
<1>2. /\ stage = "run" /\ stage' = stage /\ block' = next /\ rest' = now
      /\ inCopy' = (inCopy /\ (next \in targets => now >= checks))
      /\ block \in checking => inCopy \/ rest # 0
      /\ UNCHANGED <<successors, checking, stack, visit, targets>>
  BY <1>1 DEF Jump
<1>3. PICK k \in DOMAIN successors[block] : successors[block][k] = next
  BY DEF Jump
<1>4. rest \in Nat /\ now \in Nat /\ (block \in checking => now = rest - 1)
  BY <1>1, <1>2, SoundGoesOn DEF CopyGoesOn, Sound, Shape
<1>5. block \in Blocks /\ visit[block] = 2 /\ stack = << >>
  BY <1>2 DEF Sound, Shape, OnStack
<1>6. PICK rank \in [Blocks -> Nat], bound \in Nat : Finished(rank, bound) /\ Enough(rank)
  BY DEF Sound, Ranked
<1>7. next \in targets \/ (visit[next] = 2 /\ rank[next] < rank[block])
  BY <1>3, <1>5, <1>6 DEF Finished
<1>8. visit[next] = 2
  <2>1. visit[next] \in 0 .. 2 /\ visit[next] # 1
    BY <1>5 DEF Sound, Shape, OnStack
  <2>2. next \in targets => visit[next] # 0
    BY DEF Sound, OnStack
  <2> QED BY <1>7, <2>1, <2>2
<1>9. Shape'
  <2>1. inCopy' \in BOOLEAN
    BY <1>2
  <2> QED BY <1>2, <1>4, <2>1 DEF Sound, Shape
<1>10. OnStack'
  BY <1>2, <1>5, <1>8 DEF Sound, OnStack
<1>11. Looked'
  BY <1>2 DEF Sound, Looked
<1>12. Finished(rank, bound)'
  BY <1>2, <1>6 DEF Finished
<1>13. Enough(rank)'
  <2>1. PICK A : A = {c \in checking : rank[c] <= rank[next]}
    OBVIOUS
  <2>2. Ahead(rank)' = A
    BY <1>2, <2>1 DEF Ahead
  <2>3. ASSUME inCopy' PROVE Cardinality(A) <= now
    <3>1. CASE next \in targets
      <4>1. Cardinality(A) \in Nat /\ checks \in Nat /\ Cardinality(A) <= checks
        BY <2>1, FewerFact DEF checks, Sound, Shape
      <4>2. now >= checks
        BY <1>2, <2>3, <3>1, Zenon
      <4> QED BY <1>4, <4>1, <4>2
    <3>2. CASE next \notin targets
      <4>1. /\ Cardinality(A) \in Nat /\ Cardinality(A) <= Cardinality(Ahead(rank))
            /\ block \in checking => Cardinality(A) < Cardinality(Ahead(rank))
        BY <1>7, <2>1, <3>2, AheadLess DEF Sound
      <4>2. Cardinality(Ahead(rank)) \in Nat
        BY AheadFact DEF Sound
      <4>3. inCopy
        BY <1>2, <2>3
      <4>4. Cardinality(Ahead(rank)) <= rest
        BY <1>2, <1>6, <4>3 DEF Enough
      <4> QED BY <1>1, <1>4, <4>1, <4>2, <4>4
    <3> QED BY <3>1, <3>2
  <2> QED BY <1>2, <2>2, <2>3 DEF Enough
<1> QED BY <1>9, <1>10, <1>11, <1>12, <1>13 DEF Sound, Ranked

LEMMA SoundLeave ==
    ASSUME Sound, Leave
    PROVE  Sound'
<1>1. /\ stage = "run" /\ stage' = "left"
      /\ UNCHANGED <<successors, checking, stack, visit, targets, inCopy, block, rest>>
  BY DEF Leave
<1>2. Shape' /\ OnStack' /\ Looked'
  BY <1>1 DEF Sound, Shape, OnStack, Looked
<1>3. PICK rank \in [Blocks -> Nat], bound \in Nat : Finished(rank, bound)
  BY DEF Sound, Ranked
<1>4. Finished(rank, bound)' /\ Enough(rank)'
  BY <1>1, <1>3 DEF Finished, Enough
<1> QED BY <1>2, <1>4 DEF Sound, Ranked

LEMMA SoundStutter ==
    ASSUME Sound, UNCHANGED budgetVars
    PROVE  Sound'
<1>1. Shape' /\ OnStack' /\ Looked'
  BY DEF budgetVars, Sound, Shape, OnStack, Looked
<1>2. PICK rank \in [Blocks -> Nat], bound \in Nat : Finished(rank, bound) /\ Enough(rank)
  BY DEF Sound, Ranked
<1>3. Finished(rank, bound)' /\ Enough(rank)'
  BY <1>2 DEF budgetVars, Finished, Enough, Ahead
<1> QED BY <1>1, <1>3 DEF Sound, Ranked

LEMMA SoundNext == Sound /\ [BudgetNext]_budgetVars => Sound'
BY SoundCompile, SoundSearch, SoundEnter, SoundJump, SoundLeave, SoundStutter DEF BudgetNext

\* The copy does what the range does: it comes to no check at which the range would have left,
\* whatever the blocks of the range, the jumps between them, which of them check and the budget.
THEOREM CopyAlwaysGoesOn == BudgetSpec => []CopyGoesOn
<1>1. Sound => CopyGoesOn
  BY SoundGoesOn
<1> QED BY <1>1, SoundInit, SoundNext, PTL DEF BudgetSpec
=============================================================================

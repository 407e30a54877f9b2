-------------------------------- MODULE Ops --------------------------------
(***************************************************************************)
(* What an expression of a guest's word comes to in native code: as        *)
(* lowerExp of Bap/Primus/Lifted.lean makes operations on host words of    *)
(* it, and as native/bap_jit.cpp makes instructions of LLVM of those,      *)
(* against what Bap/Core/Word.lean says that it means (obligation 1), and  *)
(* the bytes of a load or a store (obligation 2).  Words are numbers; what *)
(* LLVM has as such, as an addition or a comparison without sign, is left  *)
(* out.  An instruction of LLVM may give Poison, which only a select that  *)
(* does not choose it gets rid of, or be Undefined, which nothing does.    *)
(***************************************************************************)
EXTENDS Integers

CONSTANTS
    HostBits,       \* the bits of a host word: 64
    ByteBits,       \* the bits of a byte: 8
    Unset

\* A word has more than a bit: at one bit, the 1 that is divided by where the divisor will not
\* do would be all ones too.
ASSUME OpsAssumption == HostBits \in Nat \ {0, 1} /\ ByteBits \in Nat \ {0}

VARIABLE computed   \* what was computed, of what

Pow2[n \in 0 .. HostBits] == IF n = 0 THEN 1 ELSE 2 * Pow2[n - 1]
Widths == 1 .. HostBits
Below(w) == 0 .. Pow2[w] - 1
Ones == Pow2[HostBits] - 1
Signed(w, v) == IF v >= Pow2[w - 1] THEN v - Pow2[w] ELSE v

-----------------------------------------------------------------------------
(* LLVM, of host words. *)

Poison == -1
Undefined == -2

Shl(v, by)  == IF by >= HostBits THEN Poison ELSE (v * Pow2[by]) % Pow2[HostBits]
LShr(v, by) == IF by >= HostBits THEN Poison ELSE v \div Pow2[by]
AShr(v, by) == IF by >= HostBits THEN Poison ELSE (Signed(HostBits, v) \div Pow2[by]) % Pow2[HostBits]

\* The quotient towards 0, of which the remainder has the sign of the dividend.
Quotient(a, b) ==
    LET size(n) == IF n < 0 THEN -n ELSE n IN
    IF (a < 0) = (b < 0) THEN size(a) \div size(b) ELSE -(size(a) \div size(b))

UDiv(l, r) == IF r = 0 THEN Undefined ELSE l \div r
URem(l, r) == IF r = 0 THEN Undefined ELSE l % r
SDivides(l, r) == r # 0 /\ ~(l = Pow2[HostBits - 1] /\ r = Ones)
SDiv(l, r) ==
    IF ~SDivides(l, r) THEN Undefined
    ELSE Quotient(Signed(HostBits, l), Signed(HostBits, r)) % Pow2[HostBits]
SRem(l, r) ==
    IF ~SDivides(l, r) THEN Undefined
    ELSE LET a == Signed(HostBits, l)
             b == Signed(HostBits, r)
         IN  (a - b * Quotient(a, b)) % Pow2[HostBits]
Select(c, yes, no) == IF Undefined \in {yes, no} THEN Undefined ELSE IF c THEN yes ELSE no
Neg(v) == (-v) % Pow2[HostBits]

\* A word that goes into a slot and comes out of it, with the bits above w cut off.
narrow(w, v) == IF v < 0 THEN v ELSE v % Pow2[w]

-----------------------------------------------------------------------------
(* The operations of Jit.Op, as bap_jit_compile has them. *)

shift(op, l, r) ==
    LET large  == r >= HostBits
        amount == IF large THEN 0 ELSE r
    IN  Select(large, 0, IF op = "lshift" THEN Shl(l, amount) ELSE LShr(l, amount))

divide(op, l, r) ==
    LET divisor == IF r = 0 THEN 1 ELSE r
    IN  IF op = "div" THEN Select(r = 0, Ones, UDiv(l, divisor))
        ELSE Select(r = 0, l, URem(l, divisor))

\* Mutant: the one quotient that does not fit is taken for any other.
divideSigned_Fits(op, l, r) ==
    LET divisor == IF r = 0 THEN 1 ELSE r
    IN  IF op = "sdiv" THEN Select(r = 0, IF Signed(HostBits, l) < 0 THEN 1 ELSE Ones, SDiv(l, divisor))
        ELSE Select(r = 0, l, SRem(l, divisor))

divideSigned(op, l, r) ==
    LET overflow == l = Pow2[HostBits - 1] /\ r = Ones
        divisor  == IF r = 0 \/ overflow THEN 1 ELSE r
        byZero   == IF Signed(HostBits, l) < 0 THEN 1 ELSE Ones
    IN  IF op = "sdiv" THEN Select(r = 0, byZero, Select(overflow, l, SDiv(l, divisor)))
        ELSE Select(r = 0, l, Select(overflow, 0, SRem(l, divisor)))

compareSigned(op, l, r) ==
    LET a == Signed(HostBits, l)
        b == Signed(HostBits, r)
        holds == CASE op = "slt" -> a < b [] op = "sle" -> a <= b [] op = "sgt" -> a > b [] op = "sge" -> a >= b
    IN  IF holds THEN 1 ELSE 0

signExtend(w, v) == IF w < HostBits THEN AShr(Shl(v, HostBits - w), HostBits - w) ELSE v

ashr(w, l, r) == AShr(l, IF r >= w THEN w - 1 ELSE r)

-----------------------------------------------------------------------------
(* lowerExp: operands l and r of width w, as slots that have nothing above it. *)

smod(w, l, r) ==
    LET leftSign      == Signed(HostBits, signExtend(w, l)) < 0
        rightSign     == Signed(HostBits, signExtend(w, r)) < 0
        absLeft       == IF leftSign THEN narrow(w, Neg(l)) ELSE l
        absRight      == IF rightSign THEN narrow(w, Neg(r)) ELSE r
        remainder     == divide("rem", absLeft, absRight)
        negated       == Neg(remainder)
        leftResult    == IF leftSign THEN (negated + r) % Pow2[HostBits] ELSE remainder
        bothResult    == IF leftSign THEN negated ELSE (remainder + r) % Pow2[HostBits]
        rightResult   == IF rightSign THEN bothResult ELSE leftResult
    IN  narrow(w, IF remainder = 0 THEN remainder ELSE rightResult)

lowered(op, w, l, r) ==
    CASE op \in {"lshift", "rshift"} -> narrow(w, shift(op, l, r))
      [] op \in {"div", "rem"}       -> narrow(w, divide(op, l, r))
      [] op \in {"sdiv", "srem"}     -> narrow(w, divideSigned(op, signExtend(w, l), signExtend(w, r)))
      [] op \in {"slt", "sle", "sgt", "sge"} ->
            narrow(1, compareSigned(op, signExtend(w, l), signExtend(w, r)))
      [] op = "smod"   -> smod(w, l, r)
      [] op = "ashift" -> narrow(w, ashr(w, signExtend(w, l), r))

\* Casts and parts of a word l of width w, to n bits, and of the bits `low' to low + n - 1.
loweredCast(op, w, l, n) ==
    CASE op = "signed" -> IF n >= w THEN narrow(n, signExtend(w, l)) ELSE narrow(n, l)
      [] op = "high"   -> narrow(n, shift("rshift", l, w - n))
loweredExtract(l, low, n) == narrow(n, shift("rshift", l, low))
loweredConcat(l, r, n) == shift("lshift", l, n) + r

-----------------------------------------------------------------------------
(* Word: what they mean for a guest. *)

FloorMod(a, b) == IF b > 0 THEN a % b ELSE -((-a) % (-b))

means(op, w, l, r) ==
    LET a == Signed(w, l)
        b == Signed(w, r)
        truth(p) == IF p THEN 1 ELSE 0
    IN  CASE op = "lshift" -> IF r >= w THEN 0 ELSE (l * Pow2[r]) % Pow2[w]
          [] op = "rshift" -> IF r >= w THEN 0 ELSE l \div Pow2[r]
          [] op = "ashift" -> IF r >= w THEN (IF a < 0 THEN Pow2[w] - 1 ELSE 0) ELSE (a \div Pow2[r]) % Pow2[w]
          [] op = "div"    -> IF r = 0 THEN Pow2[w] - 1 ELSE l \div r
          [] op = "rem"    -> IF r = 0 THEN l ELSE l % r
          [] op = "sdiv"   -> IF r = 0 THEN (IF a < 0 THEN 1 ELSE Pow2[w] - 1) ELSE Quotient(a, b) % Pow2[w]
          [] op = "srem"   -> IF r = 0 THEN l ELSE (a - b * Quotient(a, b)) % Pow2[w]
          [] op = "smod"   -> IF r = 0 THEN l ELSE FloorMod(a, b) % Pow2[w]
          [] op = "slt"    -> truth(a < b)
          [] op = "sle"    -> truth(a <= b)
          [] op = "sgt"    -> truth(a > b)
          [] op = "sge"    -> truth(a >= b)

meansCast(op, w, l, n) ==
    CASE op = "signed" -> Signed(w, l) % Pow2[n]
      [] op = "high"   -> l \div Pow2[w - n]
meansExtract(l, low, n) == (l \div Pow2[low]) % Pow2[n]
meansConcat(l, r, n) == l * Pow2[n] + r

-----------------------------------------------------------------------------
(* The bytes of an access, in the order of their addresses, on a host of either order. *)

Cut(value, size) == value % Pow2[ByteBits * size]
Digit(value, k) == (value \div Pow2[ByteBits * k]) % Pow2[ByteBits]

\* The number that bytes are, the first of them the least significant or, if `big', the most:
\* of the first n of them, and of all.
ReadsOf(bytes, size, big) ==
    LET sum[n \in 0 .. size] ==
            IF n = 0 THEN 0
            ELSE sum[n - 1] + bytes[n - 1] * Pow2[ByteBits * (IF big THEN size - n ELSE n - 1)]
    IN  sum
Reads(bytes, size, big) == ReadsOf(bytes, size, big)[size]

\* An instruction of the host stores and loads in its own order.
HostStore(value, size, bigHost) == [k \in 0 .. size - 1 |-> Digit(value, IF bigHost THEN size - 1 - k ELSE k)]
Bswap(value, size) == Reads([k \in 0 .. size - 1 |-> Digit(value, k)], size, TRUE)

hasInstruction(size) == size \in {1, 2, 4, 8}

\* Mutant: what is big endian is swapped on any host.
swapped_AnyHost(value, size, big, bigHost) == IF size = 1 \/ ~big THEN value ELSE Bswap(value, size)

swapped(value, size, big, bigHost) == IF size = 1 \/ big = bigHost THEN value ELSE Bswap(value, size)

\* bap_jit_memory_store_bytes, and StoreLog::note, by the byte.
store_bytes(value, size, big) == [k \in 0 .. size - 1 |-> Digit(value, IF big THEN size - 1 - k ELSE k)]
load_bytes(bytes, size, big)  == Reads(bytes, size, big)
note(value, size, big)        == [k \in 0 .. size - 1 |-> Digit(value, IF big THEN size - 1 - k ELSE k)]

storeInstruction(value, size, big, bigHost) ==
    HostStore(swapped(Cut(value, size), size, big, bigHost), size, bigHost)
loadInstruction(bytes, size, big, bigHost) == swapped(Reads(bytes, size, bigHost), size, big, bigHost)

-----------------------------------------------------------------------------
(* One at a time, as nothing is kept from one to the next. *)

BinOps == {"lshift", "rshift", "ashift", "div", "rem", "sdiv", "srem", "smod", "slt", "sle", "sgt", "sge"}

Binary(op, w, l, r) ==
    /\ computed = Unset
    /\ computed' = [kind |-> "binary", of |-> <<op, w, l, r>>, result |-> lowered(op, w, l, r)]

Cast(op, w, l, n) ==
    /\ computed = Unset
    /\ op = "high" => n <= w
    /\ computed' = [kind |-> "cast", of |-> <<op, w, l, n>>, result |-> loweredCast(op, w, l, n)]

Extract(w, l, low, n) ==
    /\ computed = Unset
    /\ low + n <= w
    /\ computed' = [kind |-> "extract", of |-> <<l, low, n>>, result |-> loweredExtract(l, low, n)]

Concat(w, l, n, r) ==
    /\ computed = Unset
    /\ w + n <= HostBits
    /\ computed' = [kind |-> "concat", of |-> <<l, r, n>>, result |-> loweredConcat(l, r, n)]

\* A store of a host word and a load of the same place, each by an instruction or by bytes.
StoreAndLoad(value, size, big, bigHost, stores, loads) ==
    /\ computed = Unset
    /\ "instruction" \in {stores, loads} => hasInstruction(size)
    /\ LET bytes == IF stores = "instruction" THEN storeInstruction(value, size, big, bigHost)
                    ELSE store_bytes(value, size, big)
       IN  computed' = [kind |-> "bytes", of |-> <<value, size, big, bigHost, stores, loads>>,
                        bytes |-> bytes, logged |-> note(value, size, big),
                        loaded |-> IF loads = "instruction" THEN loadInstruction(bytes, size, big, bigHost)
                                   ELSE load_bytes(bytes, size, big)]

OpsInit == computed = Unset

OpsNext ==
    \/ \E w \in Widths, op \in BinOps : \E l, r \in Below(w) : Binary(op, w, l, r)
    \/ \E w, n \in Widths, op \in {"signed", "high"} : \E l \in Below(w) : Cast(op, w, l, n)
    \/ \E w, n \in Widths, low \in 0 .. HostBits - 1 : \E l \in Below(w) : Extract(w, l, low, n)
    \/ \E w, n \in Widths : \E l \in Below(w), r \in Below(n) : Concat(w, l, n, r)
    \/ \E value \in Below(HostBits), size \in 1 .. HostBits \div ByteBits, big, bigHost \in BOOLEAN,
          stores, loads \in {"instruction", "bytes"} :
          StoreAndLoad(value, size, big, bigHost, stores, loads)

OpsSpec == OpsInit /\ [][OpsNext]_computed
-----------------------------------------------------------------------------
\* Native code computes what the expression means for words of every width, at all of their
\* values: a division by 0, the quotient that does not fit and a shift past the width are
\* those of the guest, and none is Poison or Undefined (obligation 1: the selects around
\* shifts and divisions in bap_jit_compile, and the extensions and cuts of lowerExp).
OpsAgree ==
    computed # Unset =>
        LET of == computed.of IN
        CASE computed.kind = "binary"  -> computed.result = means(of[1], of[2], of[3], of[4])
          [] computed.kind = "cast"    -> computed.result = meansCast(of[1], of[2], of[3], of[4])
          [] computed.kind = "extract" -> computed.result = meansExtract(of[1], of[2], of[3])
          [] computed.kind = "concat"  -> computed.result = meansConcat(of[1], of[2], of[3])
          [] computed.kind = "bytes"   -> TRUE

\* A store leaves the bytes of the value in the order of its endianness, the same whether an
\* instruction or a call did it, and the run says the same bytes of it in its log; and a load
\* of them, by either, gives the value again (obligations 2 and 6).
BytesAgree ==
    computed # Unset /\ computed.kind = "bytes" =>
        LET value == computed.of[1]
            size  == computed.of[2]
            big   == computed.of[3]
        IN  /\ Reads(computed.bytes, size, big) = Cut(value, size)
            /\ computed.logged = computed.bytes
            /\ computed.loaded = Cut(value, size)
=============================================================================

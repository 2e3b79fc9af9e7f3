------------------------------ MODULE NumberOps -----------------------------
(***************************************************************************)
(* The integers of src/src/number: a signed count s of limbs, the lowest   *)
(* first, in a buffer that is never checked again once it is allocated.    *)
(* What each call returns, as an operator.                                 *)
(***************************************************************************)
EXTENDS LimbOps, Powers, SequencesExt

CONSTANTS
  W,         \* bits of a limb: 32 in the code, a multiple of 4
  DecDigits  \* decimal digits taken at a time: 9 in the code

ASSUME WidthAssumption == W \in Nat \ {0} /\ W % 4 = 0 /\ Base = Power(2, W)
ASSUME ChunkAssumption == DecDigits \in Nat \ {0} /\ Power(10, DecDigits) < Base

\* Characters: the digits 0 .. 15 (11 is also the b of 0b), and others.
Plus == 16
Minus == 17
Oh == 18
Ex == 19
Blank == 20  \* ' ' and '_'

-----------------------------------------------------------------------------
(* Limbs.                                                                  *)

Abs(i) == IF i < 0 THEN -i ELSE i

\* The value of the lowest i limbs, for each i; of all of them, and of a number.
LowValues(d) ==
  LET v[i \in 0 .. Len(d)] == IF i = 0 THEN 0 ELSE v[i - 1] + d[i] * Power(Base, i - 1)
  IN v
Magnitude(d) == LowValues(d)[Len(d)]
Value(n) == IF n.s < 0 THEN -Magnitude(n.d) ELSE Magnitude(n.d)

BitLen(v) == DigitCount(2, v)

\* number_new: so many limbs are counted, and four times their bytes allocated.
LimbsFor(bits) == (bits + W - 1) \div W

\* Mutant of Room: no more is allocated than was counted.
RoomCounted(limbs) == limbs

Room(limbs) == 4 * limbs

LimbAt(d, i) == IF i \in 1 .. Len(d) THEN d[i] ELSE 0

\* intern_add_sl, intern_add_dl and intern_add_one: y is not the longer, and the
\* limbs of x above it take the carry.
AddLimbs(x, y, carry) ==
  LET c[i \in 0 .. Len(x)] == IF i = 0 THEN carry ELSE AddLimb(x[i], LimbAt(y, i), c[i - 1]).c
  IN [d |-> [i \in 1 .. Len(x) |-> AddLimb(x[i], LimbAt(y, i), c[i - 1]).r], c |-> c[Len(x)]]

\* Mutant of SubLimbs: the borrow is not taken from the limbs above.
SubLimbsNoBorrow(x, y) ==
  LET c[i \in 0 .. Len(x)] == IF i = 0 THEN 0 ELSE SubLimb(x[i], LimbAt(y, i), c[i - 1]).c
  IN [i \in 1 .. Len(x) |-> IF i > Len(y) THEN x[i] ELSE SubLimb(x[i], LimbAt(y, i), c[i - 1]).r]

\* intern_sub_sl, intern_sub_dl: nobody asks for the last borrow.
SubLimbs(x, y) ==
  LET c[i \in 0 .. Len(x)] == IF i = 0 THEN 0 ELSE SubLimb(x[i], LimbAt(y, i), c[i - 1]).c
  IN [i \in 1 .. Len(x) |-> SubLimb(x[i], LimbAt(y, i), c[i - 1]).r]

\* intern_mul_one, and the loop of intern_shl, which multiplies by a power of two.
MulLimbs(x, m) ==
  LET c[i \in 0 .. Len(x)] == IF i = 0 THEN 0 ELSE MulLimb(x[i], m, c[i - 1]).c
  IN [d |-> [i \in 1 .. Len(x) |-> MulLimb(x[i], m, c[i - 1]).r], c |-> c[Len(x)]]

\* Mutant of Trimmed: the zeros at the top are kept.
TrimmedNot(d) == d

\* intern_size: without the zeros at the top.
Trimmed(d) ==
  SubSeq(d, 1, CHOOSE k \in 0 .. Len(d) :
                 /\ \A i \in k + 1 .. Len(d) : d[i] = 0
                 /\ k > 0 => d[k] # 0)

\* The bits in use (32 for each limb less intern_lbz of the top one).
Bits(n) == IF n.s = 0 THEN 0 ELSE W * (Len(n.d) - 1) + BitLen(n.d[Len(n.d)])

Number(negative, d) == [s |-> IF negative THEN -Len(d) ELSE Len(d), d |-> d]
Zero == Number(FALSE, <<>>)

\* What a call gives: a number, with the limbs it wrote and had room for.
Made(n, written, limbs) == [is |-> "number", n |-> n, over |-> written > Room(limbs)]
Refused == [is |-> "error", n |-> Zero, over |-> FALSE]   \* number_new: "bits too large"
Nothing == [is |-> "nothing", n |-> Zero, over |-> FALSE] \* neither a number nor an error

-----------------------------------------------------------------------------
(* number_setstrc: the scanner, and the digits put together.               *)

ScanStart == [cs |-> "START", sign |-> 1, radix |-> 10, digits |-> 0, ds |-> <<>>]

\* The first digit that counts: from here on the text is kept.
FirstDigit(q, radix, c) ==
  IF c = 0 THEN [q EXCEPT !.cs = "ZEROS", !.radix = radix]
           ELSE [q EXCEPT !.cs = "DIGITS", !.radix = radix, !.digits = 1, !.ds = <<c>>]

\* OCTC does not count the digit 0.
Counted(q, c) == IF q.radix = 8 /\ c = 0 THEN 0 ELSE 1

RadixOf(c) == CASE c = 11 -> 2 [] c = Oh -> 8 [] c = Ex -> 16

\* One character; BIN, OCT, HEX and DEC are ZEROS, and BINC .. DECC are DIGITS.
Scan(q, c) ==
  CASE q.cs # "ABORT" /\ c = Blank -> q
    [] q.cs = "START" /\ c = Plus -> [q EXCEPT !.cs = "NUMBER0"]
    [] q.cs = "START" /\ c = Minus -> [q EXCEPT !.cs = "NUMBER0", !.sign = -1]
    [] q.cs \in {"START", "NUMBER0"} /\ c = 0 -> [q EXCEPT !.cs = "NUMBERX"]
    [] q.cs \in {"START", "NUMBER0"} /\ c \in 1 .. 9 -> FirstDigit(q, 10, c)
    [] q.cs = "NUMBERX" /\ c \in {11, Oh, Ex} -> [q EXCEPT !.cs = "ZEROS", !.radix = RadixOf(c)]
    [] q.cs = "NUMBERX" /\ c \in 0 .. 9 -> FirstDigit(q, 10, c)
    [] q.cs = "ZEROS" /\ c \in 0 .. q.radix - 1 -> FirstDigit(q, q.radix, c)
    [] q.cs = "DIGITS" /\ c \in 0 .. q.radix - 1 ->
         [q EXCEPT !.digits = @ + Counted(q, c), !.ds = Append(@, c)]
    [] OTHER -> [q EXCEPT !.cs = "ABORT"]

PutStart == [d |-> <<>>, r |-> 0, m |-> 0]

\* Mutant of PutBits: the bits of a digit that do not fit the limb are dropped.
PutBitsDrops(k, acc, x) ==
  LET r == acc.r + x * Power(2, acc.m)
      m == acc.m + k
  IN IF m >= W THEN [d |-> Append(acc.d, r % Base), r |-> 0, m |-> m - W]
               ELSE [d |-> acc.d, r |-> r, m |-> m]

\* One digit of k bits goes above the m bits in r, which give a limb when it is full.
PutBits(k, acc, x) ==
  LET r == acc.r + x * Power(2, acc.m)
      m == acc.m + k
  IN IF m >= W THEN [d |-> Append(acc.d, r % Base), r |-> r \div Base, m |-> m - W]
               ELSE [d |-> acc.d, r |-> r, m |-> m]

\* intern_set_bin, intern_set_oct, intern_set_hex: k bits for each digit, from
\* the last digit on; a digit in octal may be split between two limbs.
Packed(k, ds) ==
  LET acc[i \in 0 .. Len(ds)] ==
        IF i = 0 THEN PutStart ELSE PutBits(k, acc[i - 1], ds[Len(ds) + 1 - i])
      end == acc[Len(ds)]
  IN IF end.r > 0 THEN Append(end.d, end.r) ELSE end.d

FromBin(ds) == Packed(1, ds)
FromOct(ds) == Packed(3, ds)
FromHex(ds) == Packed(4, ds)

\* intern_mul_one and intern_add_one: a chunk of digits goes in as d * base + r.
ChunkIn(d, base, r) ==
  IF d = <<>> THEN (IF r = 0 THEN <<>> ELSE <<r>>)
  ELSE LET mul == MulLimbs(d, base)
           add == AddLimbs(mul.d, <<>>, r)
           m == mul.c + add.c
       IN IF m = 0 THEN add.d ELSE Append(add.d, m)

\* One decimal digit goes to the k in r, which go in when they are a chunk.
PutDec(acc, x) ==
  LET r == acc.r * 10 + x
      k == acc.k + 1
  IN IF k = DecDigits THEN [d |-> ChunkIn(acc.d, Power(10, k), r), r |-> 0, k |-> 0]
                      ELSE [d |-> acc.d, r |-> r, k |-> k]

\* intern_set_dec: DecDigits digits at a time, and what is left at the end.
FromDec(ds) ==
  LET acc[i \in 0 .. Len(ds)] ==
        IF i = 0 THEN [d |-> <<>>, r |-> 0, k |-> 0] ELSE PutDec(acc[i - 1], ds[i])
      end == acc[Len(ds)]
  IN IF end.k > 0 THEN ChunkIn(end.d, Power(10, end.k), end.r) ELSE end.d

\* The bits reckoned with for the digits that were counted; for decimal ones
\* digits / 0.30103, rounded down, which may be a bit short.
BitsFor(radix, digits) ==
  CASE radix = 2 -> digits
    [] radix = 8 -> 3 * digits
    [] radix = 16 -> 4 * digits
    [] radix = 10 -> BitLen(Power(10, digits)) - 1

Limbs(q) ==
  CASE q.radix = 2 -> FromBin(q.ds)
    [] q.radix = 8 -> FromOct(q.ds)
    [] q.radix = 16 -> FromHex(q.ds)
    [] q.radix = 10 -> FromDec(q.ds)

Scanned(t) ==
  LET q[i \in 0 .. Len(t)] == IF i = 0 THEN ScanStart ELSE Scan(q[i - 1], t[i])
  IN q[Len(t)]

\* number_setstrc with a number of the client's (of so many limbs): PREPARE never
\* replaces it, since number_size does not find its size.
SetInto(limbs, t) ==
  LET q == Scanned(t) IN
  IF q.cs = "ABORT" THEN Nothing
  ELSE IF q.digits = 0 THEN Made(Zero, 0, limbs)
  ELSE Made(Number(q.sign < 0, Limbs(q)), Len(Limbs(q)), limbs)

\* number_setstrc without a number.
SetStr(t) ==
  LET q == Scanned(t)
  IN SetInto(IF q.digits = 0 THEN 1 ELSE LimbsFor(BitsFor(q.radix, q.digits)), t)

-----------------------------------------------------------------------------
(* number_gethex, number_getdec.                                           *)

\* The digits of a limb from the top, k of them.
DigitsOf(v, radix, k) == [i \in 1 .. k |-> (v \div Power(radix, k - i)) % radix]

SignText(n) == IF n.s < 0 THEN <<Minus>> ELSE <<>>

\* The top limb starts at its highest nibble that is not 0.
HexText(n) ==
  LET len == Len(n.d)
      text[i \in 0 .. len] ==
        IF i = 0 THEN <<>>
        ELSE DigitsOf(n.d[i], 16, IF i = len THEN DigitCount(16, n.d[i]) ELSE W \div 4) \o text[i - 1]
  IN SignText(n) \o <<0, Ex>> \o IF len = 0 THEN <<0>> ELSE text[len]

DecLen(v) == DigitCount(10, v)

\* Mutant of ChunkText: the zeros in front are left out.
ChunkTextShort(r) == DigitsOf(r, 10, DecLen(r))

ChunkText(r) == DigitsOf(r, 10, DecDigits)

\* The limbs are divided by 10^DecDigits, from the top limb down: limb i has
\* rest[i + 1] before it and leaves rest[i].
DivChunk(d) ==
  LET chunk == Power(10, DecDigits)
      rest[j \in 0 .. Len(d)] ==
        IF j = 0 THEN 0 ELSE (rest[j - 1] * Base + d[Len(d) + 1 - j]) % chunk
  IN [q |-> [i \in 1 .. Len(d) |-> (rest[Len(d) - i] * Base + d[i]) \div chunk], r |-> rest[Len(d)]]

DecDigitsOf(d) ==
  LET text[e \in Seq(Limb) \ {<<>>}] ==
        IF Len(e) = 1 THEN DigitsOf(e[1], 10, DecLen(e[1]))
        ELSE LET v == DivChunk(e)
             IN text[IF Last(v.q) = 0 THEN Front(v.q) ELSE v.q] \o ChunkText(v.r)
  IN text[d]

DecText(n) == IF n.s = 0 THEN <<0>> ELSE SignText(n) \o DecDigitsOf(n.d)

\* The characters allocated for it: bits * 0.30103, rounded down, and one.
DecRoom(n) == IF n.s = 0 THEN 1 ELSE DecLen(Power(2, Bits(n))) + Len(SignText(n))

-----------------------------------------------------------------------------
(* number_add, number_sub, number_shl, number_shr.                         *)

\* The longer operand comes first.
Longer(x, y) == IF Len(x.d) < Len(y.d) THEN y ELSE x
Shorter(x, y) == IF Len(x.d) < Len(y.d) THEN x ELSE y

\* Of operands of the same length the top limbs decide which is the larger.
Difference(x, y, limbs) ==
  LET len == Len(x.d)
      swap == len = Len(y.d) /\ x.d[len] < y.d[len]
      d == Trimmed(IF swap THEN SubLimbs(y.d, x.d) ELSE SubLimbs(x.d, y.d))
  IN Made(Number((x.s < 0) # swap, d), len, limbs)

\* The carry is written to a limb of its own, which is counted unless it is 0.
Sum(x, y, limbs) ==
  LET sum == AddLimbs(x.d, y.d, 0)
      d == IF sum.c = 0 THEN sum.d ELSE Append(sum.d, sum.c)
  IN Made(Number(x.s < 0, d), Len(x.d) + 1, limbs)

\* (as ^ bs) < 0: one is negative and the other is not.
Combine(x, y, limbs) ==
  IF (x.s < 0) # (y.s < 0) THEN Difference(x, y, limbs) ELSE Sum(x, y, limbs)

\* number_add takes the signed count of limbs for the size of the result, which is
\* too small, or refused as too large, when that is negative.
Add(x, y) ==
  LET limbs == Longer(x, y).s + 1
  IN IF limbs < 0 THEN Refused ELSE Combine(Longer(x, y), Shorter(x, y), limbs)

Sub(x, y) ==
  LET neg == [y EXCEPT !.s = -@]
  IN Combine(Longer(x, neg), Shorter(x, neg), Len(Longer(x, neg).d) + 1)

\* intern_shl: whole limbs of zeros, then the limbs shifted by what is left.
Shl(x, s) ==
  IF x.s = 0 THEN Made(x, 0, 0)
  ELSE LET limbs == LimbsFor(Bits(x) + s)
           shifted == MulLimbs(x.d, Power(2, s % W))
           all == [i \in 1 .. s \div W |-> 0] \o shifted.d
                    \o (IF shifted.c = 0 THEN <<>> ELSE <<shifted.c>>)
       IN Made(Number(x.s < 0, SubSeq(all, 1, limbs)), Len(all), limbs)

\* intern_shr: the limbs from s / W on, each with the low bits of the next; a last
\* limb of 0 is not written. With none left it reads one past the end (junk).
Shifted(d, s, junk) ==
  LET t == s \div W
      first == IF t < Len(d) THEN d[t + 1] ELSE junk
      part(i) == (IF i = 1 THEN first ELSE LimbAt(d, t + i)) + Base * LimbAt(d, t + i + 1)
  IN [i \in 1 .. (IF t < Len(d) THEN Len(d) - t ELSE 1) |-> (part(i) \div Power(2, s % W)) % Base]

\* The bits left are reckoned without a sign: just below 0 they round up to none,
\* further down they are refused as too many.
Shr(x, s, junk) ==
  IF x.s = 0 THEN Made(x, 0, 0)
  ELSE LET left == Bits(x) - s
           all == Trimmed(Shifted(x.d, s, junk))
       IN IF left <= -W THEN Refused
          ELSE LET limbs == IF left <= 0 THEN 0 ELSE LimbsFor(left)
               IN Made(Number(x.s < 0, SubSeq(all, 1, limbs)), Len(all), limbs)

-----------------------------------------------------------------------------
(* What number_setstrc is to read.                                         *)

NonBlank(t) ==
  LET u[i \in 0 .. Len(t)] ==
        IF i = 0 THEN <<>> ELSE IF t[i] = Blank THEN u[i - 1] ELSE Append(u[i - 1], t[i])
  IN u[Len(t)]

\* What a text stands for: blanks do not count, a sign, a prefix, and digits.
Meaning(t) ==
  LET u == NonBlank(t)
      sign == IF u # <<>> /\ u[1] \in {Plus, Minus} THEN 1 ELSE 0
      prefixed == Len(u) > sign + 1 /\ u[sign + 1] = 0 /\ u[sign + 2] \in {11, Oh, Ex}
      radix == IF prefixed THEN RadixOf(u[sign + 2]) ELSE 10
      ds == SubSeq(u, sign + (IF prefixed THEN 3 ELSE 1), Len(u))
  IN [sign |-> IF sign = 1 /\ u[1] = Minus THEN -1 ELSE 1, radix |-> radix, ds |-> ds,
      wellformed |-> \A i \in 1 .. Len(ds) : ds[i] < radix]

=============================================================================

------------------------------- MODULE Number -------------------------------
(***************************************************************************)
(* Clients of src/src/number: one reads a text, another has two numbers    *)
(* and calculates with the first; out remembers what the last call was     *)
(* given and what came of it.                                              *)
(***************************************************************************)
EXTENDS NumberOps

CONSTANTS
  Texts,     \* texts the client has read into a number
  Operands,  \* texts of the numbers calculated with
  Shifts,    \* distances of shifts
  MaxBits,   \* numbers of so many bits or more are not calculated with
  MaxGiven,  \* limbs of a number the client has text read into
  MaxCalls   \* calls of a client that calculates

ASSUME ClientAssumption ==
  /\ Texts \subseteq Seq(Nat) /\ Operands \subseteq Seq(Nat)
  /\ Shifts \subseteq Nat /\ MaxGiven \in Nat

VARIABLES
  num,   \* the number calculated with
  other, \* the other operand
  calls, \* calls made (all of them, once a text is read)
  out    \* the last call: op, arguments, what came of it

vars == <<num, other, calls, out>>

-----------------------------------------------------------------------------
(* The client.                                                             *)

Init ==
  /\ num = Zero
  /\ other = Zero
  /\ calls = 0
  /\ out = [op |-> "none"]

\* A write past the end leaves nothing to go on with.
Keep(got) == IF got.is = "number" /\ ~got.over THEN got.n ELSE num

\* A client that reads a text does nothing else.
Read(t) ==
  /\ out.op = "none"
  /\ num' = Keep(SetStr(t))
  /\ calls' = MaxCalls
  /\ out' = [op |-> "read", text |-> t, got |-> SetStr(t)]
  /\ UNCHANGED other

\* Into a number the client has made with number_new(limbs * W).
ReadInto(limbs, t) ==
  /\ out.op = "none"
  /\ num' = Keep(SetInto(limbs, t))
  /\ calls' = MaxCalls
  /\ out' = [op |-> "readinto", text |-> t, limbs |-> limbs, got |-> SetInto(limbs, t)]
  /\ UNCHANGED other

\* Another has two numbers, and calculates.
Begin(t, u) ==
  /\ out.op = "none"
  /\ num' = SetStr(t).n
  /\ other' = SetStr(u).n
  /\ out' = [op |-> "begin"]
  /\ UNCHANGED calls

Calculate(op, arg, got) ==
  /\ calls < MaxCalls /\ out.op # "none"
  /\ Bits(num) < MaxBits
  /\ num' = Keep(got)
  /\ calls' = calls + 1
  /\ out' = [op |-> op, x |-> num, arg |-> arg, got |-> got]
  /\ UNCHANGED other

CallAdd == Calculate("add", other, Add(num, other))
CallSub == Calculate("sub", other, Sub(num, other))
CallShl(s) == Bits(num) + s <= MaxBits /\ Calculate("shl", s, Shl(num, s))
CallShr(s, junk) == Calculate("shr", s, Shr(num, s, junk))

Next ==
  \/ \E t \in Texts : Read(t)
  \/ \E t \in Texts, limbs \in 1 .. MaxGiven : ReadInto(limbs, t)
  \/ \E t, u \in Operands : Begin(t, u)
  \/ CallAdd
  \/ CallSub
  \/ \E s \in Shifts : CallShl(s)
  \/ \E s \in Shifts, junk \in {0, Base - 1} : CallShr(s, junk)

Spec == Init /\ [][Next]_vars

-----------------------------------------------------------------------------
(* Properties.                                                             *)

\* A number counts the limbs it has, and the top one is not 0: getdec, gethex
\* and the comparison of number_add look at the top limb without asking.
TypeOK ==
  \A n \in {num, other} :
    /\ n.d \in Seq(Limb)
    /\ Abs(n.s) = Len(n.d)
    /\ n.s # 0 => Last(n.d) # 0

\* number_setstrc reads every text of the syntax, blanks anywhere, in every radix
\* and across the limits of limbs, to the value it stands for, and any other text
\* to no number at all.
ReadsRight ==
  out.op \in {"read", "readinto"} =>
    LET m == Meaning(out.text) IN
    IF ~m.wellformed THEN out.got.is = "nothing"
    ELSE /\ out.got.is = "number"
         /\ Bits(out.got.n) <= MaxBits =>
              Value(out.got.n) = m.sign * DigitsValue(m.radix, m.ds)

\* The calls known to reckon the size of their result wrong: octal zeros are not
\* counted, a client's number is never replaced, number_add takes the count of a
\* negative operand as it is, and number_shr reads on when no limb is left.
Misjudged ==
  CASE out.op = "read" -> LET m == Meaning(out.text) IN m.radix = 8 /\ \E i \in 2 .. Len(m.ds) : m.ds[i] = 0
    [] out.op = "readinto" -> Bits(out.got.n) > W * out.limbs
    [] out.op = "add" -> Longer(out.x, out.arg).s < 0
    [] out.op = "sub" -> FALSE
    [] out.op = "shl" -> FALSE
    [] out.op = "shr" -> out.arg >= W * Len(out.x.d)

\* No other call writes past its buffer or is refused: the bits of decimal digits are
\* reckoned one short now and then, and what number_new allocates too much makes up for it.
InBounds ==
  out.op \notin {"none", "begin"} /\ (out.got.over \/ out.got.is = "error") => Misjudged

\* x and y have different signs, as many limbs and the same top limb, but y is
\* the larger: number_add and number_sub take it for the smaller one.
TopTie(x, y) ==
  /\ (x.s < 0) # (y.s < 0)
  /\ Len(x.d) = Len(y.d)
  /\ Last(x.d) = Last(y.d)
  /\ Magnitude(x.d) < Magnitude(y.d)

\* What the borrow that number_sub drops then adds to the result.
Off(x, y) == IF TopTie(x, y) THEN (IF x.s < 0 THEN -1 ELSE 1) * Power(Base, Len(x.d)) ELSE 0

\* Sums, differences and shifts are what they are for integers (a shift to the right
\* drops bits of the magnitude), except where the top limbs do not tell the larger
\* operand: there the result is off by Base^len exactly.
ResultsExact ==
  out.op \in {"add", "sub", "shl", "shr"} /\ out.got.is = "number" /\ ~out.got.over =>
    LET x == Value(out.x)
        neg(n) == [n EXCEPT !.s = -@]
    IN Value(out.got.n) =
         CASE out.op = "add" -> x + Value(out.arg) + Off(out.x, out.arg)
           [] out.op = "sub" -> x - Value(out.arg) + Off(out.x, neg(out.arg))
           [] out.op = "shl" -> x * Power(2, out.arg)
           [] out.op = "shr" -> (IF x < 0 THEN -1 ELSE 1) * (Abs(x) \div Power(2, out.arg))

\* What number_gethex and number_getdec write is read back as the same number, and
\* number_getdec keeps within the characters it has reckoned for the bits in use.
TextRoundTrips ==
  Bits(num) < MaxBits =>
    /\ SetStr(HexText(num)).n = num
    /\ SetStr(DecText(num)).n = num
    /\ Len(DecText(num)) <= DecRoom(num)

=============================================================================

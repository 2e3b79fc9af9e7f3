------------------------------ MODULE LimbOps -------------------------------
(***************************************************************************)
(* One step of the limb loops of src/src/number/number.c: what is written  *)
(* to the result and what is carried to the next limb.                     *)
(***************************************************************************)
EXTENDS Integers

CONSTANT Base  \* what a limb counts up to: 2^32 in the code

ASSUME BaseAssumption == Base \in Nat /\ Base > 1

Limb == 0 .. Base - 1

\* intern_add_sl: the low word of the sum, and its carry.
AddLimb(a, b, c) ==
  IF a + b + c < Base THEN [r |-> a + b + c, c |-> 0]
                      ELSE [r |-> a + b + c - Base, c |-> 1]

\* intern_sub_sl: Base is added first and taken off again as the borrow.
SubLimb(a, b, c) ==
  IF a - b - c >= 0 THEN [r |-> a - b - c, c |-> 0]
                    ELSE [r |-> Base + a - b - c, c |-> 1]

\* intern_mul_one.
MulLimb(a, b, c) == [r |-> (a * b + c) % Base, c |-> (a * b + c) \div Base]

=============================================================================

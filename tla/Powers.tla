------------------------------- MODULE Powers -------------------------------
(***************************************************************************)
(* Powers, and the digits of a number in a radix.                          *)
(***************************************************************************)
EXTENDS Integers, Sequences

Power(radix, n) ==
  LET p[i \in Nat] == IF i = 0 THEN 1 ELSE radix * p[i - 1] IN p[n]

\* How many digits a value has; none if it is 0.
DigitCount(radix, v) ==
  LET n[w \in Nat] == IF w = 0 THEN 0 ELSE 1 + n[w \div radix] IN n[v]

\* The value of the first i digits in some radix, for each i; and of all of them.
HighValues(radix, ds) ==
  LET v[i \in 0 .. Len(ds)] == IF i = 0 THEN 0 ELSE v[i - 1] * radix + ds[i]
  IN v
DigitsValue(radix, ds) == HighValues(radix, ds)[Len(ds)]

=============================================================================

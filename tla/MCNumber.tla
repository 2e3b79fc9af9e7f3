------------------------------ MODULE MCNumber ------------------------------
(***************************************************************************)
(* Limbs of 8 bits and chunks of two decimal digits: texts of up to four   *)
(* characters, and longer ones at the limits of limbs and chunks.          *)
(***************************************************************************)
EXTENDS Number

\* 9 is no digit in octal, and 11 is the letter b: a prefix, or a digit in hex only.
MCChars == {0, 1, 9, 11, Minus, Oh, Ex, Blank}

Hex(ds) == <<0, Ex>> \o ds
Neg(t) == <<Minus>> \o t

\* Two limbs, three limbs, and the carries between them.
MCHex ==
  { Hex(ds) : ds \in { <<15, 15>>, <<1, 0, 0>>, <<1, 0, 1>>, <<1, 15, 15>>, <<15, 15, 0, 0>>,
                       <<15, 15, 15, 15>>, <<1, 0, 0, 0, 1>>,
                       <<15, 15, 15, 15, 15, 15>> } }

\* Chunks of zeros, an odd digit left over, and 17 bits where 16 are reckoned.
MCDec == { <<9, 9, 9, 9, 9>>, <<1, 0, 0, 0, 0>>, <<1, 0, 0, 0, 0, 7>>, <<Blank, 6, 5, 5, 3, 6>> }

\* Digits that are split between limbs, and more of them than a limb's room.
MCOct == { <<0, Oh>> \o ds : ds \in { <<7, 7, 7>>, <<4, 0, 0>>, <<1, 2, 3, 4, 5, 6>>,
                                     <<1>> \o [i \in 1 .. 14 |-> 0] } }

MCBin == { <<0, 11>> \o ds : ds \in { <<1, 0, 1, 0, 1, 0, 1, 0>>, <<1, 0, 0, Blank, 0, 0, 0, 0, 0, 1>> } }

MCOperands == MCHex \cup { Neg(t) : t \in MCHex } \cup { <<0>>, <<1>>, <<Minus, 1>>, <<9, 9, 9, 9, 9>> }

MCTexts ==
  BoundedSeq(MCChars, 4) \cup MCOperands \cup MCDec \cup { Neg(t) : t \in MCDec } \cup MCOct \cup MCBin

MCShifts == { 1, 8, 9, 17 }

=============================================================================

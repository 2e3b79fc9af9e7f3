-------------------------------- MODULE Utf8 --------------------------------
(***************************************************************************)
(* src/src/common/utf8.h: decoding by a table of byte classes and states,  *)
(* and encoding.                                                           *)
(***************************************************************************)
EXTENDS Powers

\* The first part of utf8d: the class of a byte.
Class(x) ==
  CASE x \in 0 .. 127 -> 0
    [] x \in 128 .. 143 -> 1
    [] x \in 144 .. 159 -> 9
    [] x \in 160 .. 191 -> 7
    [] x \in 194 .. 223 -> 2
    [] x = 224 -> 10
    [] x = 237 -> 4
    [] x \in (225 .. 239) \ {237} -> 3
    [] x = 240 -> 11
    [] x \in 241 .. 243 -> 6
    [] x = 244 -> 5
    [] OTHER -> 8

Complete == 0
Malformed == 1

\* Mutant of NextState: any three byte sequence may start with 224.
NextStateOverlong(s, k) ==
  CASE s = 0 /\ k \in 0 .. 11 -> <<0, 1, 2, 3, 5, 8, 7, 1, 1, 1, 3, 6>>[k + 1]
    [] s = 2 /\ k \in {1, 7, 9} -> 0
    [] s = 3 /\ k \in {1, 7, 9} -> 2
    [] s = 5 /\ k \in {1, 9} -> 2
    [] s = 6 /\ k \in {7, 9} -> 3
    [] s = 7 /\ k \in {1, 7, 9} -> 3
    [] s = 8 /\ k = 1 -> 3
    [] OTHER -> Malformed

\* The second part: what is still to come after a byte of class k in state s.
NextState(s, k) ==
  CASE s = 0 /\ k \in 0 .. 11 -> <<0, 1, 2, 3, 5, 8, 7, 1, 1, 1, 4, 6>>[k + 1]
    [] s = 2 /\ k \in {1, 7, 9} -> 0
    [] s = 3 /\ k \in {1, 7, 9} -> 2
    [] s = 4 /\ k = 7 -> 2
    [] s = 5 /\ k \in {1, 9} -> 2
    [] s = 6 /\ k \in {7, 9} -> 3
    [] s = 7 /\ k \in {1, 7, 9} -> 3
    [] s = 8 /\ k = 1 -> 3
    [] OTHER -> Malformed

\* utf8_decode: the code point so far.
CodeSoFar(s, code, x) ==
  IF s # Complete THEN code * 64 + (x % 64)
  ELSE IF Class(x) > 8 THEN 0 ELSE x % Power(2, 8 - Class(x))

\* ur_read of one byte: the state, the code point and the bytes of the character.
UrRead(u, x) ==
  [s |-> NextState(u.s, Class(x)), c |-> CodeSoFar(u.s, u.c, x),
   r |-> IF u.s = Complete THEN <<x>> ELSE Append(u.r, x)]

\* utf8_encode, of what \u can give. The last code point of each length is
\* taken for one that needs a byte more.
Utf8Encode(u) ==
  CASE u < 128 -> <<u>>
    [] u >= 128 /\ u < 2047 -> <<192 + u \div 64, 128 + (u % 64)>>
    [] u >= 2047 /\ u < 65535 -> <<224 + u \div 4096, 128 + ((u \div 64) % 64), 128 + (u % 64)>>
    [] u >= 65535 -> <<240 + u \div 262144, 128 + ((u \div 4096) % 64), 128 + ((u \div 64) % 64), 128 + (u % 64)>>

=============================================================================

------------------------------- MODULE SxText -------------------------------
(***************************************************************************)
(* What a text is to be read as, by recursive descent over the whole of    *)
(* it, and what src/src/sx writes.                                         *)
(***************************************************************************)
EXTENDS Sx

-----------------------------------------------------------------------------
(* What the reader is to read: an independent definition, by recursive     *)
(* descent over a whole text.                                              *)

CodePoint(s) ==
  CASE Len(s) = 1 -> s[1]
    [] Len(s) = 2 -> (s[1] - 192) * 64 + s[2] - 128
    [] Len(s) = 3 -> (s[1] - 224) * 4096 + (s[2] - 128) * 64 + s[3] - 128
    [] Len(s) = 4 -> (s[1] - 240) * 262144 + (s[2] - 128) * 4096 + (s[3] - 128) * 64 + s[4] - 128

\* One character of UTF-8: no longer than it must be, no surrogate, at most 10ffff.
WellFormed(s) ==
  /\ s[1] \in <<0 .. 127, 192 .. 223, 224 .. 239, 240 .. 247>>[Len(s)]
  /\ \A i \in 2 .. Len(s) : s[i] \in 128 .. 191
  /\ CodePoint(s) \in <<0 .. 127, 128 .. 2047, 2048 .. 65535, 65536 .. 1114111>>[Len(s)]
  /\ CodePoint(s) \notin 55296 .. 57343

\* The bytes of a code point, with the one byte more that utf8_encode gives to the
\* last of two and of three bytes.
Encoding(u) ==
  LET n == Cardinality({m \in {127, 2046, 65534} : u > m}) + 1
  IN [i \in 1 .. n |-> (IF i = 1 THEN <<0, 192, 224, 240>>[n] ELSE 128)
                        + (IF i = 1 THEN u \div 64 ^ (n - 1) ELSE (u \div 64 ^ (n - i)) % 64)]

RECURSIVE Chars(_)
\* The characters of a text, up to one that is malformed or not complete.
Chars(t) ==
  LET n == {k \in 1 .. 4 : k <= Len(t) /\ WellFormed(SubSeq(t, 1, k))}
  IN IF n = {} THEN <<>>
     ELSE LET k == CHOOSE k \in n : TRUE
          IN << SubSeq(t, 1, k) >> \o Chars(SubSeq(t, k + 1, Len(t)))

After(cs, i, S) == SelectInSeq(SubSeq(cs, i, Len(cs)), LAMBDA x : Len(x) = 1 /\ x[1] \in S)

\* The digits of an escape: as many as there are, but no more than most.
Digits(cs, i, radix, most) ==
  Max({k \in 0 .. most :
         \A j \in i .. i + k - 1 : j <= Len(cs) /\ Len(cs[j]) = 1 /\ HexDigit(cs[j][1]) < radix})
DigitsAt(cs, i, k) == [j \in 1 .. k |-> HexDigit(cs[i + j - 1][1])]

RECURSIVE Unescaped(_)
Unescaped(cs) ==
  IF cs = <<>> THEN <<>>
  ELSE IF cs[1] # <<Backslash>> THEN cs[1] \o Unescaped(Tail(cs))
  ELSE LET c == cs[2][1]
           rest(i) == Unescaped(SubSeq(cs, i, Len(cs)))
           oct == LET k == Digits(cs, 2, 8, 3)
                  IN IF DigitsValue(8, DigitsAt(cs, 2, k)) > 255 THEN 2 ELSE k
           hex == Digits(cs, 3, 16, 2)
           uni == Digits(cs, 3, 16, 4)
       IN CASE c \in {Backslash, DQuote} -> <<c>> \o rest(3)
            [] c \in DOMAIN Control -> <<Control[c]>> \o rest(3)
            [] c \in 48 .. 55 -> <<DigitsValue(8, DigitsAt(cs, 2, oct))>> \o rest(2 + oct)
            [] c = 120 /\ hex > 0 -> <<DigitsValue(16, DigitsAt(cs, 3, hex))>> \o rest(3 + hex)
            [] c = 117 /\ uni > 0 -> Encoding(DigitsValue(16, DigitsAt(cs, 3, uni))) \o rest(3 + uni)
            [] OTHER -> <<Backslash>> \o cs[2] \o rest(3)

\* Where the string that begins at i ends: at the next quote like it that does not
\* come after an odd number of backslashes.
StringEnds(cs, i) ==
  {j \in i + 1 .. Len(cs) :
     /\ cs[j] = cs[i]
     /\ cs[i] = <<DQuote>> =>
          Cardinality({k \in i + 1 .. j - 1 : \A m \in k .. j - 1 : cs[m] = <<Backslash>>}) % 2 = 0}

Integer(v) == LET k == CHOOSE k \in 0 .. 3 : v \div Power(Base, k) = 0 /\ (k > 0 => v \div Power(Base, k - 1) # 0)
              IN Number(FALSE, [i \in 1 .. k |-> (v \div Power(Base, i - 1)) % Base])

\* A word is a number when it begins with a digit.
Word(str) ==
  IF str[1] \in 48 .. 57
  THEN LET m == Meaning(NumText(str))
       IN Tree("NUM", <<>>, <<>>, IF m.wellformed THEN {Integer(DigitsValue(m.radix, m.ds))} ELSE {})
  ELSE Tree("PLAIN", <<>>, str, {})

RECURSIVE Items(_, _, _)
\* The items from the i-th character on, of a list or of the text; one that is not
\* known to be complete is left out, but a list that is open is there with its items.
Items(cs, i, inside) ==
  LET none == [items |-> <<>>, at |-> i, closed |-> FALSE]
      with(item, j) == LET more == Items(cs, j, inside) IN [more EXCEPT !.items = <<item>> \o @]
      c == IF Len(cs[i]) = 1 THEN cs[i][1] ELSE 128
      delimiter == After(cs, i, White \cup {LPar, RPar, SQuote, DQuote})
      string == StringEnds(cs, i)
  IN CASE i > Len(cs) -> none
       [] i <= Len(cs) /\ c \in White -> Items(cs, i + 1, inside)
       [] i <= Len(cs) /\ c = Semi ->
            IF After(cs, i, {NL}) = 0 THEN none ELSE Items(cs, i + After(cs, i, {NL}), inside)
       [] i <= Len(cs) /\ c = RPar -> [none EXCEPT !.at = i + 1, !.closed = inside]
       [] i <= Len(cs) /\ c = LPar ->
            LET list == Items(cs, i + 1, TRUE)
                item == Tree("LIST", list.items, <<>>, {})
            IN IF list.closed THEN with(item, list.at) ELSE [none EXCEPT !.items = <<item>>]
       [] i <= Len(cs) /\ c \in {SQuote, DQuote} ->
            IF string = {} \/ Min(string) = Len(cs) THEN none
            ELSE LET str == SubSeq(cs, i + 1, Min(string) - 1)
                 IN with(IF c = DQuote THEN Tree("DQ", <<>>, Unescaped(str), {})
                                       ELSE Tree("SQ", <<>>, FlattenSeq(str), {}), Min(string) + 1)
       [] OTHER ->
            IF delimiter = 0 THEN none
            ELSE with(Word(FlattenSeq(SubSeq(cs, i, i + delimiter - 2))), i + delimiter - 1)

-----------------------------------------------------------------------------
(* sx_dump: what it pushes on a stack of strings. Line breaks and indent   *)
(* are written as one blank.                                               *)

Byte1(c) == << <<c>> >>
Quoted(q, str) == <<<<q>>, str, <<q>>>>
Characters(digits) == [i \in 1 .. Len(digits) |-> IF digits[i] = Minus THEN 45 ELSE digits[i] + 48]
DecBytes(n) == Characters(DecText(n))

\* Mutant of Between: nothing is written between two items.
BetweenNothing(i) == <<>>

\* What is written before the i-th item of a list.
Between(i) == IF i = 1 THEN <<>> ELSE Byte1(32)

RECURSIVE Pieces(_)
\* sx_writer; a number must be there.
Pieces(items) ==
  LET piece(x) ==
        CASE x.kind = "PLAIN" -> <<x.str>>
          [] x.kind = "SQ" -> Quoted(SQuote, x.str)
          [] x.kind = "DQ" -> Quoted(DQuote, x.str)
          [] x.kind = "NUM" -> <<DecBytes(CHOOSE n \in x.num : TRUE)>>
          [] x.kind = "LIST" -> Byte1(LPar) \o Pieces(x.items) \o Byte1(RPar)
  IN FlattenSeq([i \in 1 .. Len(items) |-> Between(i) \o piece(items[i])])

Dump(items) == StackStrcat([EmptyStack EXCEPT !.d = Pieces(items) \o Byte1(32)])

-----------------------------------------------------------------------------
(* Properties.                                                             *)

\* However the text is cut into calls, and whatever was collected while the parser was
\* idle, what sxb_read has returned and what it holds back are the items of the text:
\* nothing lost at the limit of two calls, nothing doubled, and nothing after an error.
ReadsTheText ==
  ~lost /\ ~hit => got \o Trees(heap, b.root) = Items(Chars(seen), 1, FALSE).items

RECURSIVE Writable(_)
\* A number that is there, and a string that needs no escape, which sx_writer has not.
Writable(x) ==
  /\ x.kind = "NUM" => x.num # {}
  /\ x.kind = "DQ" => /\ FlattenSeq(Chars(x.str)) = x.str
                      /\ \A i \in 1 .. Len(x.str) : x.str[i] \notin {0, DQuote, Backslash}
  /\ \A i \in 1 .. Len(x.items) : Writable(x.items[i])

\* What sx_dump writes of the items read is read back as the same items.
RoundTrip ==
  ~hit /\ (\A i \in 1 .. Len(got) : Writable(got[i])) =>
    TreesOf(Parsed(Calling(NewParser, <<>>, {}, <<>>, FALSE, 0), Dump(got))) = got

=============================================================================

------------------------------- MODULE MCSx ---------------------------------
(***************************************************************************)
(* Every text of a few bytes that tell the states of the parser apart, and *)
(* texts with escapes, UTF-8, numbers, nesting and atoms beyond a buffer.  *)
(***************************************************************************)
EXTENDS SxText

MCBytes == {LPar, RPar, 32, 97, 49, DQuote, SQuote, Semi, NL}

Q(s) == <<DQuote>> \o s \o <<DQuote, 32>>

MCSpecial == {
  \* ((a)()b)c
  <<40, 40, 97, 41, 40, 41, 98, 41, 99, 32>>,
  \* (a('c'0)"d")
  <<40, 97, 40, 39, 99, 39, 48, 41, 34, 100, 34, 41>>,
  \* )a (a
  <<97, 41, 97, 40, 97>>,
  \* 0x1f 0b2 , 0o17 -5 , 300_1(
  <<48, 120, 49, 102, 32, 48, 98, 50, 32>>, <<48, 111, 49, 55, 32, 45, 53, 32>>, <<51, 48, 48, 95, 49, 40>>,
  \* abcdefghi abcde
  <<97, 98, 99, 100, 101, 102, 103, 104, 105, 32, 97, 98, 99, 100, 101, 10>>,
  \* a two, a three and a four byte character, and one cut off
  <<195, 164, 226, 130, 172, 32>>, <<240, 159, 152, 128, 32, 206>>,
  \* overlong, surrogate, too large, a stray continuation
  <<97, 32, 224, 144, 128, 32, 97>>, <<97, 32, 237, 160, 128, 32>>, <<97, 32, 244, 144, 128, 128>>,
  <<97, 32, 128, 32, 97, 32>>,
  \* NUL inside
  <<97, 32, 0, 98, 32, 40, 0, 41>>,
  \* 'a"\n' : no escapes between single quotes
  <<39, 97, 34, 92, 110, 39, 32>>,
  \* "\1\18\400\377"
  Q(<<92, 49, 92, 49, 56, 92, 52, 48, 48, 92, 51, 55, 55>>),
  \* "\x\xaf1\x4g"
  Q(<<92, 120, 92, 120, 97, 102, 49, 92, 120, 52, 103>>),
  \* "\u7ff\u0041\u\u20ac"
  Q(<<92, 117, 55, 102, 102, 92, 117, 48, 48, 52, 49, 92, 117, 92, 117, 50, 48, 97, 99>>),
  \* "\uffff\ud800"
  Q(<<92, 117, 102, 102, 102, 102, 92, 117, 100, 56, 48, 48>>),
  \* "\\\"\n\q\a"
  Q(<<92, 92, 92, 34, 92, 110, 92, 113, 92, 97>>) }

MCTexts == [1 .. 4 -> MCBytes] \cup MCSpecial

=============================================================================

--------------------------------- MODULE Sx ---------------------------------
(***************************************************************************)
(* The reader of s-expressions, src/src/sx: a client gives a text to       *)
(* sxb_read in pieces of any length and takes what is complete; in between *)
(* it may call gc_collect, with the parser as its only root.               *)
(***************************************************************************)
EXTENDS NumberOps, GcStack, Utf8, Reachability

CONSTANTS
  SxTexts,  \* texts to be read, sequences of bytes
  AgUnit,   \* unit in which the buffer of an atom is allocated: 16 in the code
  MaxFail   \* in one of the calls, one of the first MaxFail allocations may fail

ASSUME AgUnitAssumption == AgUnit \in Nat /\ AgUnit >= 4
ASSUME ClientAssumption == SxTexts \subseteq Seq(0 .. 255) /\ MaxFail \in Nat

VARIABLES
  b,     \* the parser: s, depth, the atom's kind at and buffer ag, the escape sg,
         \* the UTF-8 decoder u, cue, root and stack
  heap,  \* the sx_t that are allocated, by address
  strs,  \* the strings that are interned
  text,  \* what the client has to read
  pos,   \* bytes of it given to sxb_read
  seen,  \* bytes of it that were taken in (a NUL ends a call)
  got,   \* the items sxb_read has returned, as trees
  hit,   \* an allocation has failed
  lost   \* gc_collect was called while the parser was not idle

vars == <<b, heap, strs, text, pos, seen, got, hit, lost>>

LPar == 40
RPar == 41
NL == 10
Semi == 59
SQuote == 39
DQuote == 34
Backslash == 92
White == {32, 10, 13, 9, 11}

-----------------------------------------------------------------------------
(* Items: trees, and the sx_t they are made of.                            *)

Tree(kind, items, str, num) == [kind |-> kind, items |-> items, str |-> str, num |-> num]

\* The trees of x and of what is linked behind it.
Trees(h, x) ==
  LET trees[y \in {Null} \cup DOMAIN h] ==
        IF y = Null THEN <<>>
        ELSE <<Tree(h[y].kind, trees[h[y].lst], h[y].str, h[y].num)>> \o trees[h[y].next]
  IN trees[x]

\* What the parser holds.
TreesOf(r) == Trees(r.heap, r.b.root)

\* sx_init.
NewNode == [kind |-> "NONE", next |-> Null, lst |-> Null, str |-> <<>>, num |-> {}]

\* The characters of a number, as number_setstrc tells them apart.
NumChar(x) ==
  CASE x \in 48 .. 57 -> x - 48
    [] x \in 97 .. 102 -> x - 87
    [] x = 43 -> Plus
    [] x = 45 -> Minus
    [] x = 111 -> Oh
    [] x = 120 -> Ex
    [] x \in {32, 95} -> Blank
    [] OTHER -> Blank + 1

NumText(str) == [i \in 1 .. Len(str) |-> NumChar(str[i])]

\* A malformed number is neither a number nor an error: SX_NUM without a num.
NumberOf(str) ==
  LET n == SetStr(NumText(str)) IN IF n.is = "number" THEN {n.n} ELSE {}

-----------------------------------------------------------------------------
(* The parser within one call. r holds the variables it changes, and       *)
(* fail: the allocation that will fail (0 for none), err: the call reports *)
(* an error, stop: no more of the bytes are looked at.                     *)

Fails(r) == r.fail = 1
Failed(r) == [r EXCEPT !.fail = 0, !.hit = TRUE]
Spent(r) == [r EXCEPT !.fail = IF @ > 0 THEN @ - 1 ELSE 0]

\* TE: the call ends with an error and the parser stays in SXBS_ERROR.
Error(r) == [r EXCEPT !.b.s = "ERROR", !.err = TRUE, !.stop = TRUE]

\* Mutant of AgAppend: the buffer grows when one byte too many is in it.
AgAppendLate(r, bytes) ==
  IF r.b.room > 0 /\ r.b.room - Len(r.b.ag) >= Len(bytes) - 1 THEN [r EXCEPT !.b.ag = @ \o bytes]
  ELSE IF Fails(r) THEN Failed(r)
  ELSE [Spent(r) EXCEPT !.b.ag = @ \o bytes,
                        !.b.room = IF @ = 0 THEN ((Len(bytes) + AgUnit - 1) \div AgUnit) * AgUnit
                                            ELSE 2 * @]

\* ag_append. Its callers do not look at its error: the bytes are missing then.
AgAppend(r, bytes) ==
  IF r.b.room > 0 /\ r.b.room - Len(r.b.ag) >= Len(bytes) THEN [r EXCEPT !.b.ag = @ \o bytes]
  ELSE IF Fails(r) THEN Failed(r)
  ELSE [Spent(r) EXCEPT !.b.ag = @ \o bytes,
                           !.b.room = IF @ = 0 THEN ((Len(bytes) + AgUnit - 1) \div AgUnit) * AgUnit
                                               ELSE 2 * @]

\* gc_new of an sx_t at address x.
Fresh(r) == Max({0} \cup DOMAIN r.heap) + 1
WithNode(r, x, node) == [Spent(r) EXCEPT !.heap = [y \in DOMAIN @ \cup {x} |-> IF y = x THEN node ELSE @[y]]]

\* ajoin: behind cue, or as the first of the innermost open list, or of all (there
\* is no root then, so that ajoin never gets to its last).
Join(r, x) ==
  IF r.b.cue # Null THEN [r EXCEPT !.heap[r.b.cue].next = x]
  ELSE IF StackTop(r.b.stack) # Null THEN [r EXCEPT !.heap[StackTop(r.b.stack)].lst = x]
  ELSE [r EXCEPT !.b.root = x]

\* SXBS_LIST_START. The list is joined before it is pushed.
ListStart(r) ==
  LET x == Fresh(r)
      joined == Join(WithNode(r, x, [NewNode EXCEPT !.kind = "LIST"]), x)
  IN CASE Fails(r) -> Error(Failed(r))
       [] ~Fails(r) /\ StackFull(joined.b.stack) /\ Fails(joined) ->
            Error([Failed(joined) EXCEPT !.b.stack = StackPushFails(@)])
       [] OTHER ->
            [(IF StackFull(joined.b.stack) THEN Spent(joined) ELSE joined)
               EXCEPT !.b.stack = StackPush(@, x), !.b.cue = Null,
                      !.b.depth = @ + 1, !.b.s = "INTERMEDIATE"]

\* Mutant of ListEnd: what follows is still joined to the last item of the list.
ListEndKeepsCue(r) ==
  IF r.b.depth = 0 THEN Error(r)
  ELSE [r EXCEPT !.b.stack = StackPop(@), !.b.depth = @ - 1, !.b.s = "INTERMEDIATE"]

\* SXBS_LIST_END.
ListEnd(r) ==
  IF r.b.depth = 0 THEN Error(r)
  ELSE [r EXCEPT !.b.cue = StackTop(r.b.stack), !.b.stack = StackPop(@),
                 !.b.depth = @ - 1, !.b.s = "INTERMEDIATE"]

\* SXBS_ATOM_END and new_atom: the sx_t first, then its string (unless there is
\* one already) or its number num; digits is whether it is to be a number.
Atom(r, digits, num) ==
  LET x == Fresh(r)
      str == r.b.ag
      needs == IF digits THEN num # {} ELSE str \notin r.strs
      node == IF digits THEN [NewNode EXCEPT !.kind = "NUM", !.num = num]
                        ELSE [NewNode EXCEPT !.kind = r.b.at, !.str = str]
      bare == WithNode(r, x, NewNode)
      done == [(IF needs THEN Spent(bare) ELSE bare)
                 EXCEPT !.heap[x] = node, !.strs = IF digits THEN @ ELSE @ \cup {str}]
  IN CASE Fails(r) -> Error(Failed(r))
       [] ~Fails(r) /\ needs /\ Fails(bare) -> Error(Failed(bare))
       [] OTHER -> [Join(done, x) EXCEPT !.b.cue = x, !.b.at = "NONE", !.b.s = "INTERMEDIATE"]

\* A plain atom that starts with a digit is to be a number.
AtomEnd(r) ==
  IF r.b.at = "PLAIN" /\ r.b.ag # <<>> /\ r.b.ag[1] \in 48 .. 57
    THEN Atom(r, TRUE, NumberOf(r.b.ag))
    ELSE Atom(r, FALSE, {})

\* SXBS_ATOM_START, at c (of the bytes cs).
AtomStart(r, c, cs) ==
  LET empty == [r EXCEPT !.b.ag = <<>>]
  IN IF c \in {SQuote, DQuote}
     THEN [empty EXCEPT !.b.at = IF c = DQuote THEN "DQ" ELSE "SQ", !.b.s = "ESTRING"]
     ELSE [AgAppend(empty, cs) EXCEPT !.b.at = "PLAIN", !.b.s = "STRING"]

\* Escapes: their radix and how many digits they take. Three octal ones only if
\* the value stays below 256.
HexDigit(c) == CASE c \in 48 .. 57 -> c - 48 [] c \in 97 .. 102 -> c - 87 [] OTHER -> 99
Radix(s) == IF s = "OCT" THEN 8 ELSE 16
MostDigits(s, ds) ==
  CASE s = "OCT" -> IF ds # <<>> /\ ds[1] > 3 THEN 2 ELSE 3
    [] s = "HEX" -> 2
    [] s = "UNI" -> 4

\* SXBS_ES_OCTW, SXBS_ES_HEXW, SXBS_ES_UNIW.
EscapeBytes(s, ds) ==
  CASE ds = <<>> -> <<Backslash, IF s = "HEX" THEN 120 ELSE 117>>
    [] ds # <<>> /\ s = "UNI" -> Utf8Encode(DigitsValue(16, ds))
    [] OTHER -> <<DigitsValue(Radix(s), ds) % 256>>

\* SXBS_ES_ESC: the letters that stand for a control character.
Control ==
  [c \in {97, 98, 102, 110, 114, 116, 118} |->
     CASE c = 97 -> 7 [] c = 98 -> 8 [] c = 102 -> 12 [] c = 110 -> 10 [] c = 114 -> 13
       [] c = 116 -> 9 [] c = 118 -> 11]

EscapeStart(r, c, cs) ==
  LET in == [r EXCEPT !.b.s = "ESTRING"]
      escape(s, ds) == [r EXCEPT !.b.s = s, !.b.sg = ds]
  IN CASE c \in {Backslash, DQuote} -> AgAppend(in, cs)
       [] c \in DOMAIN Control -> AgAppend(in, <<Control[c]>>)
       [] c \in 48 .. 55 -> escape("OCT", <<c - 48>>)
       [] c = 120 -> escape("HEX", <<>>)
       [] c = 117 -> escape("UNI", <<>>)
       [] OTHER -> AgAppend(AgAppend(in, <<Backslash>>), cs)

\* What ends a plain atom, and what an escape goes on with.
Delimiters == White \cup {LPar, RPar, SQuote, DQuote}
Escapes == {"OCT", "HEX", "UNI"}
MoreDigits(p, c) == HexDigit(c) < Radix(p.s) /\ Len(p.sg) < MostDigits(p.s, p.sg)

\* An atom or an escape that ends before c, which is looked at again then.
Ended(r, c) ==
  CASE (r.b.s = "STRING" /\ c \in Delimiters) \/ r.b.s = "ATOM_END" -> AtomEnd(r)
    [] r.b.s \in Escapes /\ ~MoreDigits(r.b, c) ->
         AgAppend([r EXCEPT !.b.s = "ESTRING"], EscapeBytes(r.b.s, r.b.sg))
    [] OTHER -> r

\* A state that takes the character c in, of the bytes cs.
TakenIn(r, c, cs) ==
  LET to(s) == [r EXCEPT !.b.s = s]
  IN CASE r.b.s \in {"START", "INTERMEDIATE"} ->
            (CASE c \in White -> to("INTERMEDIATE")
               [] c = Semi -> to("COMMENT")
               [] c = LPar -> ListStart(r)
               [] c = RPar -> ListEnd(r)
               [] OTHER -> AtomStart(r, c, cs))
       [] r.b.s = "COMMENT" -> IF c = NL THEN to("INTERMEDIATE") ELSE r
       [] r.b.s = "STRING" -> AgAppend(r, cs)
       [] r.b.s = "ESTRING" ->
            (CASE c = (IF r.b.at = "DQ" THEN DQuote ELSE SQuote) -> to("ATOM_END")
               [] r.b.at = "DQ" /\ c = Backslash -> to("ESC")
               [] OTHER -> AgAppend(r, cs))
       [] r.b.s = "ESC" -> EscapeStart(r, c, cs)
       [] r.b.s \in Escapes -> [r EXCEPT !.b.sg = Append(@, HexDigit(c))]
       [] r.b.s = "ERROR" -> [r EXCEPT !.stop = TRUE]

\* sxb_ev for a character: it is taken in unless the call has stopped at what ended.
Onward(r, c, cs) == IF r.stop THEN r ELSE TakenIn(r, c, cs)
Char(r, c, cs) == Onward(Ended(r, c), c, cs)

\* sxb_getc and ur_read for a byte. A malformed sequence is an error of the parser,
\* but none of the call; NUL ends the call.
Byte(r, x) ==
  LET u == UrRead(r.b.u, x)
      taken == [r EXCEPT !.b.u = u, !.seen = Append(@, x)]
  IN CASE r.stop -> r
       [] ~r.stop /\ u.s = Malformed -> [taken EXCEPT !.b.s = "ERROR", !.stop = TRUE]
       [] ~r.stop /\ u.s > Malformed -> taken
       [] ~r.stop /\ u.s = Complete /\ u.c = 0 -> [r EXCEPT !.b.u = u, !.stop = TRUE]
       [] ~r.stop /\ u.s = Complete /\ u.c # 0 -> Char(taken, u.c, u.r)

\* sxb_init.
NewParser ==
  [s |-> "START", depth |-> 0, at |-> "NONE", ag |-> <<>>, room |-> 0, sg |-> <<>>,
   u |-> [s |-> Complete, c |-> 0, r |-> <<>>], cue |-> Null, root |-> Null, stack |-> EmptyStack]

\* sxb_read_len of some bytes, from r. After a malformed sequence ur_read fails at once.
Parsed(r, bytes) ==
  LET q[i \in 0 .. Len(bytes)] == IF i = 0 THEN r ELSE Byte(q[i - 1], bytes[i])
  IN IF r.b.u.s = Malformed THEN [r EXCEPT !.b.s = "ERROR"] ELSE q[Len(bytes)]

Calling(p, h, ss, sn, ht, fail) ==
  [b |-> p, heap |-> h, strs |-> ss, seen |-> sn, hit |-> ht, fail |-> fail, err |-> FALSE, stop |-> FALSE]

-----------------------------------------------------------------------------
(* The client.                                                             *)

Init ==
  /\ b = NewParser
  /\ heap = <<>> /\ strs = {}
  /\ text \in SxTexts
  /\ pos = 0 /\ seen = <<>> /\ got = <<>>
  /\ hit = FALSE /\ lost = FALSE

\* Mutant of SeparateRoot: the next item is joined to one the client has taken.
SeparateRootKeepsCue(p) == [p EXCEPT !.root = Null]

\* sxb_sparate_root, when no list is open.
SeparateRoot(p) == [p EXCEPT !.root = Null, !.cue = Null]

\* What is complete is given to the client, unless the call reports an error.
Returns(r, fail) ==
  LET gives == ~r.err /\ r.b.depth = 0
  IN /\ fail > 0 => r.hit /\ ~hit
     /\ b' = IF gives THEN SeparateRoot(r.b) ELSE r.b
     /\ got' = IF gives THEN got \o TreesOf(r) ELSE got
     /\ heap' = r.heap /\ strs' = r.strs /\ seen' = r.seen /\ hit' = r.hit

\* sxb_read of the next k bytes.
Read(k, fail) ==
  /\ ~lost
  /\ pos + k <= Len(text)
  /\ Returns(Parsed(Calling(b, heap, strs, seen, hit, fail), SubSeq(text, pos + 1, pos + k)), fail)
  /\ pos' = pos + k
  /\ UNCHANGED <<text, lost>>

\* sx_propagate, from what sxb_propagate and the stack mark: of a list its first
\* item, and never the next one; of an atom nothing, as no kind equals SX_ATOM.
Marked == [x \in DOMAIN heap |-> {heap[x].lst} \ {Null}]
Survivors(behind) == ReachableFrom(StackRefs(b.stack, behind), Marked)
Leaves(behind, ss) == heap' = [x \in Survivors(behind) |-> heap[x]] /\ strs' = ss

\* The states in which the collector does not take anything from the parser.
Idle == b.depth = 0 /\ b.s \in {"START", "INTERMEDIATE"}

\* gc_collect, in full. sxb_t starts with a gc_hdr_t but is marked as a gc_obj_t:
\* the link of the grey list overlays s and v, and is NULL as the first one.
\* After a push that failed gc_stack_propagate takes what lies behind the vector for a
\* pointer and marks what is there: nothing, an sx_t or a string (or the program stops).
Collect ==
  /\ ~lost
  /\ \/ Leaves(Null, {})
     \/ b.stack.past /\ \E x \in DOMAIN heap : Leaves(x, {})
     \/ b.stack.past /\ \E str \in strs : Leaves(Null, {str})
  /\ b' = [b EXCEPT !.s = "START"]
  /\ lost' = ~Idle
  /\ UNCHANGED <<text, pos, seen, got, hit>>

Next ==
  \/ \E k \in 1 .. Len(text), fail \in 0 .. MaxFail : Read(k, fail)
  \/ Collect

Spec == Init /\ [][Next]_vars

-----------------------------------------------------------------------------
(* Properties.                                                             *)

\* The parser is in one of its states, and what it puts into its buffers they hold:
\* six bytes of a character, four digits of an escape, an atom in what ag_append got.
\* The stack's dp is in its vector, or right behind it after a push that failed.
TypeOK ==
  /\ b.s \in {"START", "INTERMEDIATE", "COMMENT", "STRING", "ESTRING", "ESC", "OCT", "HEX", "UNI",
              "ATOM_END", "ERROR"}
  /\ b.depth \in Nat
  /\ {b.root, b.cue} \cup StackElements(b.stack) \subseteq Nat
  /\ Len(b.u.r) <= 6 /\ Len(b.sg) <= 4 /\ Len(b.ag) <= b.room
  /\ StackSize(b.stack) <= b.stack.room + (IF b.stack.past THEN 1 ELSE 0)

\* The last of x and what is linked behind it.
LastItem(h, x) ==
  LET last[y \in {Null} \cup DOMAIN h] ==
        IF y = Null THEN Null ELSE IF h[y].next = Null THEN y ELSE last[h[y].next]
  IN last[x]

\* The stack holds the open lists, each the last item of the one below it, the first
\* the last one at the top, and depth counts them; cue is where the next item goes.
\* gc_stack_size counts them too, except that it says one more after a push that failed;
\* the parser is in error then and does not look at the top or at cue again.
OpenListsNest ==
  ~lost =>
    LET open == b.stack.d
        items(i) == IF i = 0 THEN b.root ELSE heap[open[i]].lst
    IN /\ StackSize(b.stack) = b.depth + (IF b.stack.past THEN 1 ELSE 0)
       /\ b.stack.past => b.s = "ERROR"
       /\ \A i \in 1 .. Len(open) : heap[open[i]].kind = "LIST" /\ LastItem(heap, items(i - 1)) = open[i]
       /\ b.s # "ERROR" => b.cue = LastItem(heap, items(Len(open)))

\* The parser never refers to what is freed, though it marks its stack only and ajoin has
\* no barrier, if gc_collect comes while it is idle; at any other time the open lists
\* and what comes first in them are left.
NothingDangles ==
  /\ StackElements(b.stack) \cup {heap[x].lst : x \in DOMAIN heap} \subseteq DOMAIN heap \cup {Null}
  /\ ~lost =>
       /\ {b.root, b.cue} \cup {heap[x].next : x \in DOMAIN heap} \subseteq DOMAIN heap \cup {Null}
       /\ \A x \in DOMAIN heap : heap[x].kind \in {"PLAIN", "SQ", "DQ"} => heap[x].str \in strs

=============================================================================

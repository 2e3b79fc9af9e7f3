------------------------------ MODULE GcStack -------------------------------
(***************************************************************************)
(* src/src/gc/gc-stack.c: a vector of references that grows by StackMin.   *)
(* past says that dp stands behind the vector, where a push that failed    *)
(* leaves it: what is read there is no element of the vector.              *)
(***************************************************************************)
EXTENDS SequencesExt

CONSTANT StackMin  \* elements it starts with: 16 in the code

ASSUME StackMinAssumption == StackMin \in Nat \ {0}

Null == 0
Beyond == -1  \* what is read behind the vector, no address of anything

EmptyStack == [d |-> <<>>, room |-> StackMin, past |-> FALSE]

\* gc_stack_pushf needs realloc when the vector is full; when that fails it
\* returns after dp has moved. Nothing in src/ pushes once more after that.
StackFull(k) == Len(k.d) = k.room
StackPush(k, h) == [k EXCEPT !.d = Append(@, h), !.room = IF StackFull(k) THEN @ + StackMin ELSE @]
StackPushFails(k) == [k EXCEPT !.past = TRUE]

StackTop(k) ==
  CASE k.past -> Beyond
    [] ~k.past /\ k.d = <<>> -> Null
    [] OTHER -> Last(k.d)

\* Mutant of StackPop: dp stays on the element that was taken.
StackPopStays(k) == k

\* Behind the vector, dp comes back to its last element.
StackPop(k) ==
  CASE k.past -> [k EXCEPT !.past = FALSE]
    [] ~k.past /\ k.d = <<>> -> k
    [] OTHER -> [k EXCEPT !.d = Front(@)]

StackSize(k) == Len(k.d) + (IF k.past THEN 1 ELSE 0)

\* gc_stack_propagate marks what is there up to dp: the elements, and what lies
\* behind them if dp stands there.
StackElements(k) == {k.d[i] : i \in 1 .. Len(k.d)} \ {Null}
StackRefs(k, behind) == StackElements(k) \cup (IF k.past THEN {behind} \ {Null} ELSE {})

\* gc_stack_strcat, of a stack of strings (sx_dump does not get here when a push failed).
StackStrcat(k) == FlattenSeq(k.d)

=============================================================================

--------------------------------- MODULE Gc ---------------------------------
(***************************************************************************)
(* The incremental tri-colour collector of src/src/gc/gc.c, with the       *)
(* client (the mutator) that allocates, stores references behind the       *)
(* write barriers and registers roots between two calls of gc_collect.     *)
(*                                                                         *)
(* Data is abstracted as follows.                                          *)
(*  - A string is its content: gc_new_str finds the node or makes it.      *)
(*  - The chains of objects and headers are sets; of the sweep cursor only *)
(*    what lies ahead of it is kept (ahead).  How many nodes a sweep step  *)
(*    takes is left open, at least one while any is ahead.                 *)
(*  - The order of the grey lists and of the roots vector is left open.    *)
(*  - What a client's gc_propagate and gc_clear return counts against the  *)
(*    budget of an incremental gc_collect.  It is the constant Visits for  *)
(*    gc_propagate, and 0 for gc_clear, as in every vtable of the sources. *)
(***************************************************************************)
EXTENDS Reachability, FiniteSetsExt, Naturals

CONSTANTS
  Objs,      \* objects: nodes with GC_VT_FLAG_OBJ
  Leaf,      \* the objects whose vtable has no gc_propagate
  Hdrs,      \* plain headers: GC_VT_FLAG_HDR only
  Strs,      \* interned strings, one node for each content
  StrLimit,  \* up to so many strings are swept whole (100 in step())
  Budgets,   \* the budget of an incremental gc_collect, 20: small heaps want less
  Visits(_), \* what gc_propagate returns for an object with so many references
  MaxRefs,   \* bound: references an object holds
  MaxRoots   \* bound: entries of the roots vector

ASSUME NodesAssumption ==
  /\ Leaf \subseteq Objs
  /\ Objs \cap Hdrs = {}
  /\ Objs \cap Strs = {}
  /\ Hdrs \cap Strs = {}

ASSUME BoundsAssumption == {StrLimit, MaxRefs, MaxRoots} \subseteq Nat

\* The step that leaves GC_STATE_PAUSE costs 1 and never ends a call.
ASSUME BudgetAssumption ==
  /\ Budgets \subseteq Nat \ {0, 1}
  /\ \A n \in 0 .. MaxRefs : Visits(n) \in Nat

\* What gc_propagate returns in the sources: smrec_propagate of a record in the
\* store, and testobj_propagate in the collector's tests.
SmrecVisits(n) == 0
TestobjVisits(n) == 1 + n

VARIABLES
  state,  \* g->state, without its GC_STATE_ prefix
  white,  \* g->white: the white that new nodes get
  heap,   \* the nodes that are allocated
  color,  \* the colour bits of a node's flag
  refs,   \* refs[n]: what n's gc_propagate marks
  roots,  \* roots[o]: how many entries of g->roots hold o
  grey0,  \* g->grey0: to be propagated
  grey1,  \* g->grey1: sent back by gc_barrier_back_o, propagated in atomic()
  ahead,  \* objects and headers from the sweep cursors to the chains' ends
  fresh,  \* nodes the client got from an allocator since its last gc_collect
  call,   \* the gc_collect call in progress
  limit   \* what an incremental call may still spend

gcvars == <<state, white, color, grey0, grey1, ahead>>
vars == <<state, white, heap, color, refs, roots, grey0, grey1, ahead, fresh, call,
          limit>>

Node   == Objs \cup Hdrs \cup Strs
States == {"PAUSE", "PROPAGATE", "ATOMIC", "SWEEP_STRING", "SWEEP", "SWEEP_HEADER"}
Whites == {"white0", "white1"}
Calls  == {"none", "incr", "drain", "cycle", "aborted"}

otherWhite == IF white = "white0" THEN "white1" ELSE "white0"

Marking  == state \in {"PROPAGATE", "ATOMIC"}
Sweeping == state \in {"SWEEP_STRING", "SWEEP", "SWEEP_HEADER"}

IsWhite(n) == color[n] \in Whites
IsDead(n)  == color[n] = otherWhite

\* The nodes that gc_mark puts on a grey list; all others go straight to black.
Propagates == Objs \ Leaf
Rooted     == {o \in Objs : roots[o] > 0}
Chain(n)   == heap \cap (IF n \in Objs THEN Objs ELSE Hdrs)

\* What the client may still use.
Accessible == ReachableFrom(Rooted \cup fresh, refs)

Init ==
  /\ state = "PAUSE"
  /\ white = "white0"
  /\ heap = {}
  /\ color = [n \in Node |-> "white0"]
  /\ refs = [n \in Node |-> {}]
  /\ roots = [o \in Objs |-> 0]
  /\ grey0 = {}
  /\ grey1 = {}
  /\ ahead = {}
  /\ fresh = {}
  /\ call = "none"
  /\ limit = 0

-----------------------------------------------------------------------------
(* The client, between two calls of gc_collect.                            *)

\* The cursor of n's chain is in use and still at the head of the chain, so
\* that a node prepended to the chain is ahead of it.
CursorAtHead(n) ==
  /\ state \in {"SWEEP_STRING", "SWEEP"} \/ (state = "SWEEP_HEADER" /\ n \in Hdrs)
  /\ Chain(n) \subseteq ahead

\* gc_new of an object or a header.
New(n) ==
  /\ n \in (Objs \cup Hdrs) \ heap
  /\ heap' = heap \cup {n}
  /\ color' = [color EXCEPT ![n] = white]
  /\ ahead' = IF CursorAtHead(n) THEN ahead \cup {n} ELSE ahead
  /\ fresh' = fresh \cup {n}
  /\ UNCHANGED <<state, white, refs, roots, grey0, grey1, call, limit>>

\* gc_new_str of a new content.  When growing the table fails the caller gets
\* an error, and the string stays in the table.
NewStr(s) ==
  /\ s \in Strs \ heap
  /\ heap' = heap \cup {s}
  /\ color' = [color EXCEPT ![s] = white]
  /\ fresh' \in {fresh, fresh \cup {s}}
  /\ UNCHANGED <<state, white, refs, roots, grey0, grey1, ahead, call, limit>>

\* Mutant of FindStr: flip_white is forgotten.
FindStrStaysDead(s) ==
  /\ s \in Strs \cap heap
  /\ fresh' = fresh \cup {s}
  /\ UNCHANGED <<state, white, heap, color, refs, roots, grey0, grey1, ahead, call, limit>>

\* gc_new_str of a content in the table: a dead string is revived.
FindStr(s) ==
  /\ s \in Strs \cap heap
  /\ color' = IF IsDead(s) THEN [color EXCEPT ![s] = white] ELSE color
  /\ fresh' = fresh \cup {s}
  /\ UNCHANGED <<state, white, heap, refs, roots, grey0, grey1, ahead, call, limit>>

\* The test that both barrier macros start with.
NeedsBarrier(o, v) == IsWhite(v) /\ color[o] = "black"

CanStore(o, v) ==
  /\ v \notin refs[o]
  /\ Cardinality(refs[o]) < MaxRefs

\* A store for which neither barrier macro does anything.
Store(o, v) ==
  /\ CanStore(o, v)
  /\ ~NeedsBarrier(o, v)
  /\ refs' = [refs EXCEPT ![o] = @ \cup {v}]
  /\ UNCHANGED <<state, white, heap, color, roots, grey0, grey1, ahead, fresh, call, limit>>

\* Mutant of StoreBarrierBack: black2gray is forgotten.
StoreBarrierBackStaysBlack(o, v) ==
  /\ CanStore(o, v)
  /\ NeedsBarrier(o, v)
  /\ refs' = [refs EXCEPT ![o] = @ \cup {v}]
  /\ grey1' = grey1 \cup {o}
  /\ UNCHANGED <<state, white, heap, color, roots, grey0, ahead, fresh, call, limit>>

\* A store followed by gc_barrier_back: o goes back to grey.
StoreBarrierBack(o, v) ==
  /\ CanStore(o, v)
  /\ NeedsBarrier(o, v)
  /\ refs' = [refs EXCEPT ![o] = @ \cup {v}]
  /\ color' = [color EXCEPT ![o] = "grey"]
  /\ grey1' = grey1 \cup {o}
  /\ UNCHANGED <<state, white, heap, roots, grey0, ahead, fresh, call, limit>>

\* The colour a white node gets from gc_mark.
MarkColor(n) == IF n \in Propagates THEN "grey" ELSE "black"

\* A store followed by gc_barrier: v is marked, or o made white in a sweep.
StoreBarrier(o, v) ==
  /\ CanStore(o, v)
  /\ NeedsBarrier(o, v)
  /\ refs' = [refs EXCEPT ![o] = @ \cup {v}]
  /\ IF Marking
       THEN /\ color' = [color EXCEPT ![v] = MarkColor(v)]
            /\ grey0' = grey0 \cup ({v} \cap Propagates)
       ELSE /\ color' = [color EXCEPT ![o] = white]
            /\ UNCHANGED grey0
  /\ UNCHANGED <<state, white, heap, roots, grey1, ahead, fresh, call, limit>>

\* A reference is overwritten or dropped: no barrier.
Erase(o, v) ==
  /\ v \in refs[o]
  /\ refs' = [refs EXCEPT ![o] = @ \ {v}]
  /\ UNCHANGED <<state, white, heap, color, roots, grey0, grey1, ahead, fresh, call, limit>>

RootEntries == LET OwnEntries(o) == {o} \X (1 .. roots[o])
               IN  Cardinality(UNION {OwnEntries(o) : o \in Objs})

AddRoot(o) ==
  /\ RootEntries < MaxRoots
  /\ roots' = [roots EXCEPT ![o] = @ + 1]
  /\ UNCHANGED <<state, white, heap, color, refs, grey0, grey1, ahead, fresh, call, limit>>

\* gc_vector_remove_all skips the entry after each one it removes: where equal
\* entries are neighbours every second of them stays.
DelRoot(o) ==
  /\ o \in Rooted
  /\ \E left \in 0 .. (roots[o] \div 2) : roots' = [roots EXCEPT ![o] = left]
  /\ UNCHANGED <<state, white, heap, color, refs, grey0, grey1, ahead, fresh, call, limit>>

\* gc_clear; gc_init makes the collector usable again.
Clear ==
  /\ state' = "PAUSE"
  /\ white' = "white0"
  /\ heap' = {}
  /\ color' = [n \in Node |-> "white0"]
  /\ refs' = [n \in Node |-> {}]
  /\ roots' = [o \in Objs |-> 0]
  /\ grey0' = {}
  /\ grey1' = {}
  /\ ahead' = {}
  /\ fresh' = {}
  /\ UNCHANGED <<call, limit>>

-----------------------------------------------------------------------------
(* gc_collect: how a call starts.                                          *)

CollectIncremental ==
  /\ call' = "incr"
  /\ limit' \in Budgets
  /\ fresh' = {}
  /\ UNCHANGED <<gcvars, heap, refs, roots>>

\* Mutant of CollectFull: a marking in progress is carried on with.
CollectFullKeepsMarks ==
  /\ state # "ATOMIC"
  /\ call' = IF Sweeping THEN "drain" ELSE "cycle"
  /\ fresh' = {}
  /\ UNCHANGED <<gcvars, heap, refs, roots, limit>>

\* A full collection gives up the marking in progress and first sweeps with
\* nothing dead, which makes every survivor white; or it finishes the sweep.
CollectFull ==
  /\ state # "ATOMIC"
  /\ call' = "drain"
  /\ fresh' = {}
  /\ IF state \in {"PAUSE", "PROPAGATE"}
       THEN /\ state' = "SWEEP_STRING"
            /\ ahead' = heap \ Strs
            /\ grey0' = {}
            /\ grey1' = {}
       ELSE UNCHANGED <<state, ahead, grey0, grey1>>
  /\ UNCHANGED <<white, color, heap, refs, roots, limit>>

\* In GC_STATE_ATOMIC neither the reset nor the sweeping loop applies, and
\* assert(g->state == GC_STATE_PAUSE) stops the program.
CollectFullAborts ==
  /\ state = "ATOMIC"
  /\ call' = "aborted"
  /\ fresh' = {}
  /\ UNCHANGED <<gcvars, heap, refs, roots, limit>>

\* How the loops of gc_collect go on after a step that returns cost.
LoopsOn(cost) ==
  CASE call = "incr" ->
         \/ /\ state' = "PAUSE" \/ cost >= limit
            /\ call' = "none"
            /\ limit' = 0
         \/ /\ state' # "PAUSE"
            /\ \E left \in 1 .. limit : cost + left = limit /\ limit' = left
            /\ UNCHANGED call
    [] call = "drain" -> call' = (IF state' = "PAUSE" THEN "cycle" ELSE "drain") /\ UNCHANGED limit
    [] call = "cycle" -> call' = (IF state' = "PAUSE" THEN "none" ELSE "cycle") /\ UNCHANGED limit

InStep(s) == state = s /\ call \in {"incr", "drain", "cycle"}

-----------------------------------------------------------------------------
(* step(): one action for each state of the collector.                     *)

\* GC_STATE_PAUSE: mark_roots.
StepPause ==
  LET marked == {r \in Rooted : IsWhite(r)} IN
  /\ InStep("PAUSE")
  /\ color' = [n \in Node |-> IF n \in marked THEN MarkColor(n) ELSE color[n]]
  /\ grey0' = marked \cap Propagates
  /\ grey1' = {}
  /\ state' = "PROPAGATE"
  /\ UNCHANGED <<white, heap, refs, roots, ahead, fresh>>
  /\ LoopsOn(1)

\* Mutant of StepPropagate: the object's gc_propagate forgets its reference.
StepPropagateSkips ==
  /\ InStep("PROPAGATE")
  /\ UNCHANGED <<state, white, heap, refs, roots, grey1, ahead, fresh>>
  /\ \E o \in grey0 :
       /\ color' = [color EXCEPT ![o] = "black"]
       /\ grey0' = grey0 \ {o}
       /\ LoopsOn(2 + Visits(Cardinality(refs[o])))

\* GC_STATE_PROPAGATE: one object off the grey list.
StepPropagate ==
  /\ InStep("PROPAGATE")
  /\ UNCHANGED <<state, white, heap, refs, roots, grey1, ahead, fresh>>
  /\ \E o \in grey0 :
       LET marked == {v \in refs[o] : IsWhite(v)} IN
       /\ color' = [n \in Node |-> IF n \in marked THEN MarkColor(n)
                                   ELSE IF n = o THEN "black"
                                   ELSE color[n]]
       /\ grey0' = (grey0 \ {o}) \cup (marked \cap Propagates)
       /\ LoopsOn(2 + Visits(Cardinality(refs[o])))

StepPropagateDone ==
  /\ InStep("PROPAGATE")
  /\ grey0 = {}
  /\ state' = "ATOMIC"
  /\ UNCHANGED <<white, heap, color, refs, roots, grey0, grey1, ahead, fresh>>
  /\ LoopsOn(1)

\* Mutant of AtomicMarked: the roots are not marked again.
AtomicMarkedNoRoots ==
  ReachableFrom(grey0 \cup grey1, [n \in Node |-> {v \in refs[n] : IsWhite(v)}])

\* What atomic() marks or propagates: the roots that are white, both grey
\* lists, and from there on whatever white node a node refers to.
AtomicMarked ==
  ReachableFrom({r \in Rooted : IsWhite(r)} \cup grey0 \cup grey1,
                [n \in Node |-> {v \in refs[n] : IsWhite(v)}])

\* What atomic() returns, and 1: every root and all that it propagates counts.
AtomicCost ==
  LET visited(o) == Visits(Cardinality(refs[o]))
  IN  5 + RootEntries + MapThenSumSet(visited, AtomicMarked \cap Propagates)

\* Mutants of StepAtomic: one cursor, or both, are not set to the chain's head.
StepAtomicNoHeaders ==
  /\ InStep("ATOMIC")
  /\ color' = [n \in Node |-> IF n \in AtomicMarked THEN "black" ELSE color[n]]
  /\ grey0' = {}
  /\ grey1' = {}
  /\ white' = otherWhite
  /\ ahead' = heap \cap Objs
  /\ state' = "SWEEP_STRING"
  /\ UNCHANGED <<heap, refs, roots, fresh>>
  /\ LoopsOn(AtomicCost)

StepAtomicOldCursors ==
  /\ InStep("ATOMIC")
  /\ color' = [n \in Node |-> IF n \in AtomicMarked THEN "black" ELSE color[n]]
  /\ grey0' = {}
  /\ grey1' = {}
  /\ white' = otherWhite
  /\ state' = "SWEEP_STRING"
  /\ UNCHANGED <<heap, refs, roots, ahead, fresh>>
  /\ LoopsOn(AtomicCost)

\* GC_STATE_ATOMIC: marking ends, the whites change roles, sweeping is set up.
StepAtomic ==
  /\ InStep("ATOMIC")
  /\ color' = [n \in Node |-> IF n \in AtomicMarked THEN "black" ELSE color[n]]
  /\ grey0' = {}
  /\ grey1' = {}
  /\ white' = otherWhite
  /\ ahead' = heap \ Strs
  /\ state' = "SWEEP_STRING"
  /\ UNCHANGED <<heap, refs, roots, fresh>>
  /\ LoopsOn(AtomicCost)

\* A sweep passes over the nodes of batch: the dead are freed, the others get
\* the current white.
Sweep(batch) ==
  LET dead == {n \in batch : IsDead(n)} IN
  /\ heap' = heap \ dead
  /\ color' = [n \in Node |-> IF n \in dead THEN "white0"
                              ELSE IF n \in batch THEN white
                              ELSE color[n]]
  /\ refs' = [n \in Node |-> IF n \in dead THEN {} ELSE refs[n]]
  /\ UNCHANGED <<white, roots, grey0, grey1, fresh>>

\* Mutant of StringBatches: a quarter of the strings also when they are few, which
\* may be none.
StringBatchesQuarter == SUBSET (heap \cap Strs)

\* The strings sweep_strings gets to before its limit is used up.
StringBatches ==
  LET strings == heap \cap Strs IN
  IF Cardinality(strings) <= StrLimit THEN {strings} ELSE SUBSET strings \ {{}}

\* GC_STATE_SWEEP_STRING: one pass over the buckets ends the state, whether or
\* not the limit let it get to every string.
StepSweepStrings ==
  /\ InStep("SWEEP_STRING")
  /\ \E batch \in StringBatches : Sweep(batch)
  /\ state' = "SWEEP"
  /\ UNCHANGED ahead
  /\ LoopsOn(2 + Cardinality(heap \ heap'))

\* Mutant of Batches: the limit may be 0, as total >> 2 is for a small total.
BatchesLazy(pending) == SUBSET pending

\* What a sweep step may take of the nodes ahead of its cursor.
Batches(pending) == IF pending = {} THEN {{}} ELSE SUBSET pending \ {{}}

\* GC_STATE_SWEEP: some of the objects ahead of the cursor.
StepSweepObjects ==
  /\ InStep("SWEEP")
  /\ \E batch \in Batches(ahead \cap Objs) :
       /\ Sweep(batch)
       /\ ahead' = ahead \ batch
       /\ state' = IF ahead \cap Objs = batch THEN "SWEEP_HEADER" ELSE "SWEEP"
  /\ LoopsOn(2 + Cardinality(heap \ heap'))

\* Mutant of StepSweepHeaders: the cursor is not stored back.
StepSweepHeadersStuck ==
  /\ InStep("SWEEP_HEADER")
  /\ \E batch \in Batches(ahead \cap Hdrs) :
       /\ Sweep(batch)
       /\ state' = IF ahead \cap Hdrs = batch THEN "PAUSE" ELSE "SWEEP_HEADER"
  /\ UNCHANGED ahead
  /\ LoopsOn(2 + Cardinality(heap \ heap'))

\* GC_STATE_SWEEP_HEADER: some of the headers ahead of the cursor.
StepSweepHeaders ==
  /\ InStep("SWEEP_HEADER")
  /\ \E batch \in Batches(ahead \cap Hdrs) :
       /\ Sweep(batch)
       /\ ahead' = ahead \ batch
       /\ state' = IF ahead \cap Hdrs = batch THEN "PAUSE" ELSE "SWEEP_HEADER"
  /\ LoopsOn(2 + Cardinality(heap \ heap'))

-----------------------------------------------------------------------------
\* The client has hold of accessible nodes only.
Client ==
  /\ call = "none"
  /\ \/ \E n \in Node : New(n) \/ NewStr(n) \/ FindStr(n)
     \/ \E o \in Propagates \cap Accessible, v \in Accessible :
          Store(o, v) \/ StoreBarrierBack(o, v) \/ StoreBarrier(o, v) \/ Erase(o, v)
     \/ \E o \in Objs \cap Accessible : AddRoot(o) \/ DelRoot(o)
     \/ CollectFull
     \/ CollectFullAborts
     \/ Clear

Collect == call = "none" /\ CollectIncremental

Step ==
  \/ StepPause
  \/ StepPropagate
  \/ StepPropagateDone
  \/ StepAtomic
  \/ StepSweepStrings
  \/ StepSweepObjects
  \/ StepSweepHeaders

Next == Client \/ Collect \/ Step

Spec == Init /\ [][Next]_vars

\* A gc_collect call runs to its end, and the client keeps making such calls.
FairSpec == Spec /\ WF_vars(Step) /\ WF_vars(Collect)

-----------------------------------------------------------------------------
(* Properties.                                                             *)

\* Types, and which nodes may be where: the collector's lists hold allocated
\* nodes of the right kind.
TypeOK ==
  /\ state \in States
  /\ white \in Whites
  /\ heap \subseteq Node
  /\ color \in [Node -> Whites \cup {"grey", "black"}]
  /\ refs \in [Node -> SUBSET Node]
  /\ roots \in [Objs -> Nat]
  /\ grey0 \subseteq Propagates
  /\ grey1 \subseteq Propagates
  /\ ahead \subseteq heap \ Strs
  /\ fresh \subseteq Node
  /\ call \in Calls
  /\ limit \in Nat

\* Nothing the client can still use has been freed (the free() calls of
\* sweep_objects, sweep_headers and sweep_strings).
NoDangling == Accessible \subseteq heap

\* Nothing the client can still use is dead: the asserts of gc_mark_obj_i,
\* gc_mark_hdr_i and of the barriers hold, and no sweep to come frees it.
AccessibleNotDead == \A n \in Accessible : ~IsDead(n)

\* While marking, a black object refers to no white node (the barriers of
\* gc.h and gc.c, propagate).
TriColour ==
  Marking => \A o \in heap : color[o] = "black" => \A v \in refs[o] : ~IsWhite(v)

\* While marking, the grey objects are those on the grey lists, and no object
\* is on both: the lists share the one link field gc_obj_t.list.
GreyListsExact ==
  Marking => /\ grey0 \cap grey1 = {}
             /\ {n \in heap : color[n] = "grey"} = grey0 \cup grey1

\* Between two cycles every object and header has the current white, so the
\* assert(g->state != GC_STATE_PAUSE) of the barriers cannot fail.
WhiteInPause ==
  state = "PAUSE" => \A n \in heap \ Strs : color[n] = white

\* In a sweep whatever the cursor has passed has the current white and stays
\* for the next cycle, also what is allocated or darkened during the sweep.
SweptIsWhite ==
  Sweeping => \A n \in heap \ (Strs \cup ahead) : color[n] = white

\* The second loop of a full gc_collect ends.
FullCollectEnds == call = "cycle" /\ call' = "none"

\* A full collection leaves exactly the objects and headers that the client
\* can still use: none too few, and no garbage of the cycle it cut short.
FullCollectExact ==
  [][FullCollectEnds => heap' \ Strs = Accessible' \ Strs]_vars

\* So it does for strings, if there never are more than one string sweep gets to.
FullCollectExactStrings ==
  [][FullCollectEnds /\ Cardinality(Strs) <= StrLimit => heap' = Accessible']_vars

\* Whatever becomes garbage below, a sweep gets to.  Not so the strings when they
\* are many: every cycle looks at the same first quarter of the table, and counts
\* the strings that it keeps, so that garbage behind them may stay for good.
Swept == Objs \cup Hdrs \cup (IF Cardinality(Strs) <= StrLimit THEN Strs ELSE {})

\* Garbage that a sweep gets to is given back in the end, whatever the client does
\* meanwhile; a string may instead be asked for again.
GarbageFreed ==
  \A n \in Swept :
    (n \in heap \ Accessible) ~> (n \notin heap \/ n \in Accessible \/ call = "aborted")

\* The collector gives back only what the client cannot reach.
Heap == INSTANCE GcHeap WITH roots <- Rooted
ImplementsHeap == Heap!Spec

\* assert(g->state == GC_STATE_PAUSE) in gc_collect (gc.c:426).
FullCollectAssert == call # "aborted"

=============================================================================

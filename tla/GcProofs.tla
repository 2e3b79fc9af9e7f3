------------------------------ MODULE GcProofs ------------------------------
(***************************************************************************)
(* Proofs about the collector of module Gc, for every number of objects,   *)
(* headers and strings and every value of the bounds: its types, that it   *)
(* never frees or is about to free what the client can still use, that a   *)
(* cycle leaves nothing of the garbage it found, that a full collection is *)
(* exact, and that it implements the abstract heap of GcHeap.              *)
(*                                                                         *)
(* After these, proofs about the records of module StoreRecords, for every *)
(* number of records, when the client runs full collections only: no       *)
(* update is lost, a pointer is to the record that is named, and no record *)
(* in use is freed though smrec_set has no barrier.                        *)
(***************************************************************************)
EXTENDS MCGc, StoreRecords, BasicProofs, FiniteSetTheorems

-----------------------------------------------------------------------------
(* The inductive invariant.                                                *)

\* The nodes that the sweep to come, or in progress, keeps.
Live == {n \in heap : ~IsDead(n)}

\* What the client holds is live, and the live nodes refer to live nodes.
LiveClosed == Rooted \cup fresh \subseteq Live /\ Closed(Live, refs)

\* Only allocated objects with a gc_propagate have references.
RefsSound == \A n \in Node : refs[n] # {} => n \in heap \cap Propagates

\* Marking starts with nothing dead but strings a sweep did not get to.
NoneDead == Marking => \A n \in heap \ Strs : ~IsDead(n)

GreyAllocated == Marking => grey0 \cup grey1 \subseteq heap

\* A string goes from white to black.
StrsNotGrey == \A s \in Strs : color[s] # "grey"

\* The headers are swept when no object is left to sweep.
ObjectsSweptFirst == state = "SWEEP_HEADER" => ahead \cap Objs = {}

\* While the collector runs the client holds nothing of its own.
CallForgets == call # "none" => fresh = {}

HeapInv == LiveClosed /\ RefsSound /\ CallForgets

MarkInv ==
  /\ NoneDead
  /\ GreyAllocated
  /\ StrsNotGrey
  /\ TriColour
  /\ GreyListsExact

SweepInv ==
  /\ ObjectsSweptFirst
  /\ WhiteInPause
  /\ SweptIsWhite

IInv ==
  /\ TypeOK
  /\ HeapInv
  /\ MarkInv
  /\ SweepInv

-----------------------------------------------------------------------------
(* Types.                                                                  *)

(***************************************************************************)
(* Every step of the client and of the collector keeps the types.          *)
(***************************************************************************)
LEMMA TypeStep == TypeOK /\ [Next]_vars => TypeOK'
<1> SUFFICES ASSUME TypeOK, [Next]_vars
             PROVE  TypeOK'
  OBVIOUS
<1> USE NodesAssumption DEF TypeOK, Node, Propagates, Whites, States, Calls
<1>1. ASSUME NEW n \in Node, New(n)
      PROVE  TypeOK'
  BY <1>1 DEF New
<1>2. ASSUME NEW n \in Node, NewStr(n)
      PROVE  TypeOK'
  BY <1>2 DEF NewStr
<1>3. ASSUME NEW n \in Node, FindStr(n)
      PROVE  TypeOK'
  BY <1>3 DEF FindStr
<1>4. ASSUME NEW o \in Propagates, NEW v \in Node, Store(o, v)
      PROVE  TypeOK'
  BY <1>4 DEF Store
<1>5. ASSUME NEW o \in Propagates, NEW v \in Node, StoreBarrierBack(o, v)
      PROVE  TypeOK'
  BY <1>5 DEF StoreBarrierBack
<1>6. ASSUME NEW o \in Propagates, NEW v \in Node, StoreBarrier(o, v)
      PROVE  TypeOK'
  BY <1>6 DEF StoreBarrier, MarkColor
<1>7. ASSUME NEW o \in Propagates, NEW v \in Node, Erase(o, v)
      PROVE  TypeOK'
  BY <1>7 DEF Erase
<1>8. ASSUME NEW o \in Objs, AddRoot(o) \/ DelRoot(o)
      PROVE  TypeOK'
  BY <1>8 DEF AddRoot, DelRoot
<1>9. CASE CollectFull
  BY <1>9 DEF CollectFull, gcvars
<1>10. CASE CollectFullAborts
  BY <1>10 DEF CollectFullAborts, gcvars
<1>11. CASE Clear
  BY <1>11 DEF Clear
<1>12. CASE CollectIncremental
  BY <1>12, BudgetAssumption DEF CollectIncremental, gcvars
<1>13. ASSUME NEW cost, LoopsOn(cost), NEW s, InStep(s)
       PROVE  call' \in Calls /\ limit' \in Nat
  <2>1. CASE call = "incr"
    BY <1>13, <2>1 DEF LoopsOn
  <2>2. CASE call = "drain"
    BY <1>13, <2>2 DEF LoopsOn
  <2>3. CASE call = "cycle"
    BY <1>13, <2>3 DEF LoopsOn
  <2> QED
    BY <1>13, <2>1, <2>2, <2>3 DEF InStep
<1>14. CASE StepPause
  BY <1>13, <1>14 DEF StepPause, MarkColor
<1>15. CASE StepPropagate
  BY <1>13, <1>15 DEF StepPropagate, MarkColor
<1>16. CASE StepPropagateDone
  BY <1>13, <1>16 DEF StepPropagateDone
<1>17. CASE StepAtomic
  BY <1>13, <1>17 DEF StepAtomic, otherWhite
<1>18. CASE StepSweepStrings
  BY <1>13, <1>18 DEF StepSweepStrings, StringBatches, Sweep
<1>19. CASE StepSweepObjects
  BY <1>13, <1>19 DEF StepSweepObjects, Batches, Sweep
<1>20. CASE StepSweepHeaders
  BY <1>13, <1>20 DEF StepSweepHeaders, Batches, Sweep
<1>21. CASE UNCHANGED vars
  BY <1>21 DEF vars
<1>22. Accessible \subseteq Node
  BY ReachableNodes DEF Accessible
<1> QED
  BY <1>1, <1>2, <1>3, <1>4, <1>5, <1>6, <1>7, <1>8, <1>9, <1>10, <1>11, <1>12,
     <1>14, <1>15, <1>16, <1>17, <1>18, <1>19, <1>20, <1>21, <1>22
     DEF Next, Client, Collect, Step

(***************************************************************************)
(* The variables keep their types, and the collector's lists hold nodes of *)
(* the right kind only.                                                    *)
(***************************************************************************)
THEOREM TypeCorrect == Spec => []TypeOK
<1>1. Init => TypeOK
  BY DEF Init, TypeOK, Node, Propagates, Whites, States, Calls
<1> QED
  BY <1>1, TypeStep, PTL DEF Spec

-----------------------------------------------------------------------------
(* The inductive invariant is kept.                                        *)

(***************************************************************************)
(* The client can get at live nodes only: it starts from live nodes, and   *)
(* from live nodes it gets to live nodes.                                  *)
(***************************************************************************)
LEMMA AccessibleLive == TypeOK /\ LiveClosed => Accessible \subseteq Live
<1> SUFFICES ASSUME TypeOK, LiveClosed
             PROVE  Accessible \subseteq Live
  OBVIOUS
<1>1. Live \in SUBSET DOMAIN refs
  BY DEF TypeOK, Live
<1> QED
  BY <1>1, ReachableLeast DEF Accessible, LiveClosed

(***************************************************************************)
(* What atomic() blackens is live, and it is all that the white roots, the *)
(* grey objects and, through white nodes, these refer to.                  *)
(***************************************************************************)
LEMMA AtomicMarkedClosed ==
  ASSUME IInv, state = "ATOMIC"
  PROVE  /\ AtomicMarked \subseteq Live
         /\ \A r \in Rooted : IsWhite(r) => r \in AtomicMarked
         /\ grey0 \cup grey1 \subseteq AtomicMarked
         /\ \A n \in AtomicMarked : \A v \in refs[n] : IsWhite(v) => v \in AtomicMarked
<1> DEFINE seeds == {r \in Rooted : IsWhite(r)} \cup grey0 \cup grey1
           succ  == [n \in Node |-> {v \in refs[n] : IsWhite(v)}]
<1> USE DEF IInv, TypeOK
<1>1. DOMAIN succ = Node
  OBVIOUS
<1>2. \A n \in Node : succ[n] \subseteq refs[n] /\ succ[n] \subseteq Node
  OBVIOUS
<1>3. seeds \subseteq Live
  BY DEF HeapInv, LiveClosed, MarkInv, GreyAllocated, GreyListsExact, Marking,
         Live, IsDead, otherWhite
<1>4. Live \subseteq Node
  BY DEF Live
<1>5. Closed(Live, succ)
  BY <1>2, <1>4 DEF Closed, HeapInv, LiveClosed
<1>6. AtomicMarked = ReachableFrom(seeds, succ)
  BY DEF AtomicMarked
<1> HIDE DEF seeds, succ
<1>7. AtomicMarked \subseteq Live
  BY <1>1, <1>3, <1>4, <1>5, <1>6, ReachableLeast
<1>8. seeds \subseteq AtomicMarked
  BY <1>1, <1>3, <1>4, <1>6, SeedsReachable
<1>9. Closed(AtomicMarked, succ)
  BY <1>1, <1>2, <1>6, ReachableClosed
<1>10. \A n \in AtomicMarked : \A v \in refs[n] : IsWhite(v) => v \in AtomicMarked
  BY <1>4, <1>7, <1>9 DEF Closed, succ
<1> QED
  BY <1>7, <1>8, <1>10 DEF seeds

(***************************************************************************)
(* atomic() makes the white of the unmarked nodes the dead one: no node    *)
(* that is kept refers to one of them, because black nodes refer to no     *)
(* white node and every grey one was propagated.                           *)
(***************************************************************************)
LEMMA AtomicKeepsLiveClosed ==
  ASSUME IInv, StepAtomic
  PROVE  LiveClosed'
<1> USE NodesAssumption DEF IInv, TypeOK, HeapInv, Propagates, Whites
<1>1. state = "ATOMIC" /\ Marking /\ call # "none"
  BY DEF StepAtomic, InStep, Marking
<1>2. \A n \in Node : IsDead(n)' <=> n \notin AtomicMarked /\ color[n] = white
  BY DEF StepAtomic, IsDead, otherWhite
<1>3. Live' = {n \in heap : n \in AtomicMarked \/ color[n] # white}
  BY <1>2 DEF StepAtomic, Live
<1>4. Rooted' \cup fresh' \subseteq Live'
  <2>1. fresh' = {} /\ Rooted' = Rooted
    BY <1>1 DEF StepAtomic, CallForgets, Rooted
  <2>2. Rooted \subseteq heap
    BY DEF LiveClosed, Live
  <2> QED
    BY <1>1, <1>3, <2>1, <2>2, AtomicMarkedClosed DEF IsWhite
<1>5. ASSUME NEW n \in Live', NEW v \in refs[n]
      PROVE  v \in Live'
  <2>1. n \in Node /\ n \in heap
    BY <1>3
  <2>2. CASE n \in AtomicMarked
    <3>1. v \in Live
      BY <1>1, <2>2, AtomicMarkedClosed DEF LiveClosed, Closed
    <3>2. IsWhite(v) => v \in AtomicMarked
      BY <1>1, <2>2, AtomicMarkedClosed
    <3> QED
      BY <1>3, <3>1, <3>2 DEF Live, IsWhite
  <2>3. CASE n \notin AtomicMarked
    <3>1. color[n] # white /\ color[n] # "grey"
      BY <1>1, <1>3, <2>1, <2>3, AtomicMarkedClosed DEF MarkInv, GreyListsExact
    <3>2. n \in Objs /\ color[n] # otherWhite
      BY <1>1, <2>1 DEF RefsSound, MarkInv, NoneDead, IsDead
    <3>3. color[n] = "black" /\ n \in Live
      BY <2>1, <3>1, <3>2 DEF otherWhite, Live, IsDead
    <3>4. v \in Live /\ ~IsWhite(v)
      BY <1>1, <2>1, <3>3 DEF LiveClosed, Closed, MarkInv, TriColour
    <3> QED
      BY <1>3, <3>4 DEF Live, IsWhite
  <2> QED
    BY <2>2, <2>3
<1> QED
  BY <1>4, <1>5 DEF LiveClosed, Closed, StepAtomic

(***************************************************************************)
(* A sweep, over whatever nodes, keeps the live nodes and frees others.    *)
(***************************************************************************)
LEMMA SweepKeepsHeapInv ==
  ASSUME IInv, NEW batch \in SUBSET heap, Sweep(batch), fresh = {}
  PROVE  LiveClosed' /\ RefsSound' /\ CallForgets'
<1> USE DEF IInv, TypeOK, HeapInv
<1>1. batch \subseteq Node
  OBVIOUS
<1>2. Live' = Live
  BY <1>1 DEF Sweep, Live, IsDead, otherWhite, Whites
<1>3. \A n \in Live : refs'[n] = refs[n]
  BY DEF Sweep, Live
<1>4. Rooted' = Rooted /\ fresh' = {}
  BY DEF Sweep, Rooted
<1>5. RefsSound'
  BY <1>1 DEF Sweep, RefsSound
<1> QED
  BY <1>2, <1>3, <1>4, <1>5 DEF LiveClosed, Closed, CallForgets

(***************************************************************************)
(* Every step keeps the inductive invariant.                               *)
(***************************************************************************)
LEMMA InvStep == IInv /\ [Next]_vars => IInv'
<1> SUFFICES ASSUME IInv, [Next]_vars
             PROVE  IInv'
  OBVIOUS
<1>0. TypeOK'
  BY TypeStep DEF IInv
<1> USE NodesAssumption, <1>0
    DEF IInv, TypeOK, Node, Propagates, Whites, Rooted, Live, IsDead, IsWhite,
        Marking, Sweeping, otherWhite
<1>1. ASSUME NEW n \in Node, call = "none", New(n)
     PROVE  IInv'
  <2>1. HeapInv'
    BY <1>1 DEF New, CursorAtHead, Chain, Closed, HeapInv, LiveClosed,
       RefsSound, CallForgets
  <2>2. MarkInv'
    BY <1>1 DEF New, CursorAtHead, Chain, Closed, HeapInv, LiveClosed,
       RefsSound, MarkInv, NoneDead, GreyAllocated, StrsNotGrey,
       TriColour, GreyListsExact, SweepInv, WhiteInPause
  <2>3. SweepInv'
    BY <1>1 DEF New, CursorAtHead, Chain, SweepInv, ObjectsSweptFirst,
       WhiteInPause, SweptIsWhite
  <2> QED
    BY <2>1, <2>2, <2>3
<1>2. ASSUME NEW n \in Node, call = "none", NewStr(n)
     PROVE  IInv'
  <2>1. HeapInv'
    BY <1>2 DEF NewStr, Closed, HeapInv, LiveClosed, RefsSound,
       CallForgets
  <2>2. MarkInv'
    BY <1>2 DEF NewStr, Closed, HeapInv, LiveClosed, RefsSound, MarkInv,
       NoneDead, GreyAllocated, StrsNotGrey, TriColour, GreyListsExact,
       SweepInv, WhiteInPause
  <2>3. SweepInv'
    BY <1>2 DEF NewStr, SweepInv, ObjectsSweptFirst, WhiteInPause,
       SweptIsWhite
  <2> QED
    BY <2>1, <2>2, <2>3
<1>3. ASSUME NEW n \in Node, call = "none", FindStr(n)
     PROVE  IInv'
  <2>1. HeapInv'
    BY <1>3 DEF FindStr, Closed, HeapInv, LiveClosed, RefsSound,
       CallForgets
  <2>2. MarkInv'
    BY <1>3 DEF FindStr, Closed, HeapInv, LiveClosed, RefsSound, MarkInv,
       NoneDead, GreyAllocated, StrsNotGrey, TriColour, GreyListsExact,
       SweepInv, WhiteInPause
  <2>3. SweepInv'
    BY <1>3 DEF FindStr, SweepInv, ObjectsSweptFirst, WhiteInPause,
       SweptIsWhite
  <2> QED
    BY <2>1, <2>2, <2>3
<1>4. ASSUME NEW o \in Propagates \cap Live, NEW v \in Live, Store(o, v)
     PROVE  IInv'
  <2>1. HeapInv'
    BY <1>4 DEF Store, NeedsBarrier, Closed, HeapInv, LiveClosed,
       RefsSound, CallForgets
  <2>2. MarkInv'
    BY <1>4 DEF Store, NeedsBarrier, Closed, HeapInv, LiveClosed,
       RefsSound, MarkInv, NoneDead, GreyAllocated, StrsNotGrey,
       TriColour, GreyListsExact, SweepInv, WhiteInPause
  <2>3. SweepInv'
    BY <1>4 DEF Store, NeedsBarrier, SweepInv, ObjectsSweptFirst,
       WhiteInPause, SweptIsWhite
  <2> QED
    BY <2>1, <2>2, <2>3
<1>5. ASSUME NEW o \in Propagates \cap Live, NEW v \in Live, StoreBarrierBack(o, v)
     PROVE  IInv'
  <2>1. HeapInv'
    BY <1>5 DEF StoreBarrierBack, NeedsBarrier, Closed, HeapInv,
       LiveClosed, RefsSound, CallForgets
  <2>2. MarkInv'
    BY <1>5 DEF StoreBarrierBack, NeedsBarrier, Closed, HeapInv,
       LiveClosed, RefsSound, MarkInv, NoneDead, GreyAllocated,
       StrsNotGrey, TriColour, GreyListsExact, SweepInv, WhiteInPause
  <2>3. SweepInv'
    BY <1>5 DEF StoreBarrierBack, NeedsBarrier, SweepInv,
       ObjectsSweptFirst, WhiteInPause, SweptIsWhite
  <2> QED
    BY <2>1, <2>2, <2>3
<1>6. ASSUME NEW o \in Propagates \cap Live, NEW v \in Live, StoreBarrier(o, v)
     PROVE  IInv'
  <2>1. HeapInv'
    BY <1>6 DEF StoreBarrier, NeedsBarrier, MarkColor, Closed, HeapInv,
       LiveClosed, RefsSound, CallForgets
  <2>2. MarkInv'
    BY <1>6 DEF StoreBarrier, NeedsBarrier, MarkColor, Closed, HeapInv,
       LiveClosed, RefsSound, MarkInv, NoneDead, GreyAllocated,
       StrsNotGrey, TriColour, GreyListsExact, SweepInv, WhiteInPause
  <2>3. SweepInv'
    BY <1>6 DEF StoreBarrier, NeedsBarrier, MarkColor, SweepInv,
       ObjectsSweptFirst, WhiteInPause, SweptIsWhite
  <2> QED
    BY <2>1, <2>2, <2>3
<1>7. ASSUME NEW o \in Propagates, NEW v \in Node, Erase(o, v)
     PROVE  IInv'
  <2>1. HeapInv'
    BY <1>7 DEF Erase, Closed, HeapInv, LiveClosed, RefsSound, CallForgets
  <2>2. MarkInv'
    BY <1>7 DEF Erase, Closed, HeapInv, LiveClosed, RefsSound, MarkInv,
       NoneDead, GreyAllocated, StrsNotGrey, TriColour, GreyListsExact,
       SweepInv, WhiteInPause
  <2>3. SweepInv'
    BY <1>7 DEF Erase, SweepInv, ObjectsSweptFirst, WhiteInPause,
       SweptIsWhite
  <2> QED
    BY <2>1, <2>2, <2>3
<1>8. ASSUME NEW o \in Objs \cap Live, AddRoot(o) \/ DelRoot(o)
     PROVE  IInv'
  <2>1. HeapInv'
    BY <1>8 DEF AddRoot, DelRoot, Closed, HeapInv, LiveClosed, RefsSound,
       CallForgets
  <2>2. MarkInv'
    BY <1>8 DEF AddRoot, DelRoot, Closed, HeapInv, LiveClosed, RefsSound,
       MarkInv, NoneDead, GreyAllocated, StrsNotGrey, TriColour,
       GreyListsExact, SweepInv, WhiteInPause
  <2>3. SweepInv'
    BY <1>8 DEF AddRoot, DelRoot, SweepInv, ObjectsSweptFirst,
       WhiteInPause, SweptIsWhite
  <2> QED
    BY <2>1, <2>2, <2>3
<1>9. CASE CollectFull
  <2>1. HeapInv'
    BY <1>9 DEF CollectFull, gcvars, Closed, HeapInv, LiveClosed,
       RefsSound, CallForgets
  <2>2. MarkInv'
    BY <1>9 DEF CollectFull, gcvars, Closed, HeapInv, LiveClosed,
       RefsSound, MarkInv, NoneDead, GreyAllocated, StrsNotGrey,
       TriColour, GreyListsExact, SweepInv, WhiteInPause
  <2>3. SweepInv'
    BY <1>9 DEF CollectFull, gcvars, SweepInv, ObjectsSweptFirst,
       WhiteInPause, SweptIsWhite
  <2> QED
    BY <2>1, <2>2, <2>3
<1>10. CASE CollectFullAborts
  <2>1. HeapInv'
    BY <1>10 DEF CollectFullAborts, gcvars, Closed, HeapInv, LiveClosed,
       RefsSound, CallForgets
  <2>2. MarkInv'
    BY <1>10 DEF CollectFullAborts, gcvars, Closed, HeapInv, LiveClosed,
       RefsSound, MarkInv, NoneDead, GreyAllocated, StrsNotGrey,
       TriColour, GreyListsExact, SweepInv, WhiteInPause
  <2>3. SweepInv'
    BY <1>10 DEF CollectFullAborts, gcvars, SweepInv, ObjectsSweptFirst,
       WhiteInPause, SweptIsWhite
  <2> QED
    BY <2>1, <2>2, <2>3
<1>11. CASE Clear
  <2>1. HeapInv'
    BY <1>11 DEF Clear, Closed, HeapInv, LiveClosed, RefsSound,
       CallForgets
  <2>2. MarkInv'
    BY <1>11 DEF Clear, Closed, HeapInv, LiveClosed, RefsSound, MarkInv,
       NoneDead, GreyAllocated, StrsNotGrey, TriColour, GreyListsExact,
       SweepInv, WhiteInPause
  <2>3. SweepInv'
    BY <1>11 DEF Clear, SweepInv, ObjectsSweptFirst, WhiteInPause,
       SweptIsWhite
  <2> QED
    BY <2>1, <2>2, <2>3
<1>12. CASE CollectIncremental
  <2>1. HeapInv'
    BY <1>12 DEF CollectIncremental, gcvars, Closed, HeapInv, LiveClosed,
       RefsSound, CallForgets
  <2>2. MarkInv'
    BY <1>12 DEF CollectIncremental, gcvars, Closed, HeapInv, LiveClosed,
       RefsSound, MarkInv, NoneDead, GreyAllocated, StrsNotGrey,
       TriColour, GreyListsExact, SweepInv, WhiteInPause
  <2>3. SweepInv'
    BY <1>12 DEF CollectIncremental, gcvars, SweepInv, ObjectsSweptFirst,
       WhiteInPause, SweptIsWhite
  <2> QED
    BY <2>1, <2>2, <2>3
<1>13. CASE StepPause
  <2>1. HeapInv'
    BY <1>13 DEF StepPause, MarkColor, InStep, Closed, HeapInv,
       LiveClosed, RefsSound, CallForgets
  <2>2. MarkInv'
    BY <1>13 DEF StepPause, MarkColor, InStep, Closed, HeapInv,
       LiveClosed, RefsSound, MarkInv, NoneDead, GreyAllocated,
       StrsNotGrey, TriColour, GreyListsExact, SweepInv, WhiteInPause
  <2>3. SweepInv'
    BY <1>13 DEF StepPause, MarkColor, InStep, SweepInv,
       ObjectsSweptFirst, WhiteInPause, SweptIsWhite
  <2> QED
    BY <2>1, <2>2, <2>3
<1>14. CASE StepPropagate
  <2>1. HeapInv'
    <3>1. PICK o \in grey0 :
            color' = [n \in Node |->
                        IF n \in {v \in refs[o] : IsWhite(v)} THEN MarkColor(n)
                        ELSE IF n = o THEN "black" ELSE color[n]]
      BY <1>14 DEF StepPropagate
    <3>2. o \in heap /\ color[o] = "grey"
      BY <1>14 DEF StepPropagate, InStep, MarkInv, GreyListsExact
    <3>3. refs[o] \subseteq Live
      BY <3>2 DEF HeapInv, LiveClosed, Closed
    <3>4. \A n \in Node : color'[n] = color[n]
                          \/ (n \in Live /\ color'[n] \in {"grey", "black"})
      BY <3>1, <3>2, <3>3 DEF MarkColor
    <3>5. Live' = Live
      BY <1>14, <3>4 DEF StepPropagate
    <3> QED
      BY <1>14, <3>5 DEF StepPropagate, InStep, Closed, HeapInv, LiveClosed,
         RefsSound, CallForgets
  <2>2. MarkInv'
    BY <1>14 DEF StepPropagate, MarkColor, InStep, Closed, HeapInv,
       LiveClosed, RefsSound, MarkInv, NoneDead, GreyAllocated,
       StrsNotGrey, TriColour, GreyListsExact, SweepInv, WhiteInPause
  <2>3. SweepInv'
    BY <1>14 DEF StepPropagate, MarkColor, InStep, SweepInv,
       ObjectsSweptFirst, WhiteInPause, SweptIsWhite
  <2> QED
    BY <2>1, <2>2, <2>3
<1>15. CASE StepPropagateDone
  <2>1. HeapInv'
    BY <1>15 DEF StepPropagateDone, InStep, Closed, HeapInv, LiveClosed,
       RefsSound, CallForgets
  <2>2. MarkInv'
    BY <1>15 DEF StepPropagateDone, InStep, Closed, HeapInv, LiveClosed,
       RefsSound, MarkInv, NoneDead, GreyAllocated, StrsNotGrey,
       TriColour, GreyListsExact, SweepInv, WhiteInPause
  <2>3. SweepInv'
    BY <1>15 DEF StepPropagateDone, InStep, SweepInv, ObjectsSweptFirst,
       WhiteInPause, SweptIsWhite
  <2> QED
    BY <2>1, <2>2, <2>3
<1>16. CASE StepAtomic
  <2>1. HeapInv'
    BY <1>16, AtomicKeepsLiveClosed
       DEF StepAtomic, InStep, HeapInv, RefsSound, CallForgets
  <2>2. MarkInv'
    BY <1>16 DEF StepAtomic, InStep, Closed, HeapInv, LiveClosed,
       RefsSound, MarkInv, NoneDead, GreyAllocated, StrsNotGrey,
       TriColour, GreyListsExact, SweepInv, WhiteInPause
  <2>3. SweepInv'
    BY <1>16 DEF StepAtomic, InStep, SweepInv, ObjectsSweptFirst,
       WhiteInPause, SweptIsWhite
  <2> QED
    BY <2>1, <2>2, <2>3
<1>17. CASE StepSweepStrings
  <2>1. HeapInv'
    <3>1. PICK batch \in SUBSET heap : Sweep(batch)
      BY <1>17 DEF StepSweepStrings, StringBatches
    <3> QED
      BY <1>17, <3>1, SweepKeepsHeapInv DEF StepSweepStrings, InStep, HeapInv, CallForgets
  <2>2. MarkInv'
    BY <1>17 DEF StepSweepStrings, StringBatches, Sweep, InStep, Closed,
       HeapInv, LiveClosed, RefsSound, MarkInv, NoneDead, GreyAllocated,
       StrsNotGrey, TriColour, GreyListsExact, SweepInv, WhiteInPause
  <2>3. SweepInv'
    BY <1>17 DEF StepSweepStrings, StringBatches, Sweep, InStep, SweepInv,
       ObjectsSweptFirst, WhiteInPause, SweptIsWhite
  <2> QED
    BY <2>1, <2>2, <2>3
<1>18. CASE StepSweepObjects
  <2>1. HeapInv'
    <3>1. PICK batch \in SUBSET heap : Sweep(batch)
      BY <1>18 DEF StepSweepObjects, Batches
    <3> QED
      BY <1>18, <3>1, SweepKeepsHeapInv DEF StepSweepObjects, InStep, HeapInv, CallForgets
  <2>2. MarkInv'
    BY <1>18 DEF StepSweepObjects, Batches, Sweep, InStep, Closed,
       HeapInv, LiveClosed, RefsSound, MarkInv, NoneDead, GreyAllocated,
       StrsNotGrey, TriColour, GreyListsExact, SweepInv, WhiteInPause
  <2>3. SweepInv'
    BY <1>18 DEF StepSweepObjects, Batches, Sweep, InStep, SweepInv,
       ObjectsSweptFirst, WhiteInPause, SweptIsWhite
  <2> QED
    BY <2>1, <2>2, <2>3
<1>19. CASE StepSweepHeaders
  <2>1. HeapInv'
    <3>1. PICK batch \in SUBSET heap : Sweep(batch)
      BY <1>19 DEF StepSweepHeaders, Batches
    <3> QED
      BY <1>19, <3>1, SweepKeepsHeapInv DEF StepSweepHeaders, InStep, HeapInv, CallForgets
  <2>2. MarkInv'
    BY <1>19 DEF StepSweepHeaders, Batches, Sweep, InStep, Closed,
       HeapInv, LiveClosed, RefsSound, MarkInv, NoneDead, GreyAllocated,
       StrsNotGrey, TriColour, GreyListsExact, SweepInv, WhiteInPause
  <2>3. SweepInv'
    BY <1>19 DEF StepSweepHeaders, Batches, Sweep, InStep, SweepInv,
       ObjectsSweptFirst, WhiteInPause, SweptIsWhite
  <2> QED
    BY <2>1, <2>2, <2>3
<1>20. CASE UNCHANGED vars
  <2>1. HeapInv'
    BY <1>20 DEF vars, Closed, HeapInv, LiveClosed, RefsSound, CallForgets
  <2>2. MarkInv'
    BY <1>20 DEF vars, Closed, HeapInv, LiveClosed, RefsSound, MarkInv,
       NoneDead, GreyAllocated, StrsNotGrey, TriColour, GreyListsExact,
       SweepInv, WhiteInPause
  <2>3. SweepInv'
    BY <1>20 DEF vars, SweepInv, ObjectsSweptFirst, WhiteInPause,
       SweptIsWhite
  <2> QED
    BY <2>1, <2>2, <2>3
<1>21. Accessible \subseteq Live
  BY AccessibleLive DEF HeapInv
<1> QED
  BY <1>1, <1>2, <1>3, <1>4, <1>5, <1>6, <1>7, <1>8, <1>9, <1>10, <1>11, <1>12,
     <1>13, <1>14, <1>15, <1>16, <1>17, <1>18, <1>19, <1>20, <1>21
     DEF Next, Client, Collect, Step

(***************************************************************************)
(* The inductive invariant holds at the start.                             *)
(***************************************************************************)
LEMMA InitInv == Init => IInv
BY NodesAssumption
   DEF Init, IInv, TypeOK, HeapInv, LiveClosed, RefsSound, CallForgets, Closed,
       MarkInv, NoneDead, GreyAllocated, StrsNotGrey, TriColour, GreyListsExact,
       SweepInv, ObjectsSweptFirst, WhiteInPause, SweptIsWhite, Node, Propagates,
       Whites, States, Calls, Rooted, Live, IsDead, Marking, Sweeping, otherWhite

(***************************************************************************)
(* Every reachable state of the collector satisfies the invariant.         *)
(***************************************************************************)
THEOREM Invariant == Spec => []IInv
BY InitInv, InvStep, PTL DEF Spec

-----------------------------------------------------------------------------
(* What follows from it.                                                   *)

(***************************************************************************)
(* The collector never frees a node that the client can still use.         *)
(***************************************************************************)
THEOREM NothingLiveIsFreed == Spec => []NoDangling
<1>1. IInv => NoDangling
  BY AccessibleLive DEF IInv, HeapInv, NoDangling, Live
<1> QED
  BY <1>1, Invariant, PTL

(***************************************************************************)
(* The collector never has a node marked dead, which the next sweep would  *)
(* free, that the client can still use.                                    *)
(***************************************************************************)
THEOREM NothingLiveIsDead == Spec => []AccessibleNotDead
<1>1. IInv => AccessibleNotDead
  BY AccessibleLive DEF IInv, HeapInv, AccessibleNotDead, Live
<1> QED
  BY <1>1, Invariant, PTL

(***************************************************************************)
(* Marking never leaves a black object with a white child, nor a grey one  *)
(* off the grey lists or on both of them.                                  *)
(***************************************************************************)
THEOREM MarkingSound == Spec => [](TriColour /\ GreyListsExact)
<1>1. IInv => TriColour /\ GreyListsExact
  BY DEF IInv, MarkInv
<1> QED
  BY <1>1, Invariant, PTL

(***************************************************************************)
(* No object is black or dead between two cycles, and a sweep leaves only  *)
(* current whites behind it.                                               *)
(***************************************************************************)
THEOREM SweepingSound == Spec => [](WhiteInPause /\ SweptIsWhite)
<1>1. IInv => WhiteInPause /\ SweptIsWhite
  BY DEF IInv, SweepInv
<1> QED
  BY <1>1, Invariant, PTL

-----------------------------------------------------------------------------
(* A full collection is exact.                                             *)

\* What the second loop of a full collection has marked, or will keep, the
\* client can use: no client ran since all was made white.
CycleInv ==
  call = "cycle" =>
    /\ Marking  => \A n \in heap \ Strs : color[n] # white => n \in Accessible
    /\ Sweeping => \A n \in heap \ Strs : ~IsDead(n) => n \in Accessible

(***************************************************************************)
(* What the client can use includes the seeds and is closed.               *)
(***************************************************************************)
LEMMA AccessibleClosed ==
  ASSUME TypeOK
  PROVE  /\ Accessible \subseteq Node
         /\ Rooted \cup fresh \subseteq Accessible
         /\ Closed(Accessible, refs)
<1>1. DOMAIN refs = Node /\ \A n \in Node : refs[n] \subseteq Node
  BY DEF TypeOK
<1>2. Rooted \cup fresh \subseteq Node
  BY DEF TypeOK, Rooted, Node
<1> QED
  BY <1>1, <1>2, ReachableNodes, SeedsReachable, ReachableClosed DEF Accessible

(***************************************************************************)
(* A sweep takes nothing from what the client can use.                     *)
(***************************************************************************)
LEMMA SweepKeepsAccessible ==
  ASSUME IInv, TypeOK', NEW batch \in SUBSET heap, Sweep(batch)
  PROVE  Accessible \subseteq Accessible'
<1> DEFINE S == Accessible' \cap Live
<1>1. Rooted' = Rooted /\ fresh' = fresh
  BY DEF Sweep, Rooted
<1>2. \A n \in Live : refs'[n] = refs[n]
  BY DEF Sweep, Live, IInv, TypeOK
<1>3. Rooted' \cup fresh' \subseteq Accessible' /\ Closed(Accessible', refs')
  <2>1. Accessible' = ReachableFrom(Rooted' \cup fresh', refs')
    BY DEF Accessible
  <2>2. DOMAIN refs' = Node /\ \A n \in Node : refs'[n] \subseteq Node
    BY DEF TypeOK
  <2>3. Rooted' \cup fresh' \subseteq Node
    BY DEF TypeOK, Rooted, Node
  <2> QED
    BY <2>1, <2>2, <2>3, SeedsReachable, ReachableClosed
<1>4. S \in SUBSET DOMAIN refs
  BY DEF IInv, TypeOK, Live
<1>5. Rooted \cup fresh \subseteq S
  BY <1>1, <1>3 DEF IInv, HeapInv, LiveClosed
<1>6. Closed(S, refs)
  BY <1>2, <1>3 DEF Closed, IInv, HeapInv, LiveClosed
<1>7. ReachableFrom(Rooted \cup fresh, refs) \subseteq S
  BY <1>4, <1>5, <1>6, ReachableLeast
<1> QED
  BY <1>7 DEF Accessible

(***************************************************************************)
(* In the second loop of a full collection, atomic() marks only what the   *)
(* client can use.                                                         *)
(***************************************************************************)
LEMMA AtomicMarksAccessible ==
  ASSUME IInv, CycleInv, call = "cycle", state = "ATOMIC"
  PROVE  AtomicMarked \subseteq Accessible
<1> DEFINE seeds == {r \in Rooted : IsWhite(r)} \cup grey0 \cup grey1
           succ  == [n \in Node |-> {v \in refs[n] : IsWhite(v)}]
<1>1. Accessible \in SUBSET DOMAIN succ
  BY AccessibleClosed DEF IInv
<1>2. grey0 \cup grey1 \subseteq Accessible
  BY NodesAssumption
     DEF IInv, TypeOK, MarkInv, GreyAllocated, GreyListsExact, CycleInv, Marking,
         Propagates, Whites
<1>3. seeds \subseteq Accessible
  BY <1>2, AccessibleClosed DEF IInv
<1>4. Closed(Accessible, succ)
  BY AccessibleClosed DEF IInv, Closed
<1>5. AtomicMarked = ReachableFrom(seeds, succ)
  BY DEF AtomicMarked
<1> HIDE DEF seeds, succ
<1> QED
  BY <1>1, <1>3, <1>4, <1>5, ReachableLeast

(***************************************************************************)
(* Every step keeps CycleInv; it begins with everything white.             *)
(***************************************************************************)
LEMMA CycleStep == IInv /\ CycleInv /\ [Next]_vars => CycleInv'
<1> SUFFICES ASSUME IInv, CycleInv, [Next]_vars, call' = "cycle"
             PROVE  CycleInv'
  BY DEF CycleInv
<1>0. TypeOK'
  BY TypeStep DEF IInv
<1> USE NodesAssumption DEF IInv, TypeOK
<1>1. CASE UNCHANGED vars
  BY <1>1 DEF vars, CycleInv, Marking, Sweeping, IsDead, otherWhite, Accessible, Rooted
<1>2. ASSUME ~ UNCHANGED vars
      PROVE  Step /\ call \in {"drain", "cycle"}
  BY <1>2 DEF Next, Client, Collect, New, NewStr, FindStr, Store, StoreBarrierBack,
              StoreBarrier, Erase, AddRoot, DelRoot, CollectFull, CollectFullAborts,
              Clear, CollectIncremental, Step, LoopsOn, InStep, StepPause,
              StepPropagate, StepPropagateDone, StepAtomic, StepSweepStrings,
              StepSweepObjects, StepSweepHeaders
<1>3. CASE Step /\ call = "drain"
  <2>1. state' = "PAUSE"
    BY <1>3 DEF Step, LoopsOn, InStep, StepPause, StepPropagate, StepPropagateDone,
                StepAtomic, StepSweepStrings, StepSweepObjects, StepSweepHeaders
  <2> QED
    BY <2>1 DEF CycleInv, Marking, Sweeping
<1>4. CASE Step /\ call = "cycle"
  <2> USE <1>4 DEF CycleInv, Marking, Sweeping
  <2>1. CASE StepPause
    <3>1. Accessible' = Accessible
      BY <2>1 DEF StepPause, Accessible, Rooted
    <3>2. \A n \in heap \ Strs : color[n] = white
      BY <2>1 DEF StepPause, InStep, SweepInv, WhiteInPause
    <3> QED
      BY <2>1, <3>1, <3>2, AccessibleClosed DEF StepPause, Node
  <2>2. CASE StepPropagate
    <3>1. Accessible' = Accessible
      BY <2>2 DEF StepPropagate, Accessible, Rooted
    <3>2. PICK o \in grey0 :
            color' = [n \in Node |->
                        IF n \in {v \in refs[o] : IsWhite(v)} THEN MarkColor(n)
                        ELSE IF n = o THEN "black" ELSE color[n]]
      BY <2>2 DEF StepPropagate
    <3>3. o \in Accessible
      BY <2>2 DEF StepPropagate, InStep, MarkInv, GreyListsExact, GreyAllocated,
                  Propagates, Whites
    <3>4. refs[o] \subseteq Accessible
      BY <3>3, AccessibleClosed DEF Closed
    <3> QED
      BY <2>2, <3>1, <3>2, <3>3, <3>4 DEF StepPropagate, InStep, Node
  <2>3. CASE StepPropagateDone
    BY <2>3 DEF StepPropagateDone, InStep, Accessible, Rooted
  <2>4. CASE StepAtomic
    <3>1. Accessible' = Accessible
      BY <2>4 DEF StepAtomic, Accessible, Rooted
    <3>2. AtomicMarked \subseteq Accessible
      BY <2>4, AtomicMarksAccessible DEF StepAtomic, InStep
    <3>3. \A n \in Node : n \in AtomicMarked \/ (~IsDead(n)' => color[n] # white)
      BY <2>4 DEF StepAtomic, IsDead, otherWhite, Whites
    <3> QED
      BY <2>4, <3>1, <3>2, <3>3 DEF StepAtomic, InStep, Node
  <2>5. ASSUME NEW batch \in SUBSET heap, Sweep(batch), Sweeping, Sweeping' \/ state' = "PAUSE"
        PROVE  CycleInv'
    <3>1. Accessible \subseteq Accessible'
      BY <1>0, <2>5, SweepKeepsAccessible
    <3>2. heap' \subseteq heap /\ \A n \in heap' : ~IsDead(n)' => ~IsDead(n)
      BY <2>5 DEF Sweep, IsDead, otherWhite, Whites, Node
    <3> QED
      BY <2>5, <3>1, <3>2
  <2>6. CASE StepSweepStrings
    BY <2>5, <2>6 DEF StepSweepStrings, StringBatches, InStep
  <2>7. CASE StepSweepObjects
    BY <2>5, <2>7 DEF StepSweepObjects, Batches, InStep
  <2>8. CASE StepSweepHeaders
    BY <2>5, <2>8 DEF StepSweepHeaders, Batches, InStep
  <2> QED
    BY <2>1, <2>2, <2>3, <2>4, <2>6, <2>7, <2>8 DEF Step
<1> QED
  BY <1>1, <1>2, <1>3, <1>4

(***************************************************************************)
(* When a full collection returns, the objects and headers in the heap are *)
(* those the client can still use.                                         *)
(***************************************************************************)
THEOREM FullCollectIsExact == Spec => FullCollectExact
<1>1. IInv /\ IInv' /\ CycleInv /\ [Next]_vars
        => [FullCollectEnds => heap' \ Strs = Accessible' \ Strs]_vars
  <2> SUFFICES ASSUME IInv, IInv', CycleInv, Next, FullCollectEnds
               PROVE  heap' \ Strs = Accessible' \ Strs
    BY DEF FullCollectEnds, vars
  <2> USE NodesAssumption DEF IInv, TypeOK
  <2>1. StepSweepHeaders /\ state' = "PAUSE"
    BY DEF FullCollectEnds, Next, Client, Collect, Step, LoopsOn, InStep, StepPause,
           StepPropagate, StepPropagateDone, StepAtomic, StepSweepStrings,
           StepSweepObjects, StepSweepHeaders
  <2>2. PICK batch \in SUBSET heap : Sweep(batch) /\ batch = ahead \cap Hdrs
    BY <2>1 DEF StepSweepHeaders, Batches
  <2>3. ASSUME NEW n \in heap' \ Strs
        PROVE  n \in Accessible'
    <3>1. n \in heap \ Strs /\ n \notin {m \in batch : IsDead(m)}
      BY <2>2 DEF Sweep
    <3>2. ~IsDead(n)
      BY <2>1, <2>2, <3>1
         DEF StepSweepHeaders, InStep, SweepInv, SweptIsWhite, ObjectsSweptFirst,
             Sweeping, IsDead, otherWhite, Whites, Node
    <3>3. n \in Accessible
      BY <2>1, <3>1, <3>2 DEF StepSweepHeaders, InStep, FullCollectEnds, CycleInv, Sweeping
    <3> QED
      BY <2>2, <3>3, SweepKeepsAccessible
  <2>4. Accessible' \subseteq heap'
    <3>1. (TypeOK /\ LiveClosed => Accessible \subseteq Live)'
      BY AccessibleLive, PTL
    <3> QED
      BY <3>1 DEF HeapInv, Live
  <2> QED
    BY <2>3, <2>4
<1>2. Init => CycleInv
  BY DEF Init, CycleInv
<1>3. Spec => []CycleInv
  BY <1>2, CycleStep, Invariant, PTL DEF Spec
<1> QED
  BY <1>1, <1>3, Invariant, PTL DEF Spec, FullCollectExact

\* So for the strings, when one sweep gets to all of them.  They are all white
\* from the end of a string sweep to the next marking.
StringInv ==
  Cardinality(Strs) <= StrLimit =>
    /\ state \in {"PAUSE", "SWEEP", "SWEEP_HEADER"}
         => \A s \in heap \cap Strs : color[s] = white
    /\ call = "cycle" =>
         /\ Marking => \A s \in heap \cap Strs : color[s] # white => s \in Accessible
         /\ state = "SWEEP_STRING"
              => \A s \in heap \cap Strs : ~IsDead(s) => s \in Accessible
         /\ state \in {"SWEEP", "SWEEP_HEADER"} => heap \cap Strs \subseteq Accessible

(***************************************************************************)
(* When the strings are few, sweep_strings gets to every one of them.      *)
(***************************************************************************)
LEMMA FewStringsSweptWhole ==
  ASSUME IsFiniteSet(Strs), Cardinality(Strs) <= StrLimit
  PROVE  StringBatches = {heap \cap Strs}
<1>1. IsFiniteSet(heap \cap Strs) /\ Cardinality(heap \cap Strs) <= Cardinality(Strs)
  BY FS_Subset
<1>2. Cardinality(heap \cap Strs) \in Nat /\ Cardinality(Strs) \in Nat /\ StrLimit \in Nat
  BY <1>1, FS_CardinalityType, BoundsAssumption
<1>3. Cardinality(heap \cap Strs) <= StrLimit
  BY <1>1, <1>2
<1> QED
  BY <1>3 DEF StringBatches

(***************************************************************************)
(* Every step keeps StringInv.                                             *)
(***************************************************************************)
LEMMA StringStep ==
  ASSUME IsFiniteSet(Strs), IInv, CycleInv, StringInv, [Next]_vars
  PROVE  StringInv'
<1> SUFFICES ASSUME Cardinality(Strs) <= StrLimit
             PROVE  StringInv'
  BY DEF StringInv
<1>0. TypeOK'
  BY TypeStep DEF IInv
<1> USE NodesAssumption DEF IInv, TypeOK
<1>1. CASE UNCHANGED vars
  BY <1>1 DEF vars, StringInv, Marking, IsDead, otherWhite, Accessible, Rooted
<1>2. CASE Client \/ Collect
  <2> USE DEF StringInv, Node
  <2>1. call' # "cycle"
    BY <1>2 DEF Client, Collect, New, NewStr, FindStr, Store, StoreBarrierBack,
                StoreBarrier, Erase, AddRoot, DelRoot, CollectFull, CollectFullAborts,
                Clear, CollectIncremental
  <2>2. ASSUME NEW n \in Node, New(n) \/ NewStr(n) \/ FindStr(n)
        PROVE  StringInv'
    BY <2>1, <2>2 DEF New, NewStr, FindStr
  <2>3. ASSUME NEW o \in Propagates, NEW v \in Accessible,
               Store(o, v) \/ StoreBarrierBack(o, v) \/ Erase(o, v)
        PROVE  StringInv'
    BY <2>1, <2>3 DEF Store, StoreBarrierBack, Erase, Propagates
  <2>4. ASSUME NEW o \in Propagates, NEW v \in Accessible, StoreBarrier(o, v)
        PROVE  StringInv'
    BY <2>1, <2>4 DEF StoreBarrier, Propagates, Marking
  <2>5. ASSUME NEW o \in Objs, AddRoot(o) \/ DelRoot(o)
        PROVE  StringInv'
    BY <2>1, <2>5 DEF AddRoot, DelRoot
  <2>6. CASE CollectFull \/ CollectFullAborts \/ CollectIncremental
    BY <2>1, <2>6 DEF CollectFull, CollectFullAborts, CollectIncremental, gcvars
  <2>7. CASE Clear
    BY <2>1, <2>7 DEF Clear
  <2> QED
    BY <1>2, <2>2, <2>3, <2>4, <2>5, <2>6, <2>7 DEF Client, Collect
<1>3. CASE StepPause \/ StepPropagate \/ StepPropagateDone \/ StepAtomic
  <2> USE <1>3 DEF StringInv, Marking
  <2>1. Accessible' = Accessible
    BY DEF StepPause, StepPropagate, StepPropagateDone, StepAtomic, Accessible, Rooted
  <2>2. call' = "cycle" => call = "cycle"
    BY DEF StepPause, StepPropagate, StepPropagateDone, StepAtomic, InStep, LoopsOn
  <2>3. CASE StepPause
    BY <2>1, <2>2, <2>3, AccessibleClosed DEF StepPause, InStep, Node
  <2>4. CASE StepPropagate
    <3>1. PICK o \in grey0 :
            color' = [n \in Node |->
                        IF n \in {v \in refs[o] : IsWhite(v)} THEN MarkColor(n)
                        ELSE IF n = o THEN "black" ELSE color[n]]
      BY <2>4 DEF StepPropagate
    <3>2. call = "cycle" => refs[o] \subseteq Accessible
      <4>1. call = "cycle" => o \in Accessible
        BY <2>4 DEF StepPropagate, InStep, MarkInv, GreyListsExact, GreyAllocated,
                    Propagates, Whites, CycleInv
      <4> QED
        BY <4>1, AccessibleClosed DEF Closed
    <3>3. o \notin Strs
      BY DEF Propagates
    <3> QED
      BY <2>1, <2>2, <2>4, <3>1, <3>2, <3>3 DEF StepPropagate, InStep, Node
  <2>5. CASE StepPropagateDone
    BY <2>1, <2>2, <2>5 DEF StepPropagateDone, InStep
  <2>6. CASE StepAtomic
    <3>1. call = "cycle" => AtomicMarked \subseteq Accessible
      BY <2>6, AtomicMarksAccessible DEF StepAtomic, InStep
    <3>2. \A n \in Node : n \in AtomicMarked \/ (~IsDead(n)' => color[n] # white)
      BY <2>6 DEF StepAtomic, IsDead, otherWhite, Whites
    <3> QED
      BY <2>1, <2>2, <2>6, <3>1, <3>2 DEF StepAtomic, InStep, Node
  <2> QED
    BY <2>3, <2>4, <2>5, <2>6
<1>4. CASE StepSweepStrings
  <2>1. state = "SWEEP_STRING" /\ state' = "SWEEP" /\ (call' = "cycle" => call = "cycle")
    BY <1>4 DEF StepSweepStrings, InStep, LoopsOn
  <2>2. Sweep(heap \cap Strs)
    BY <1>4, FewStringsSweptWhole DEF StepSweepStrings
  <2>3. Accessible \subseteq Accessible'
    BY <1>0, <2>2, SweepKeepsAccessible
  <2>4. \A s \in heap' \cap Strs : s \in heap \cap Strs /\ ~IsDead(s)
    BY <2>2 DEF Sweep
  <2>5. \A s \in heap' \cap Strs : color'[s] = white'
    BY <2>2, <2>4 DEF Sweep, Node
  <2> QED
    BY <2>1, <2>3, <2>4, <2>5 DEF StringInv, Marking
<1>5. CASE StepSweepObjects \/ StepSweepHeaders
  <2>1. PICK batch \in SUBSET ahead : Sweep(batch)
    BY <1>5 DEF StepSweepObjects, StepSweepHeaders, Batches
  <2>2. /\ state \in {"SWEEP", "SWEEP_HEADER"}
        /\ state' \in {"SWEEP", "SWEEP_HEADER", "PAUSE"}
        /\ state' # "PAUSE" /\ call' = "cycle" => call = "cycle"
    BY <1>5 DEF StepSweepObjects, StepSweepHeaders, InStep, LoopsOn
  <2>3. Accessible \subseteq Accessible'
    BY <1>0, <2>1, SweepKeepsAccessible
  <2>4. heap' \cap Strs \subseteq heap \cap Strs
    BY <2>1 DEF Sweep
  <2>5. \A s \in heap' \cap Strs : color'[s] = white'
    BY <2>1, <2>2, <2>4 DEF Sweep, Node, StringInv
  <2> QED
    BY <2>2, <2>3, <2>4, <2>5 DEF StringInv, Marking
<1> QED
  BY <1>1, <1>2, <1>3, <1>4, <1>5 DEF Next, Step

(***************************************************************************)
(* When a full collection returns and there never are more strings than    *)
(* one sweep gets to, the heap is what the client can still use.           *)
(***************************************************************************)
THEOREM FullCollectIsExactForStrings ==
  ASSUME IsFiniteSet(Strs)
  PROVE  Spec => FullCollectExactStrings
<1>1. /\ IInv /\ IInv' /\ CycleInv /\ StringInv /\ [Next]_vars
      /\ [FullCollectEnds => heap' \ Strs = Accessible' \ Strs]_vars
      => [FullCollectEnds /\ Cardinality(Strs) <= StrLimit => heap' = Accessible']_vars
  <2> SUFFICES ASSUME IInv, IInv', StringInv, Next, FullCollectEnds,
                      heap' \ Strs = Accessible' \ Strs, Cardinality(Strs) <= StrLimit
               PROVE  heap' = Accessible'
    BY DEF FullCollectEnds, vars
  <2> USE NodesAssumption DEF IInv, TypeOK
  <2>1. StepSweepHeaders
    BY DEF FullCollectEnds, Next, Client, Collect, Step, LoopsOn, InStep, StepPause,
           StepPropagate, StepPropagateDone, StepAtomic, StepSweepStrings,
           StepSweepObjects, StepSweepHeaders
  <2>2. PICK batch \in SUBSET heap : Sweep(batch)
    BY <2>1 DEF StepSweepHeaders, Batches
  <2>3. heap \cap Strs \subseteq Accessible
    BY <2>1 DEF StepSweepHeaders, InStep, FullCollectEnds, StringInv
  <2>4. heap' \cap Strs \subseteq Accessible'
    <3>1. heap' \subseteq heap
      BY <2>2 DEF Sweep
    <3> QED
      BY <2>2, <2>3, <3>1, SweepKeepsAccessible
  <2>5. Accessible' \subseteq heap'
    <3>1. (TypeOK /\ LiveClosed => Accessible \subseteq Live)'
      BY AccessibleLive, PTL
    <3> QED
      BY <3>1 DEF HeapInv, Live
  <2> QED
    BY <2>4, <2>5
<1>2. Init => CycleInv /\ StringInv
  BY DEF Init, CycleInv, StringInv, Marking
<1>3. IInv /\ CycleInv /\ StringInv /\ [Next]_vars => StringInv'
  BY StringStep
<1>4. Spec => [](CycleInv /\ StringInv)
  BY <1>2, <1>3, CycleStep, Invariant, PTL DEF Spec
<1> QED
  BY <1>1, <1>4, Invariant, FullCollectIsExact, PTL
     DEF Spec, FullCollectExact, FullCollectExactStrings

-----------------------------------------------------------------------------
(* The collector implements the abstract heap.                             *)

(***************************************************************************)
(* The abstract heap, read with the registered objects for its roots, has  *)
(* the same accessible nodes.                                              *)
(***************************************************************************)
LEMMA SameAccessible == Heap!Accessible = Accessible /\ Heap!Node = Node
BY DEF Heap!Accessible, Accessible, Heap!ReachableFrom, ReachableFrom,
       Heap!Closed, Closed, Heap!Node, Node

(***************************************************************************)
(* A sweep reclaims unreachable nodes, or none.                            *)
(***************************************************************************)
LEMMA SweepReclaims ==
  ASSUME IInv, NEW batch \in SUBSET heap, Sweep(batch)
  PROVE  Heap!Reclaim
<1> DEFINE dead == {n \in batch : IsDead(n)}
<1>1. dead \in SUBSET (heap \ Accessible)
  BY AccessibleLive DEF IInv, HeapInv, Live
<1>2. /\ heap' = heap \ dead
      /\ refs' = [n \in Node |-> IF n \in dead THEN {} ELSE refs[n]]
      /\ Rooted' = Rooted /\ fresh' = fresh
  BY DEF Sweep, Rooted
<1> QED
  BY <1>1, <1>2, SameAccessible DEF Heap!Reclaim

(***************************************************************************)
(* Every step of the collector and of its client is a step of the abstract *)
(* heap, or changes nothing there.                                         *)
(***************************************************************************)
LEMMA HeapStep == IInv /\ [Next]_vars => [Heap!Next]_(Heap!hvars)
<1> SUFFICES ASSUME IInv, [Next]_vars
             PROVE  [Heap!Next]_(Heap!hvars)
  OBVIOUS
<1> USE NodesAssumption, SameAccessible DEF IInv, TypeOK
<1>1. ASSUME NEW n \in Node, New(n) \/ NewStr(n)
      PROVE  Heap!Allocate(n)
  BY <1>1 DEF New, NewStr, Heap!Allocate, Node, Rooted
<1>2. ASSUME NEW n \in Node, FindStr(n)
      PROVE  Heap!Intern(n)
  BY <1>2 DEF FindStr, Heap!Intern, Rooted
<1>3. ASSUME NEW o \in Accessible, NEW v \in Accessible,
             Store(o, v) \/ StoreBarrierBack(o, v) \/ StoreBarrier(o, v)
      PROVE  Heap!Store(o, v)
  BY <1>3 DEF Store, StoreBarrierBack, StoreBarrier, Heap!Store, Rooted
<1>4. ASSUME NEW o \in Accessible, NEW v \in Accessible, Erase(o, v)
      PROVE  Heap!Erase(o, v)
  BY <1>4 DEF Erase, Heap!Erase, Rooted
<1>5. ASSUME NEW o \in Objs \cap Accessible, AddRoot(o)
      PROVE  Heap!AddRoot(o)
  <2>1. Rooted' = Rooted \cup {o}
    BY <1>5 DEF AddRoot, Rooted
  <2> QED
    BY <1>5, <2>1 DEF AddRoot, Heap!AddRoot
<1>6. ASSUME NEW o \in Objs, DelRoot(o)
      PROVE  Heap!DelRoot(o) \/ UNCHANGED Heap!hvars
  <2>1. Rooted' = Rooted \ {o} \/ Rooted' = Rooted
    BY <1>6 DEF DelRoot, Rooted
  <2> QED
    BY <1>6, <2>1 DEF DelRoot, Heap!DelRoot, Heap!hvars
<1>7. CASE CollectFull \/ CollectFullAborts \/ CollectIncremental
  BY <1>7 DEF CollectFull, CollectFullAborts, CollectIncremental, gcvars,
              Heap!Next, Heap!Forget, Rooted
<1>8. CASE Clear
  BY <1>8 DEF Clear, Heap!Next, Heap!Clear, Rooted
<1>9. CASE StepPause \/ StepPropagate \/ StepPropagateDone \/ StepAtomic
  BY <1>9 DEF StepPause, StepPropagate, StepPropagateDone, StepAtomic,
              Heap!hvars, Rooted
<1>10. CASE StepSweepStrings \/ StepSweepObjects \/ StepSweepHeaders
  <2>1. PICK batch \in SUBSET heap : Sweep(batch)
    BY <1>10 DEF StepSweepStrings, StringBatches, StepSweepObjects,
                 StepSweepHeaders, Batches
  <2> QED
    BY <2>1, SweepReclaims DEF Heap!Next
<1>11. CASE UNCHANGED vars
  BY <1>11 DEF vars, Heap!hvars, Rooted
<1>12. Accessible \subseteq Node
  BY AccessibleClosed
<1> QED
  BY <1>1, <1>2, <1>3, <1>4, <1>5, <1>6, <1>7, <1>8, <1>9, <1>10, <1>11, <1>12
     DEF Next, Client, Collect, Step, Heap!Next, Propagates

(***************************************************************************)
(* The collector gives memory back for unreachable nodes only, and its     *)
(* client sees nothing else of it.                                         *)
(***************************************************************************)
THEOREM Refinement == Spec => ImplementsHeap
<1>1. Init => Heap!Init
  BY SameAccessible DEF Init, Heap!Init, Rooted
<1> QED
  BY <1>1, HeapStep, Invariant, PTL DEF Spec, ImplementsHeap, Heap!Spec

-----------------------------------------------------------------------------
(* A cycle is complete.                                                    *)

\* The garbage of which the cycle in progress must dispose stays out of the
\* client's reach and of the marking's, and from atomic() on it is dead and
\* ahead of the sweep.
DoomedInv ==
  /\ doomed \subseteq heap \ Strs
  /\ (Rooted \cup fresh) \cap doomed = {}
  /\ \A n \in heap \ doomed : refs[n] \cap doomed = {}
  /\ Marking => \A n \in doomed : color[n] = white
  /\ Sweeping => \A n \in doomed : IsDead(n) /\ n \in ahead
  /\ state = "PAUSE" => doomed = {}

(***************************************************************************)
(* The client cannot get at the garbage of the cycle in progress.          *)
(***************************************************************************)
LEMMA DoomedNotAccessible ==
  ASSUME IInv, DoomedInv
  PROVE  Accessible \cap doomed = {}
<1> DEFINE S == Node \ doomed
<1> USE DEF IInv, TypeOK
<1>1. S \in SUBSET DOMAIN refs
  OBVIOUS
<1>2. Rooted \cup fresh \subseteq S
  BY DEF DoomedInv, Rooted, Node
<1>3. Closed(S, refs)
  BY DEF Closed, DoomedInv, HeapInv, RefsSound
<1>4. Accessible \subseteq S
  BY <1>1, <1>2, <1>3, ReachableLeast DEF Accessible
<1> QED
  BY <1>4

(***************************************************************************)
(* atomic() marks none of it.                                              *)
(***************************************************************************)
LEMMA DoomedNotMarked ==
  ASSUME IInv, DoomedInv, state = "ATOMIC"
  PROVE  AtomicMarked \cap doomed = {}
<1> DEFINE S     == Node \ doomed
           seeds == {r \in Rooted : IsWhite(r)} \cup grey0 \cup grey1
           succ  == [n \in Node |-> {v \in refs[n] : IsWhite(v)}]
<1> USE DEF IInv, TypeOK
<1>1. S \in SUBSET DOMAIN succ
  OBVIOUS
<1>2. grey0 \cup grey1 \subseteq S
  BY NodesAssumption
     DEF DoomedInv, Marking, MarkInv, GreyAllocated, GreyListsExact, Propagates,
         Whites, Node
<1>3. seeds \subseteq S
  BY <1>2 DEF DoomedInv, Rooted, Node
<1>4. Closed(S, succ)
  BY DEF Closed, DoomedInv, HeapInv, RefsSound
<1>5. AtomicMarked = ReachableFrom(seeds, succ)
  BY DEF AtomicMarked
<1> HIDE DEF S, seeds, succ
<1>6. AtomicMarked \subseteq S
  BY <1>1, <1>3, <1>4, <1>5, ReachableLeast
<1> QED
  BY <1>6 DEF S

(***************************************************************************)
(* A sweep frees what it finds of it, and the rest is still ahead.         *)
(***************************************************************************)
LEMMA SweepKeepsDoomed ==
  ASSUME IInv, DoomedInv, Sweeping, NEW batch \in SUBSET heap, Sweep(batch),
         ahead' = ahead \ batch, doomed' = doomed \cap heap', state' # "PAUSE" \/ ahead' = {},
         ~Marking'
  PROVE  DoomedInv'
<1> USE DEF IInv, TypeOK
<1>1. Rooted' = Rooted /\ fresh' = fresh /\ white' = white
  BY DEF Sweep, Rooted
<1>2. \A n \in doomed' : n \in doomed /\ n \notin batch
  BY DEF Sweep, DoomedInv
<1>3. \A n \in doomed' : IsDead(n)' /\ n \in ahead'
  BY <1>1, <1>2 DEF Sweep, DoomedInv, IsDead, otherWhite
<1>4. \A n \in heap' \ doomed' : n \in heap \ doomed /\ refs'[n] = refs[n]
  BY DEF Sweep
<1> QED
  BY <1>1, <1>2, <1>3, <1>4 DEF DoomedInv

(***************************************************************************)
(* Every step keeps DoomedInv; it begins with the marking of the roots.    *)
(***************************************************************************)
LEMMA DoomedStep == IInv /\ DoomedInv /\ [MCNext]_mcvars => DoomedInv'
<1> SUFFICES ASSUME IInv, DoomedInv, [MCNext]_mcvars
             PROVE  DoomedInv'
  OBVIOUS
<1> USE NodesAssumption DEF IInv, TypeOK, Node
<1>1. CASE UNCHANGED mcvars
  BY <1>1 DEF mcvars, vars, DoomedInv, Marking, Sweeping, IsDead, otherWhite, Rooted
<1>2. ASSUME MCNext, Client \/ Collect
      PROVE  DoomedInv'
  <2> USE DEF DoomedInv, Rooted, Marking, Sweeping, IsDead, otherWhite
  <2>1. Accessible \cap doomed = {} /\ Accessible \subseteq Node
    BY DoomedNotAccessible, AccessibleClosed
  <2>2. \/ doomed' = {}
        \/ doomed' = doomed \cap heap'
    BY <1>2 DEF MCNext, Client, Collect, New, NewStr, FindStr, Store, StoreBarrierBack,
                StoreBarrier, Erase, AddRoot, DelRoot, CollectFull, CollectFullAborts,
                Clear, CollectIncremental, gcvars
  <2>3. CASE doomed' = {}
    BY <2>3
  <2>4. CASE doomed' = doomed \cap heap'
    <3> USE <2>4
    <3>1. ASSUME NEW n \in Node, New(n)
          PROVE  DoomedInv'
      BY <3>1 DEF New, HeapInv, RefsSound
    <3>2. ASSUME NEW n \in Node, NewStr(n) \/ FindStr(n)
          PROVE  DoomedInv'
      BY <3>2 DEF NewStr, FindStr, HeapInv, RefsSound
    <3>3. ASSUME NEW o \in Propagates \cap Accessible, NEW v \in Accessible,
                 Store(o, v) \/ StoreBarrierBack(o, v) \/ Erase(o, v)
          PROVE  DoomedInv'
      BY <2>1, <3>3 DEF Store, StoreBarrierBack, Erase
    <3>4. ASSUME NEW o \in Propagates \cap Accessible, NEW v \in Accessible,
                 StoreBarrier(o, v)
          PROVE  DoomedInv'
      BY <2>1, <3>4 DEF StoreBarrier
    <3>5. ASSUME NEW o \in Objs \cap Accessible, AddRoot(o) \/ DelRoot(o)
          PROVE  DoomedInv'
      BY <2>1, <3>5 DEF AddRoot, DelRoot
    <3>6. CASE CollectFullAborts \/ CollectIncremental
      BY <3>6 DEF CollectFullAborts, CollectIncremental, gcvars
    <3>7. CASE CollectFull
      <4>1. Sweeping \/ doomed' = {}
        BY <1>2, <3>7 DEF MCNext, CollectFull, Client, Collect, CollectIncremental
      <4> QED
        BY <3>7, <4>1 DEF CollectFull
    <3>8. CASE Clear
      BY <3>8 DEF Clear
    <3> QED
      BY <1>2, <3>1, <3>2, <3>3, <3>4, <3>5, <3>6, <3>7, <3>8 DEF Client, Collect
  <2> QED
    BY <2>2, <2>3, <2>4
<1>3. ASSUME MCNext, StepPause
      PROVE  DoomedInv'
  <2>1. doomed' = (heap \ Strs) \ Accessible
    <3>1. state = "PAUSE" /\ state' = "PROPAGATE"
      BY <1>3 DEF StepPause, InStep
    <3>2. ~(call # "drain" /\ call' = "drain")
      BY <1>3 DEF StepPause, InStep, LoopsOn
    <3> QED
      BY <1>3, <3>1, <3>2 DEF MCNext
  <2>2. Rooted \cup fresh \subseteq Accessible /\ Closed(Accessible, refs)
    BY AccessibleClosed
  <2>3. \A n \in doomed' : color'[n] = white'
    BY <1>3, <2>1, <2>2 DEF StepPause, InStep, SweepInv, WhiteInPause
  <2>4. \A n \in heap \ doomed' : refs[n] \cap doomed' = {}
    BY <2>1, <2>2 DEF Closed, HeapInv, RefsSound, Propagates
  <2> QED
    BY <1>3, <2>1, <2>2, <2>3, <2>4 DEF StepPause, DoomedInv, Rooted, Sweeping
<1>4. ASSUME MCNext, Step, ~StepPause
      PROVE  doomed' = doomed \cap heap'
  BY <1>4 DEF MCNext, Step, InStep, LoopsOn, StepPropagate, StepPropagateDone, StepAtomic,
              StepSweepStrings, StepSweepObjects, StepSweepHeaders
<1>5. ASSUME StepPropagate \/ StepPropagateDone, doomed' = doomed \cap heap'
      PROVE  DoomedInv'
  <2>1. \A n \in doomed : color'[n] = color[n]
    <3>1. \A o \in grey0 : color[o] = "grey" /\ o \in heap
      BY <1>5 DEF StepPropagate, StepPropagateDone, InStep, MarkInv, GreyAllocated,
                  GreyListsExact, Marking, Propagates
    <3>2. \A o \in grey0 : o \notin doomed /\ refs[o] \cap doomed = {}
      BY <1>5, <3>1 DEF StepPropagate, StepPropagateDone, InStep, DoomedInv, Marking, Whites
    <3> QED
      BY <1>5, <3>2 DEF StepPropagate, StepPropagateDone, DoomedInv
  <2> QED
    BY <1>5, <2>1 DEF StepPropagate, StepPropagateDone, InStep, DoomedInv, Marking,
                      Sweeping, Rooted
<1>6. ASSUME StepAtomic, doomed' = doomed \cap heap'
      PROVE  DoomedInv'
  <2>1. AtomicMarked \cap doomed = {}
    BY <1>6, DoomedNotMarked DEF StepAtomic, InStep
  <2>2. \A n \in doomed' : IsDead(n)'
    BY <1>6, <2>1 DEF StepAtomic, InStep, DoomedInv, Marking, IsDead, otherWhite, Whites
  <2> QED
    BY <1>6, <2>2 DEF StepAtomic, DoomedInv, Marking, Rooted
<1>7. ASSUME StepSweepStrings \/ StepSweepObjects \/ StepSweepHeaders,
             doomed' = doomed \cap heap'
      PROVE  DoomedInv'
  <2>1. Sweeping /\ ~Marking'
    BY <1>7 DEF StepSweepStrings, StepSweepObjects, StepSweepHeaders, InStep, Sweeping,
                Marking
  <2>2. PICK batch \in SUBSET heap :
          Sweep(batch) /\ ahead' = ahead \ batch /\ (state' # "PAUSE" \/ ahead' = {})
    <3>1. CASE StepSweepStrings
      BY <3>1 DEF StepSweepStrings, StringBatches
    <3>2. CASE StepSweepObjects
      BY <3>2 DEF StepSweepObjects, Batches
    <3>3. CASE StepSweepHeaders
      BY <3>3 DEF StepSweepHeaders, Batches, InStep, SweepInv, ObjectsSweptFirst
    <3> QED
      BY <1>7, <3>1, <3>2, <3>3
  <2> QED
    BY <1>7, <2>1, <2>2, SweepKeepsDoomed
<1> QED
  BY <1>1, <1>2, <1>3, <1>4, <1>5, <1>6, <1>7 DEF MCNext, Next, Step

(***************************************************************************)
(* When a cycle ends, nothing is left of the objects and headers that were *)
(* garbage when it began, whatever the client did meanwhile.               *)
(***************************************************************************)
THEOREM CyclesAreComplete == MCSpec => CycleComplete
<1>1. MCInit => IInv /\ DoomedInv
  <2>1. MCInit => IInv
    BY InitInv DEF MCInit
  <2>2. MCInit => DoomedInv
    BY DEF MCInit, Init, DoomedInv, Rooted, Marking, Sweeping
  <2> QED
    BY <2>1, <2>2
<1>2. IInv /\ DoomedInv /\ [MCNext]_mcvars => IInv' /\ DoomedInv'
  <2>1. [MCNext]_mcvars => [Next]_vars
    BY DEF MCNext, mcvars
  <2> QED
    BY <2>1, InvStep, DoomedStep
<1>3. DoomedInv' => [state = "SWEEP_HEADER" /\ state' = "PAUSE" => doomed' = {}]_mcvars
  BY DEF DoomedInv
<1>4. MCSpec => [](IInv /\ DoomedInv)
  BY <1>1, <1>2, PTL DEF MCSpec
<1> QED
  BY <1>3, <1>4, PTL DEF MCSpec, CycleComplete

-----------------------------------------------------------------------------
(* The inductive invariant of the records.                                 *)

\* Only full collections run, so that the client finds the collector at rest.
Quiet ==
  /\ call \in {"none", "drain", "cycle"}
  /\ call = "none" => state = "PAUSE"

\* What is in memory are records that there are, and only it can be dirty; a
\* field names a record that there is.
RecordsSound ==
  /\ disk \in [Records -> Records \cup {Nil}]
  /\ rid \in [Records -> Records \cup {Nil}]
  /\ wrote \in [Records -> Records \cup {Nil, Unused}]
  /\ heap \subseteq OnDisk
  /\ dirty \subseteq heap
  /\ \A o \in OnDisk : disk[o] \in Targets /\ rid[o] \in Targets

\* A record with SMREC_FLAG_SYNC is as its slot.
CleanAsDisk == \A o \in heap \ dirty : rid[o] = disk[o]

StoreInv == RecordsSound /\ CleanAsDisk /\ UpdatesSurvive /\ PointerIsRid

RInv == IInv /\ Quiet /\ StoreInv

-----------------------------------------------------------------------------
(* The collector under this client.                                        *)

\* Nothing is marked or swept, and what is allocated is white and refers to
\* what is allocated.
AtRest ==
  /\ state = "PAUSE" /\ call = "none"
  /\ TypeOK
  /\ heap \subseteq Records
  /\ Rooted \cup fresh \subseteq heap
  /\ \A n \in heap : color[n] = white /\ refs[n] \subseteq heap
  /\ \A n \in Node \ heap : refs[n] = {}
  /\ StrsNotGrey

(***************************************************************************)
(* Records are objects, and nothing else.                                  *)
(***************************************************************************)
LEMMA RecordsAre ==
  /\ Records = Propagates /\ Records \subseteq Objs /\ Records \subseteq Node
  /\ Records \cap (Strs \cup Hdrs) = {} /\ Nil \notin Records /\ Unused \notin Records \cup {Nil}
BY NodesAssumption, RecordsAssumption DEF Records, Propagates, Node

(***************************************************************************)
(* At rest the collector's invariant is no more than that.                 *)
(***************************************************************************)
LEMMA RestInv == AtRest => IInv
<1> SUFFICES ASSUME AtRest
             PROVE  IInv
  OBVIOUS
<1> USE NodesAssumption, RecordsAre DEF AtRest
<1>1. heap \subseteq Live
  BY DEF Live, IsDead, otherWhite, TypeOK, Whites
<1>2. HeapInv
  BY <1>1 DEF HeapInv, LiveClosed, RefsSound, CallForgets, Closed, Live, Propagates
<1>3. MarkInv
  BY DEF MarkInv, NoneDead, GreyAllocated, TriColour, GreyListsExact, Marking
<1>4. SweepInv
  BY DEF SweepInv, ObjectsSweptFirst, WhiteInPause, SweptIsWhite, Sweeping
<1> QED
  BY <1>2, <1>3, <1>4 DEF IInv

(***************************************************************************)
(* What is at rest between two calls of the collector.                     *)
(***************************************************************************)
LEMMA RestsBetweenCalls == RInv /\ call = "none" => AtRest /\ Accessible \subseteq heap
<1> SUFFICES ASSUME RInv, call = "none"
             PROVE  AtRest /\ Accessible \subseteq heap
  OBVIOUS
<1> USE NodesAssumption DEF RInv, Quiet, IInv
<1>1. heap \subseteq Records
  BY DEF StoreInv, RecordsSound, OnDisk
<1>2. \A n \in heap : color[n] = white
  BY <1>1, RecordsAre DEF SweepInv, WhiteInPause
<1>3. Live = heap
  BY <1>2 DEF Live, IsDead, otherWhite, TypeOK, Whites
<1>4. Accessible \subseteq heap
  BY <1>3, AccessibleLive DEF HeapInv
<1> QED
  BY <1>1, <1>2, <1>3, <1>4
     DEF AtRest, HeapInv, LiveClosed, Closed, RefsSound, MarkInv

(***************************************************************************)
(* A record that was just put into memory has no pointer yet.              *)
(***************************************************************************)
LEMMA NewHasNoRefs == ASSUME IInv, NEW n \in Node \ heap PROVE refs[n] = {}
BY DEF IInv, HeapInv, RefsSound

(***************************************************************************)
(* A step of the client that leaves the collector at rest.                 *)
(***************************************************************************)
LEMMA FindRests ==
  ASSUME RInv, call = "none", NEW o \in OnDisk, Find(o)
  PROVE  AtRest'
BY RestsBetweenCalls DEF Find, gcvars, AtRest, TypeOK, Rooted, StrsNotGrey

(***************************************************************************)
(* smrec_set, which stores a pointer and runs no barrier.                  *)
(***************************************************************************)
LEMMA SetRests ==
  ASSUME RInv, call = "none", NEW r \in Records \cap Accessible,
         NEW v \in (Records \cap Accessible) \cup {Nil}, Set(r, v)
  PROVE  AtRest'
<1>1. {v} \ {Nil} \subseteq heap /\ r \in heap
  BY RestsBetweenCalls, RecordsAre
<1>2. TypeOK'
  BY <1>1, RestsBetweenCalls DEF Set, gcvars, AtRest, TypeOK
<1> QED
  BY <1>1, <1>2, RestsBetweenCalls DEF Set, gcvars, AtRest, TypeOK, Rooted, StrsNotGrey, Node

(***************************************************************************)
(* smrec_sync of a reference, which unpacks the record that is named when  *)
(* it is not in memory.                                                    *)
(***************************************************************************)
LEMMA FollowRests ==
  ASSUME RInv, call = "none", NEW r \in Records \cap Accessible, Follow(r)
  PROVE  /\ AtRest'
         /\ r \in heap /\ rid[r] \in OnDisk
<1>1. r \in heap /\ AtRest
  BY RestsBetweenCalls
<1>2. rid[r] \in OnDisk /\ rid[r] \in Records /\ r \in OnDisk
  BY <1>1 DEF Follow, RInv, StoreInv, RecordsSound, Targets, OnDisk
<1>3. color[r] = white /\ white \in Whites
  BY <1>1 DEF AtRest, TypeOK
<1> DEFINE v == rid[r]
           color0 == IF v \in heap THEN color ELSE [color EXCEPT ![v] = white]
<1>4. color0[r] = white /\ white # "black"
  BY <1>1, <1>2, <1>3 DEF AtRest, TypeOK, Node, Whites
<1>5. color' = color0 /\ UNCHANGED <<grey0, call>>
  BY <1>4 DEF Follow
<1>6. /\ heap' = heap \cup {v} /\ refs' = [refs EXCEPT ![r] = {v}]
      /\ fresh' = fresh \cup {v} /\ UNCHANGED <<state, white, roots, grey1, limit>>
      /\ ahead' \subseteq ahead \cup {v} /\ ahead' \subseteq heap' \ Strs
  BY <1>1, <1>2, RecordsAre DEF Follow, AtRest, TypeOK
<1>7. TypeOK'
  BY <1>1, <1>2, <1>3, <1>5, <1>6, RecordsAre DEF AtRest, TypeOK, Node, Calls, States
<1>8. \A n \in heap' : color'[n] = white
  BY <1>1, <1>2, <1>3, <1>5, <1>6, RecordsAre DEF AtRest, TypeOK
<1>9. v \notin heap => refs[v] = {}
  BY <1>1, <1>2, RecordsAre DEF AtRest
<1>10. \A n \in heap' : refs'[n] \subseteq heap'
  BY <1>1, <1>2, <1>6, <1>9 DEF AtRest, TypeOK, Node
<1>11. \A n \in Node \ heap' : refs'[n] = {}
  BY <1>1, <1>2, <1>6 DEF AtRest, TypeOK, Node
<1>12. StrsNotGrey'
  BY <1>1, <1>2, <1>3, <1>5, NodesAssumption DEF AtRest, TypeOK, StrsNotGrey, Node, Whites
<1> QED
  BY <1>1, <1>2, <1>5, <1>6, <1>7, <1>8, <1>10, <1>11, <1>12 DEF AtRest, Rooted

(***************************************************************************)
(* Every step keeps the collector's invariant.                             *)
(***************************************************************************)
LEMMA CollectorStep == RInv /\ [FullNext]_rvars => IInv' /\ Quiet'
<1> SUFFICES ASSUME RInv, [FullNext]_rvars
             PROVE  IInv' /\ Quiet'
  OBVIOUS
<1>0. [Next]_vars => IInv'
  BY InvStep DEF RInv
<1>1. ASSUME NEW o \in Records, call = "none", New(o)
      PROVE  IInv' /\ Quiet'
  <2>1. Next
    BY <1>1, RecordsAre DEF Next, Client, Node
  <2> QED
    BY <2>1, <1>0, <1>1 DEF New, RInv, Quiet
<1>2. ASSUME call = "none", AtRest'
      PROVE  IInv' /\ Quiet'
  <2>1. AtRest' => IInv'
    BY RestInv, PTL
  <2> QED
    BY <2>1, <1>2 DEF AtRest, Quiet
<1>3. ASSUME NEW o \in Records \cap Accessible, call = "none", AddRoot(o) \/ DelRoot(o)
      PROVE  IInv' /\ Quiet'
  <2>1. Next
    BY <1>3, RecordsAre DEF Next, Client
  <2> QED
    BY <2>1, <1>0, <1>3 DEF AddRoot, DelRoot, RInv, Quiet
<1>4. CASE RClient
  BY <1>1, <1>2, <1>3, <1>4, FindRests, SetRests, FollowRests
     DEF RClient, AddObject, Unpack, OnDisk
<1>5. CASE Reopen
  <2>1. Next
    BY <1>5 DEF Reopen, Next, Client
  <2> QED
    BY <2>1, <1>0, <1>5 DEF Reopen, Clear, Quiet
<1>6. CASE call = "none" /\ CollectFull
  <2>1. Next
    BY <1>6 DEF Next, Client
  <2> QED
    BY <2>1, <1>0, <1>6 DEF CollectFull, Quiet
<1>7. CASE Step
  <2>1. Next
    BY <1>7 DEF Next
  <2>2. call \in {"drain", "cycle"}
    BY <1>7 DEF RInv, Quiet, Step, InStep, StepPause, StepPropagate, StepPropagateDone,
       StepAtomic, StepSweepStrings, StepSweepObjects, StepSweepHeaders
  <2>3. ASSUME NEW cost, LoopsOn(cost)
        PROVE  Quiet'
    BY <2>2, <2>3 DEF LoopsOn, Quiet
  <2>4. Quiet'
    BY <2>3, <1>7 DEF Step, StepPause, StepPropagate, StepPropagateDone, StepAtomic,
       StepSweepStrings, StepSweepObjects, StepSweepHeaders
  <2> QED
    BY <2>1, <2>4, <1>0
<1>8. CASE UNCHANGED rvars
  BY <1>0, <1>8 DEF rvars, vars, RInv, Quiet
<1> QED
  BY <1>4, <1>5, <1>6, <1>7, <1>8 DEF FullNext

-----------------------------------------------------------------------------
(* The records.                                                            *)

(***************************************************************************)
(* What the collector does to the records: it frees some, and leaves the   *)
(* others their references.                                                *)
(***************************************************************************)
LEMMA StepFreesOnly ==
  ASSUME IInv, Step \/ Clear \/ CollectFull
  PROVE  heap' \subseteq heap /\ \A n \in heap' : refs'[n] = refs[n]
<1> USE DEF IInv, TypeOK
<1>1. ASSUME NEW batch \in SUBSET heap, Sweep(batch)
      PROVE  heap' \subseteq heap /\ \A n \in heap' : refs'[n] = refs[n]
  BY <1>1 DEF Sweep
<1>2. StringBatches \subseteq SUBSET heap
  BY DEF StringBatches
<1>3. Batches(ahead \cap Objs) \cup Batches(ahead \cap Hdrs) \subseteq SUBSET heap
  BY DEF Batches
<1> QED
  BY <1>1, <1>2, <1>3
     DEF Step, Clear, CollectFull, StepPause, StepPropagate, StepPropagateDone, StepAtomic,
         StepSweepStrings, StepSweepObjects, StepSweepHeaders

(***************************************************************************)
(* Records that are freed are written back if they are dirty.              *)
(***************************************************************************)
LEMMA SyncedKeeps ==
  ASSUME RInv, Synced, heap' \subseteq heap, \A n \in heap' : refs'[n] = refs[n]
  PROVE  StoreInv'
<1> USE DEF RInv, StoreInv, RecordsSound, Synced, OnDisk, Targets
<1>1. RecordsSound'
  OBVIOUS
<1>2. CleanAsDisk'
  BY DEF CleanAsDisk
<1>3. UpdatesSurvive'
  BY DEF UpdatesSurvive, CleanAsDisk
<1>4. PointerIsRid'
  BY DEF PointerIsRid
<1> QED
  BY <1>1, <1>2, <1>3, <1>4

(***************************************************************************)
(* A new record is dirty, and no pointer is to it.                         *)
(***************************************************************************)
LEMMA AddObjectKeeps ==
  ASSUME RInv, NEW o \in Records, NEW v \in Targets, AddObject(o, v)
  PROVE  StoreInv'
<1> USE RecordsAre DEF RInv, StoreInv, RecordsSound, AddObject, New, OnDisk, Targets
<1>0. o \notin heap /\ refs[o] = {} /\ refs' = refs /\ v # Unused
  BY NewHasNoRefs, RecordsAre
<1>1. RecordsSound'
  BY <1>0
<1>2. CleanAsDisk'
  BY <1>0 DEF CleanAsDisk
<1>3. UpdatesSurvive'
  BY <1>0 DEF UpdatesSurvive
<1>4. PointerIsRid'
  BY <1>0 DEF PointerIsRid
<1> QED
  BY <1>1, <1>2, <1>3, <1>4

(***************************************************************************)
(* A record read from its slot is as the slot.                             *)
(***************************************************************************)
LEMMA UnpackKeeps ==
  ASSUME RInv, NEW o \in OnDisk, Unpack(o)
  PROVE  StoreInv'
<1> USE DEF RInv, StoreInv, RecordsSound, Unpack, New, OnDisk, Targets
<1>0. o \notin heap /\ refs[o] = {} /\ refs' = refs
  BY NewHasNoRefs, RecordsAre
<1>1. RecordsSound'
  BY <1>0
<1>2. CleanAsDisk'
  BY <1>0 DEF CleanAsDisk
<1>3. UpdatesSurvive'
  BY <1>0 DEF UpdatesSurvive
<1>4. PointerIsRid'
  BY <1>0 DEF PointerIsRid
<1> QED
  BY <1>1, <1>2, <1>3, <1>4

(***************************************************************************)
(* The record that a reference is followed to is the one it names.         *)
(***************************************************************************)
LEMMA FollowKeeps ==
  ASSUME RInv, call = "none", NEW r \in Records \cap Accessible, Follow(r)
  PROVE  StoreInv'
<1> DEFINE v == rid[r]
<1>0. /\ r \in heap /\ v \in OnDisk /\ v \in Records
      /\ heap' = heap \cup {v} /\ refs' = [refs EXCEPT ![r] = {v}]
      /\ rid' = IF v \in heap THEN rid ELSE [rid EXCEPT ![v] = disk[v]]
      /\ UNCHANGED <<disk, dirty, wrote>>
  BY FollowRests DEF Follow, OnDisk
<1>1. v \notin heap => refs[v] = {} /\ v # r
  BY <1>0, NewHasNoRefs, RecordsAre DEF RInv
<1>2. refs \in [Node -> SUBSET Node] /\ Records \subseteq Node
  BY RecordsAre DEF RInv, IInv, TypeOK
<1> HIDE DEF v
<1> USE DEF RInv, StoreInv, RecordsSound, OnDisk, Targets
<1>3. rid'[r] = v
  BY <1>0, <1>1 DEF v
<1>4. RecordsSound'
  BY <1>0
<1>5. CleanAsDisk'
  BY <1>0 DEF CleanAsDisk
<1>6. UpdatesSurvive'
  BY <1>0 DEF UpdatesSurvive
<1>7. PointerIsRid'
  BY <1>0, <1>1, <1>2, <1>3 DEF PointerIsRid
<1> QED
  BY <1>4, <1>5, <1>6, <1>7

(***************************************************************************)
(* A field that is set makes its record dirty, and its pointer is dropped  *)
(* or to the record it now names.                                          *)
(***************************************************************************)
LEMMA SetKeeps ==
  ASSUME RInv, call = "none", NEW r \in Records \cap Accessible,
         NEW v \in (Records \cap Accessible) \cup {Nil}, Set(r, v)
  PROVE  StoreInv'
<1>0. r \in heap /\ (v \in heap \/ v = Nil)
  BY RestsBetweenCalls
<1>1. refs \in [Node -> SUBSET Node] /\ Records \subseteq Node
  BY RecordsAre DEF RInv, IInv, TypeOK
<1> USE RecordsAre DEF RInv, StoreInv, RecordsSound, OnDisk, Targets, Set
<1>2. RecordsSound'
  BY <1>0
<1>3. CleanAsDisk'
  BY <1>0 DEF CleanAsDisk
<1>4. UpdatesSurvive'
  BY <1>0 DEF UpdatesSurvive
<1>5. PointerIsRid'
  BY <1>0, <1>1 DEF PointerIsRid
<1> QED
  BY <1>2, <1>3, <1>4, <1>5

(***************************************************************************)
(* Every step of the client and of the collector keeps the invariant.      *)
(***************************************************************************)
LEMMA StoreStep == RInv /\ [FullNext]_rvars => RInv'
<1> SUFFICES ASSUME RInv, [FullNext]_rvars
             PROVE  StoreInv'
  BY CollectorStep DEF RInv
<1>1. ASSUME UNCHANGED <<heap, refs, disk, rid, dirty, wrote>>
      PROVE  StoreInv'
  BY <1>1 DEF RInv, StoreInv, RecordsSound, CleanAsDisk, UpdatesSurvive, PointerIsRid,
     OnDisk, Targets
<1>2. CASE RClient
  BY <1>1, <1>2, AddObjectKeeps, UnpackKeeps, FollowKeeps, SetKeeps
     DEF RClient, Find, AddRoot, DelRoot
<1>3. CASE (Step \/ Clear \/ CollectFull) /\ Synced
  BY <1>3, StepFreesOnly, SyncedKeeps DEF RInv
<1>4. CASE UNCHANGED rvars
  BY <1>1, <1>4 DEF rvars, vars
<1> QED
  BY <1>2, <1>3, <1>4 DEF FullNext, Reopen

(***************************************************************************)
(* Every state of a store whose client runs full collections satisfies the *)
(* invariant.                                                              *)
(***************************************************************************)
THEOREM RecordsInvariant == FullSpec => []RInv
<1>1. RInit => RInv
  <2> SUFFICES ASSUME RInit
               PROVE  RInv
    OBVIOUS
  <2>1. AtRest
    BY NodesAssumption
       DEF RInit, Init, AtRest, TypeOK, Rooted, StrsNotGrey, Node, Whites, States, Calls
  <2>2. StoreInv
    BY DEF RInit, Init, StoreInv, RecordsSound, CleanAsDisk, UpdatesSurvive, PointerIsRid,
       OnDisk, Targets
  <2> QED
    BY <2>1, <2>2, RestInv DEF RInv, Quiet, AtRest
<1> QED
  BY <1>1, StoreStep, PTL DEF FullSpec

-----------------------------------------------------------------------------
(* What follows of the records.                                            *)

(***************************************************************************)
(* What the client gave a field last is in memory or in the slot, through  *)
(* any sequence of set, free, unpack and close.                            *)
(***************************************************************************)
THEOREM NoUpdateIsLost == FullSpec => []UpdatesSurvive
<1>1. RInv => UpdatesSurvive
  BY DEF RInv, StoreInv
<1> QED
  BY <1>1, RecordsInvariant, PTL

(***************************************************************************)
(* A reference that was followed points to the record it names.            *)
(***************************************************************************)
THEOREM PointersAreRids == FullSpec => []PointerIsRid
<1>1. RInv => PointerIsRid
  BY DEF RInv, StoreInv
<1> QED
  BY <1>1, RecordsInvariant, PTL

(***************************************************************************)
(* No record in use is freed, though smrec_set stores without a barrier,   *)
(* as long as only full collections run.                                   *)
(***************************************************************************)
THEOREM NoRecordInUseIsFreed == FullSpec => []NoDangling
<1>1. RInv => NoDangling
  BY AccessibleLive DEF RInv, IInv, HeapInv, NoDangling, Live
<1> QED
  BY <1>1, RecordsInvariant, PTL

=============================================================================

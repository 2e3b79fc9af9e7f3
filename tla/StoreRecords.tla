---------------------------- MODULE StoreRecords ----------------------------
(***************************************************************************)
(* The records of src/src/store/store.c as objects of the collector of     *)
(* module Gc: a record is unpacked on demand, is found by its id while it  *)
(* is in memory (the trie s->i2r), and is written back when the collector  *)
(* frees it.                                                               *)
(*                                                                         *)
(* An id is an object of Gc which has a gc_propagate, and i2r holds the    *)
(* ids that are in heap.  A record has one field, of kind SKIND_ODREF: the *)
(* id of another record (rid), which becomes a pointer (refs) when the     *)
(* reference is followed.                                                  *)
(* Classes, other fields and the pages of the slots are left out.          *)
(***************************************************************************)
EXTENDS Gc

CONSTANT Nil  \* SRID_NIL

Unused == "unused"

\* smrec_vtable has a gc_propagate.
Records == Propagates

ASSUME RecordsAssumption == Nil \notin Objs /\ Unused \notin Objs \cup {Nil}

VARIABLES
  disk,   \* the field in the record's slot
  rid,    \* the field's rid in the unpacked record
  dirty,  \* unpacked records without SMREC_FLAG_SYNC
  wrote   \* what the client last gave the field; Unused: there is no such record

rvars == <<vars, disk, rid, dirty, wrote>>

OnDisk  == {o \in Records : wrote[o] # Unused}
Targets == OnDisk \cup {Nil}

RInit ==
  /\ Init
  /\ disk = [o \in Records |-> Nil]
  /\ rid = [o \in Records |-> Nil]
  /\ dirty = {}
  /\ wrote = [o \in Records |-> Unused]

-----------------------------------------------------------------------------
(* The client.                                                             *)

\* store_add_object: a new id, written to its slot and unpacked.
AddObject(o, v) ==
  /\ o \notin OnDisk
  /\ v \in Targets
  /\ New(o)
  /\ disk' = [disk EXCEPT ![o] = v]
  /\ rid' = [rid EXCEPT ![o] = v]
  /\ wrote' = [wrote EXCEPT ![o] = v]
  /\ UNCHANGED dirty

\* store_get_object of an id that is not in i2r: smrec_init unpacks the slot.
Unpack(o) ==
  /\ o \in OnDisk
  /\ New(o)
  /\ rid' = [rid EXCEPT ![o] = disk[o]]
  /\ UNCHANGED <<disk, dirty, wrote>>

\* store_get_object of an id in i2r: the record, whatever its colour.
Find(o) ==
  /\ o \in heap
  /\ fresh' = fresh \cup {o}
  /\ UNCHANGED <<gcvars, heap, refs, roots, call, limit, disk, rid, dirty, wrote>>

\* smrec_get of the field, with store_follow_ref: the record is unpacked if it
\* is not in i2r, and gc_barrier follows.
Follow(r) ==
  LET v       == rid[r]
      color0  == IF v \in heap THEN color ELSE [color EXCEPT ![v] = white]
      barrier == color0[v] \in Whites /\ color0[r] = "black"
  IN
  /\ v # Nil
  /\ refs[r] = {}
  /\ heap' = heap \cup {v}
  /\ refs' = [refs EXCEPT ![r] = {v}]
  /\ fresh' = fresh \cup {v}
  /\ ahead' = IF v \notin heap /\ CursorAtHead(v) THEN ahead \cup {v} ELSE ahead
  /\ rid' = IF v \in heap THEN rid ELSE [rid EXCEPT ![v] = disk[v]]
  /\ CASE ~barrier ->
            color' = color0 /\ UNCHANGED <<grey0, call>>
       [] barrier /\ color0[v] = otherWhite ->
            color' = color0 /\ call' = "aborted" /\ UNCHANGED grey0
       [] barrier /\ color0[v] = white /\ Marking ->
            /\ color' = [color0 EXCEPT ![v] = MarkColor(v)]
            /\ grey0' = grey0 \cup ({v} \cap Propagates)
            /\ UNCHANGED call
       [] OTHER ->
            color' = [color0 EXCEPT ![r] = white] /\ UNCHANGED <<grey0, call>>
  /\ UNCHANGED <<state, white, roots, grey1, limit, disk, dirty, wrote>>

\* Mutants of Set: the flag stays, or the pointer stays when the field becomes nil.
SetStaysClean(r, v) ==
  /\ rid' = [rid EXCEPT ![r] = v]
  /\ refs' = [refs EXCEPT ![r] = {v} \ {Nil}]
  /\ wrote' = [wrote EXCEPT ![r] = v]
  /\ UNCHANGED <<gcvars, heap, roots, fresh, call, limit, disk, dirty>>

SetKeepsPointer(r, v) ==
  /\ rid' = [rid EXCEPT ![r] = v]
  /\ refs' = [refs EXCEPT ![r] = IF v = Nil THEN @ ELSE {v}]
  /\ dirty' = dirty \cup {r}
  /\ wrote' = [wrote EXCEPT ![r] = v]
  /\ UNCHANGED <<gcvars, heap, roots, fresh, call, limit, disk>>

\* smrec_set of the field: no barrier.
Set(r, v) ==
  /\ rid' = [rid EXCEPT ![r] = v]
  /\ refs' = [refs EXCEPT ![r] = {v} \ {Nil}]
  /\ dirty' = dirty \cup {r}
  /\ wrote' = [wrote EXCEPT ![r] = v]
  /\ UNCHANGED <<gcvars, heap, roots, fresh, call, limit, disk>>

-----------------------------------------------------------------------------
(* The collector.                                                          *)

\* smrec_clear of the records that are freed: smrec_sync, and out of i2r.
Synced ==
  LET gone == heap \ heap' IN
  /\ disk' = [o \in Records |-> IF o \in gone \cap dirty THEN rid[o] ELSE disk[o]]
  /\ dirty' = dirty \ gone
  /\ UNCHANGED <<rid, wrote>>

RClient ==
  /\ call = "none"
  /\ \/ \E o \in Records, v \in Targets : AddObject(o, v)
     \/ \E o \in OnDisk : Unpack(o) \/ Find(o)
     \/ \E r \in Records \cap Accessible : Follow(r)
     \/ \E r \in Records \cap Accessible, v \in (Records \cap Accessible) \cup {Nil} : Set(r, v)
     \/ /\ \E o \in Records \cap Accessible : AddRoot(o) \/ DelRoot(o)
        /\ UNCHANGED <<disk, rid, dirty, wrote>>

\* The store is closed and opened again: store_clear frees every record.
Reopen == call = "none" /\ Clear /\ Synced

\* A client that runs full collections only, as the tests do.
FullNext ==
  \/ RClient
  \/ Reopen
  \/ call = "none" /\ CollectFull /\ Synced
  \/ Step /\ Synced

FullSpec == RInit /\ [][FullNext]_rvars

\* A client that collects incrementally.
IncrNext ==
  \/ RClient
  \/ Reopen
  \/ Collect /\ Synced
  \/ Step /\ Synced

IncrSpec == RInit /\ [][IncrNext]_rvars

-----------------------------------------------------------------------------
(* Properties.                                                             *)

\* No update is lost, however often the collector frees the record and the
\* client unpacks it again: what the client gave the field last is in memory
\* or else in the slot (smrec_set, smrec_sync, smrec_clear, smrec_init).
UpdatesSurvive ==
  \A o \in OnDisk : wrote[o] = IF o \in heap THEN rid[o] ELSE disk[o]

\* The pointer that a followed reference holds is to the record it names.
PointerIsRid == \A r \in heap : refs[r] \subseteq {rid[r]}

\* gc_barrier_oh (gc.c:565) asserts !is_dead of the record that store_follow_ref
\* found: the assertion never stops the program.
BarrierAssert == call # "aborted"

=============================================================================

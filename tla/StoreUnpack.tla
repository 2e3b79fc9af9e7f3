---------------------------- MODULE StoreUnpack -----------------------------
(***************************************************************************)
(* How src/src/store/store.c unpacks classes and records: store_get_class  *)
(* and store_get_object call each other, over a cache of mapped pages that *)
(* may drop a page at each call, and register what they unpack in i2r.     *)
(* Every id has its slot in the file already; of a record's fields the one *)
(* of kind SKIND_OBJECT is kept.  The collector is what its full form is   *)
(* to a client: it clears what cannot be reached, the newest first.        *)
(***************************************************************************)
EXTENDS Reachability, FiniteSetsExt, Functions, SequencesExt

CONSTANTS
  Classes,    \* ids of classes
  Records,    \* ids of records
  Nil,        \* SRID_NIL
  PageOf,     \* the page of an id
  ClassOf,    \* the class of a record
  Meta,       \* the meta record of a class, or Nil
  FieldRefs,  \* what the fields of a class refer to: their classes and metas
  LivePages,  \* STORE_LIVEPAGES
  MaxDepth    \* bound: nested calls; one more is taken for endless recursion

Ids == Classes \cup Records

ASSUME UnpackAssumption ==
  /\ Classes \cap Records = {} /\ Nil \notin Ids
  /\ PageOf \in [Ids -> Nat] /\ ClassOf \in [Records -> Classes]
  /\ Meta \in [Classes -> Records \cup {Nil}] /\ FieldRefs \in [Classes -> Seq(Ids)]
  /\ LivePages \in Nat \ {0} /\ MaxDepth \in Nat \ {0}

VARIABLES
  maps,    \* mapped pages, with spmap_t's ref
  i2r,     \* registered ids
  chain,   \* what is unpacked, the newest first
  ref,     \* the field of an unpacked record
  disk,    \* the field in its slot
  dirty,   \* records without SMREC_FLAG_SYNC
  frames,  \* the calls in progress: [id, pc, k, held]
  doomed,  \* what the collection in progress has still to clear
  younger, \* records whose field was set to a newer record
  spoiled, \* classes that were registered when reading them failed
  fault    \* what the program has run into, after which it does nothing defined

vars == <<maps, i2r, chain, ref, disk, dirty, frames, doomed, younger, spoiled, fault>>

Unpacked == Range(chain)

Init ==
  /\ maps = <<>>
  /\ i2r = {} /\ chain = <<>>
  /\ ref = [r \in Records |-> Nil] /\ disk = [r \in Records |-> Nil]
  /\ dirty = {} /\ doomed = {} /\ younger = {} /\ spoiled = {}
  /\ frames = <<>>
  /\ fault = "none"

Quiet == frames = <<>> /\ doomed = {} /\ fault = "none"

-----------------------------------------------------------------------------
(* The page cache.                                                         *)

\* spman_load drops a map only while nobody but the cache refers to it.
Evictable == {p \in DOMAIN maps : maps[p] = 1}

\* What spman_load may drop to make room for p; which one is left open.
Drops(p) ==
  IF p \in DOMAIN maps \/ Cardinality(DOMAIN maps) < LivePages \/ Evictable = {}
    THEN {{}} ELSE {{q} : q \in Evictable}

\* spman_get of a slot in p; a map that is dropped is gone for all that point to it.
Loaded(p, drop) == [q \in (DOMAIN maps \ drop) \cup {p} |-> IF q \in DOMAIN maps THEN maps[q] ELSE 1]
Without(fs, drop) ==
  [i \in 1 .. Len(fs) |-> IF PageOf[fs[i].id] \in drop THEN [fs[i] EXCEPT !.held = FALSE] ELSE fs[i]]

-----------------------------------------------------------------------------
(* store_get_class and store_get_object of an id that is not in i2r.       *)

Top == Last(frames)
Calling(id) == [id |-> id, pc |-> "slot", k |-> 1, held |-> FALSE]

\* What is asked for before the page is pinned, and while the slot is read.
Before(id) ==
  IF id \in Records THEN <<ClassOf[id]>> ELSE IF Meta[id] = Nil THEN <<>> ELSE <<Meta[id]>>
Inside(id) ==
  IF id \in Classes THEN FieldRefs[id] ELSE IF disk[id] = Nil THEN <<>> ELSE <<disk[id]>>
Wants(f) == IF f.pc = "before" THEN Before(f.id) ELSE Inside(f.id)

\* The calls that read a slot, with its page pinned.
Reading == {i \in 1 .. Len(frames) : frames[i].pc = "inside"}

Waiting == frames # <<>> /\ fault = "none" /\ Top.pc # "slot" /\ Top.k <= Len(Wants(Top))
Ready(pc) == frames # <<>> /\ fault = "none" /\ Top.pc = pc /\ Top.k > Len(Wants(Top))

\* The client asks for an id. What is left in i2r of a class that could not be
\* read is freed memory.
Get(id) ==
  /\ Quiet
  /\ IF id \in i2r
     THEN /\ id \notin Unpacked
          /\ fault' = "freed" /\ UNCHANGED frames
     ELSE frames' = <<Calling(id)>> /\ UNCHANGED fault
  /\ UNCHANGED <<maps, i2r, chain, ref, disk, dirty, doomed, younger, spoiled>>

\* spman_get.
Slot ==
  /\ frames # <<>> /\ fault = "none" /\ Top.pc = "slot"
  /\ \E drop \in Drops(PageOf[Top.id]) :
       /\ maps' = Loaded(PageOf[Top.id], drop)
       /\ frames' = Append(Without(Front(frames), drop), [Top EXCEPT !.pc = "before", !.held = TRUE])
  /\ UNCHANGED <<i2r, chain, ref, disk, dirty, doomed, younger, spoiled, fault>>

\* The next id that is needed is found in i2r, or unpacked first.
Want ==
  /\ Waiting
  /\ LET id == Wants(Top)[Top.k]
         on == Append(Front(frames), [Top EXCEPT !.k = @ + 1])
         there == id \in Unpacked \/ \E i \in Reading : frames[i].id = id
     IN CASE id \in i2r /\ there -> frames' = on /\ UNCHANGED fault
          [] id \in i2r /\ ~there -> fault' = "freed" /\ UNCHANGED frames
          [] id \notin i2r /\ Len(frames) = MaxDepth -> fault' = "endless" /\ UNCHANGED frames
          [] OTHER -> frames' = Append(on, Calling(id)) /\ UNCHANGED fault
  /\ UNCHANGED <<maps, i2r, chain, ref, disk, dirty, doomed, younger, spoiled>>

\* Mutant of Registered: a class is registered when it is read, like a record.
RegisteredLate(id) == {}

\* sclass_init registers the class before it looks at its fields.
Registered(id) == {id} \cap Classes

\* spman_ref and gc_new. The page may be gone; a record may be read by a class of
\* which only the first fields are there.
Pin ==
  /\ Ready("before")
  /\ Registered(Top.id) \cap i2r = {}
  /\ CASE ~Top.held ->
            fault' = "dropped" /\ UNCHANGED <<maps, frames, i2r>>
       [] Top.held /\ Top.id \in Records /\ ClassOf[Top.id] \notin Unpacked ->
            fault' = "half" /\ UNCHANGED <<maps, frames, i2r>>
       [] OTHER ->
            /\ maps' = [maps EXCEPT ![PageOf[Top.id]] = @ + 1]
            /\ frames' = Append(Front(frames), [Top EXCEPT !.pc = "inside", !.k = 1])
            /\ i2r' = i2r \cup Registered(Top.id)
            /\ UNCHANGED fault
  /\ UNCHANGED <<chain, ref, disk, dirty, doomed, younger, spoiled>>

\* The object is linked, and a record registered; spman_unref.
Done ==
  /\ Ready("inside")
  /\ Top.id \in Records => Top.id \notin i2r
  /\ i2r' = i2r \cup {Top.id}
  /\ chain' = <<Top.id>> \o chain
  /\ ref' = IF Top.id \in Records THEN [ref EXCEPT ![Top.id] = disk[Top.id]] ELSE ref
  /\ maps' = [maps EXCEPT ![PageOf[Top.id]] = @ - 1]
  /\ frames' = Front(frames)
  /\ UNCHANGED <<disk, dirty, doomed, younger, spoiled, fault>>

\* Mutant of Released: the error path forgets spman_unref.
ReleasedNone(drop) == Restrict(maps, DOMAIN maps \ drop)

\* The calls in progress give back their pins.
Released(drop) ==
  [p \in DOMAIN maps \ drop |-> maps[p] - Cardinality({i \in Reading : PageOf[frames[i].id] = p})]

\* A system call, malloc or srid_insert fails, and with it every call in progress.
\* What is complete stays; i2r keeps the classes that were being read, which are
\* freed.
Fail ==
  /\ frames # <<>> /\ fault = "none" /\ ~Waiting
  /\ Top.pc # "slot" => Top.held
  /\ \E drop \in (IF Top.pc = "slot" THEN Drops(PageOf[Top.id]) ELSE {{}}) : maps' = Released(drop)
  /\ spoiled' = spoiled \cup ({frames[i].id : i \in Reading} \cap Classes)
  /\ frames' = <<>>
  /\ UNCHANGED <<i2r, chain, ref, disk, dirty, doomed, younger, fault>>

-----------------------------------------------------------------------------
(* The client sets fields, and collects.                                   *)

\* v was unpacked after r.
Newer(v, r) == \E i, j \in 1 .. Len(chain) : i < j /\ chain[i] = v /\ chain[j] = r

\* smrec_set of the field.
Set(r, v) ==
  /\ Quiet
  /\ r \in Unpacked
  /\ ref' = [ref EXCEPT ![r] = v]
  /\ dirty' = dirty \cup {r}
  /\ younger' = IF Newer(v, r) THEN younger \cup {r} ELSE younger \ {r}
  /\ UNCHANGED <<maps, i2r, chain, disk, frames, doomed, spoiled, fault>>

\* smrec_set of another field.
Touch(r) ==
  /\ Quiet
  /\ r \in Unpacked
  /\ dirty' = dirty \cup {r}
  /\ UNCHANGED <<maps, i2r, chain, ref, disk, frames, doomed, younger, spoiled, fault>>

\* sclass_propagate marks metas and not the classes of fields; smrec_propagate
\* marks the class and the field.
Marks(id) ==
  IF id \in Classes THEN ({Meta[id]} \cup Range(FieldRefs[id])) \cap Records
                     ELSE {ClassOf[id], ref[id]} \ {Nil}

\* gc_collect in full, when the client holds on to keep.
Collect(keep) ==
  /\ Quiet
  /\ doomed' = Unpacked \ ReachableFrom(keep, [id \in Unpacked |-> Marks(id)])
  /\ doomed' # {}
  /\ UNCHANGED <<maps, i2r, chain, ref, disk, dirty, frames, younger, spoiled, fault>>

\* Mutant of NextDoomed: the oldest comes first.
NextDoomedOldest(i) == chain[i] \in doomed /\ \A j \in i + 1 .. Len(chain) : chain[j] \notin doomed

\* The chain is swept from its head.
NextDoomed(i) == chain[i] \in doomed /\ \A j \in 1 .. i - 1 : chain[j] \notin doomed

\* Mutant of Unregistered: classes are not deleted from i2r.
UnregisteredRecords(id) == i2r \ ({id} \cap Records)

Unregistered(id) == i2r \ {id}

\* The sweep clears one: smrec_clear with smrec_sync, or sclass_clear. The id of a
\* record that is freed already may be read as anything.
ClearNext(i) ==
  LET id == chain[i]
  IN /\ NextDoomed(i) /\ fault = "none"
     /\ IF id \in dirty
        THEN /\ \E drop \in Drops(PageOf[id]) : maps' = Loaded(PageOf[id], drop)
             /\ \E v \in IF ref[id] \in Unpacked \cup {Nil} THEN {ref[id]} ELSE Records \cup {Nil} :
                  disk' = [disk EXCEPT ![id] = v]
        ELSE UNCHANGED <<maps, disk>>
     /\ chain' = RemoveAt(chain, i)
     /\ i2r' = Unregistered(id)
     /\ ref' = IF id \in Records THEN [ref EXCEPT ![id] = Nil] ELSE ref
     /\ dirty' = dirty \ {id}
     /\ younger' = younger \ {id}
     /\ doomed' = doomed \ {id}
     /\ UNCHANGED <<frames, spoiled, fault>>

Next ==
  \/ \E id \in Ids : Get(id)
  \/ Slot \/ Want \/ Pin \/ Done \/ Fail
  \/ \E r \in Records, v \in (Records \cap Unpacked) \cup {Nil} : Set(r, v)
  \/ \E r \in Records : Touch(r)
  \/ \E keep \in SUBSET Unpacked : Collect(keep)
  \/ \E i \in 1 .. Len(chain) : ClearNext(i)

Spec == Init /\ [][Next]_vars

-----------------------------------------------------------------------------
(* Properties.                                                             *)

\* A pin is what keeps a page: while a slot is read its page is mapped, whatever is
\* loaded meanwhile; and each pin is given back, also when calls fail.
PinsHold ==
  /\ \A i \in Reading : frames[i].held
  /\ \A p \in DOMAIN maps : maps[p] = 1 + Cardinality({i \in Reading : PageOf[frames[i].id] = p})

\* Nothing is unpacked twice, and i2r has exactly what is in memory, a class from the time
\* it is being read; but it keeps a class that could not be read (sclass_init).
IdsTrue ==
  /\ chain \in Seq(Ids) /\ IsInjective(chain)
  /\ i2r = Unpacked \cup ({frames[i].id : i \in Reading} \cap Classes) \cup spoiled
  /\ younger \subseteq dirty /\ dirty \subseteq Unpacked \cap Records /\ doomed \subseteq Unpacked

\* Ids that lead from one to others: what unpacking id needs.
Needs(id, fields) ==
  (IF id \in Records THEN {ClassOf[id], disk[id]}
   ELSE {Meta[id]} \cup (IF fields THEN Range(FieldRefs[id]) ELSE {})) \ {Nil}
Loops(fields) ==
  LET needs == [id \in Ids |-> Needs(id, fields)]
  IN \E id \in Ids : id \in ReachableFrom(needs[id], needs)

\* A bound on the calls that only calls without end reach: an id is called for once
\* more for each class that is read between.
Deep == IsFiniteSet(Ids) /\ MaxDepth >= Cardinality(Ids) * (Cardinality(Classes) + 1)

\* Unpacking ends, and reads no record by half a class, unless the records in the file
\* lead back to themselves; classes that lead back to themselves by their fields
\* do no harm ("register cid here to make recursive definitions work").
RecursionEnds ==
  /\ fault = "endless" => Loops(FALSE)
  /\ fault = "half" => Loops(TRUE)

\* The sweep writes a record back before it frees the record that its field refers to,
\* unless the client had set the field to a newer one.
SavedInTime ==
  [][\A r \in dirty : r \notin Range(chain') /\ r \notin younger => disk'[r] = ref[r]]_vars

=============================================================================

-------------------------- MODULE StoreUnpackProofs --------------------------
(***************************************************************************)
(* Proofs about how classes and records are unpacked (module StoreUnpack), *)
(* for every set of classes and records, every depth of calls, and a page  *)
(* cache of any size: a page whose slot is read stays mapped, and every    *)
(* pin is given back, also when a call fails; i2r has what is in memory;   *)
(* the sweep writes a record back before what it refers to is freed; and   *)
(* calls end unless the records in the file lead back to themselves.       *)
(***************************************************************************)
EXTENDS StoreUnpack, BasicProofs, FiniteSetTheorems, SequenceTheorems

-----------------------------------------------------------------------------
(* The inductive invariant.                                                *)

Frame == [id : Ids, pc : {"slot", "before", "inside"}, k : Nat \ {0}, held : BOOLEAN]

\* The calls among fs that have page p pinned.
Pinned(fs, p) == {i \in 1 .. Len(fs) : fs[i].pc = "inside" /\ PageOf[fs[i].id] = p}

\* A call that reads its slot holds it, what is held is mapped, and a map is
\* referred to by the cache and by the calls that have it pinned.
PinsSound(fs, ms) ==
  /\ \A i \in 1 .. Len(fs) : fs[i].pc = "inside" => fs[i].held
  /\ \A i \in 1 .. Len(fs) : fs[i].held => PageOf[fs[i].id] \in DOMAIN ms
  /\ \A p \in DOMAIN ms : ms[p] = 1 + Cardinality(Pinned(fs, p))

\* What is in a field, and nothing is swept while a call is in progress.
Fields ==
  /\ disk \in [Records -> Records \cup {Nil}]
  /\ ref \in [Records -> Records \cup {Nil}]
  /\ dirty \subseteq Records
  /\ doomed = {} \/ frames = <<>>

UInv == frames \in Seq(Frame) /\ PinsSound(frames, maps) /\ Fields

-----------------------------------------------------------------------------
(* The stack of calls.                                                     *)

(***************************************************************************)
(* A stack that is not empty is a smaller one with a call on top.          *)
(***************************************************************************)
LEMMA FrontAndTop ==
  ASSUME NEW fs \in Seq(Frame), fs # <<>>
  PROVE  /\ Len(fs) \in Nat \ {0}
         /\ Front(fs) \in Seq(Frame) /\ Len(Front(fs)) = Len(fs) - 1
         /\ \A i \in 1 .. Len(fs) - 1 : Front(fs)[i] = fs[i]
         /\ Last(fs) \in Frame /\ Last(fs) = fs[Len(fs)]
<1>1. Len(fs) \in Nat \ {0}
  BY LenProperties, EmptySeq
<1>2. \A i \in 1 .. Len(fs) : fs[i] \in Frame
  BY ElementOfSeq
<1>3. /\ SubSeq(fs, 1, Len(fs) - 1) \in Seq(Frame)
      /\ Len(SubSeq(fs, 1, Len(fs) - 1)) = Len(fs) - 1
      /\ \A i \in 1 .. Len(fs) - 1 : SubSeq(fs, 1, Len(fs) - 1)[i] = fs[i]
  <2> DEFINE m == Len(fs) - 1
  <2>1. m \in Nat /\ \A i \in 1 .. m : fs[i] \in Frame
    BY <1>1, <1>2
  <2> HIDE DEF m
  <2>2. /\ SubSeq(fs, 1, m) \in Seq(Frame)
        /\ Len(SubSeq(fs, 1, m)) = IF 1 <= m THEN m - 1 + 1 ELSE 0
        /\ \A i \in 1 .. m - 1 + 1 : SubSeq(fs, 1, m)[i] = fs[1 + i - 1]
    BY <2>1, SubSeqProperties
  <2>3. /\ SubSeq(fs, 1, m) \in Seq(Frame) /\ Len(SubSeq(fs, 1, m)) = m
        /\ \A i \in 1 .. m : SubSeq(fs, 1, m)[i] = fs[i]
    BY <2>1, <2>2
  <2> QED
    BY <2>3 DEF m
<1> QED
  BY <1>1, <1>2, <1>3 DEF Front, Last

(***************************************************************************)
(* There are finitely many calls.                                          *)
(***************************************************************************)
LEMMA PinnedFinite ==
  ASSUME NEW fs \in Seq(Frame), NEW p
  PROVE  IsFiniteSet(Pinned(fs, p)) /\ Cardinality(Pinned(fs, p)) \in Nat
<1>1. Len(fs) \in Nat
  BY LenProperties
<1>2. IsFiniteSet(1 .. Len(fs))
  BY <1>1, FS_Interval
<1>3. Pinned(fs, p) \in SUBSET (1 .. Len(fs))
  BY DEF Pinned
<1>4. IsFiniteSet(Pinned(fs, p))
  BY <1>2, <1>3, FS_Subset
<1> QED
  BY <1>4, FS_CardinalityType

(***************************************************************************)
(* A call that is pushed pins its page if it reads its slot.               *)
(***************************************************************************)
LEMMA PinnedPush ==
  ASSUME NEW fs \in Seq(Frame), NEW f \in Frame, NEW p
  PROVE  Cardinality(Pinned(Append(fs, f), p)) =
           Cardinality(Pinned(fs, p)) + (IF f.pc = "inside" /\ PageOf[f.id] = p THEN 1 ELSE 0)
<1> DEFINE gs == Append(fs, f)
           n  == Len(fs)
<1>1. n \in Nat /\ Len(gs) = n + 1 /\ gs[n + 1] = f /\ \A i \in 1 .. n : gs[i] = fs[i]
  BY AppendProperties, LenProperties
<1> HIDE DEF gs
<1>2. CASE f.pc = "inside" /\ PageOf[f.id] = p
  <2>1. Pinned(gs, p) = Pinned(fs, p) \cup {n + 1}
    BY <1>1, <1>2 DEF Pinned
  <2>2. n + 1 \notin Pinned(fs, p)
    BY <1>1 DEF Pinned
  <2> QED
    BY <2>1, <2>2, <1>2, PinnedFinite, FS_AddElement DEF gs
<1>3. CASE ~(f.pc = "inside" /\ PageOf[f.id] = p)
  <2>1. Pinned(gs, p) = Pinned(fs, p)
    BY <1>1, <1>3 DEF Pinned
  <2> QED
    BY <2>1, <1>3, PinnedFinite DEF gs
<1> QED
  BY <1>2, <1>3

(***************************************************************************)
(* And gives the pin back when it returns.                                 *)
(***************************************************************************)
LEMMA PinnedPop ==
  ASSUME NEW fs \in Seq(Frame), fs # <<>>, NEW p
  PROVE  Cardinality(Pinned(Front(fs), p)) =
           Cardinality(Pinned(fs, p))
             - (IF Last(fs).pc = "inside" /\ PageOf[Last(fs).id] = p THEN 1 ELSE 0)
<1> DEFINE n == Len(fs)
           f == Last(fs)
<1>1. /\ n \in Nat \ {0} /\ Front(fs) \in Seq(Frame) /\ Len(Front(fs)) = n - 1
      /\ \A i \in 1 .. n - 1 : Front(fs)[i] = fs[i]
      /\ f = fs[n]
  BY FrontAndTop
<1> HIDE DEF f
<1>2. CASE f.pc = "inside" /\ PageOf[f.id] = p
  <2>1. Pinned(Front(fs), p) = Pinned(fs, p) \ {n}
    BY <1>1 DEF Pinned
  <2>2. n \in Pinned(fs, p)
    BY <1>1, <1>2 DEF Pinned
  <2>3. IsFiniteSet(Pinned(fs, p))
    BY PinnedFinite
  <2>4. Cardinality(Pinned(fs, p) \ {n}) = Cardinality(Pinned(fs, p)) - 1
    BY <2>2, <2>3, FS_RemoveElement
  <2> QED
    BY <2>1, <2>4, <1>2 DEF f
<1>3. CASE ~(f.pc = "inside" /\ PageOf[f.id] = p)
  <2>1. Pinned(Front(fs), p) = Pinned(fs, p)
    BY <1>1, <1>3 DEF Pinned
  <2> QED
    BY <2>1, <1>3, PinnedFinite DEF f
<1> QED
  BY <1>2, <1>3

(***************************************************************************)
(* A call may be pushed if what it holds is mapped; it adds to the         *)
(* references to its page if it reads its slot.                            *)
(***************************************************************************)
LEMMA PushSound ==
  ASSUME NEW fs \in Seq(Frame), NEW ms, PinsSound(fs, ms), NEW f \in Frame,
         f.pc = "inside" => f.held,
         f.held => PageOf[f.id] \in DOMAIN ms,
         NEW ms2, DOMAIN ms2 = DOMAIN ms,
         \A p \in DOMAIN ms :
           ms2[p] = ms[p] + (IF f.pc = "inside" /\ PageOf[f.id] = p THEN 1 ELSE 0)
  PROVE  Append(fs, f) \in Seq(Frame) /\ PinsSound(Append(fs, f), ms2)
<1> DEFINE gs == Append(fs, f)
           n  == Len(fs)
<1>1. /\ gs \in Seq(Frame)
      /\ n \in Nat /\ Len(gs) = n + 1 /\ gs[n + 1] = f /\ \A i \in 1 .. n : gs[i] = fs[i]
  BY AppendProperties, LenProperties
<1>2. ASSUME NEW p \in DOMAIN ms2
      PROVE  ms2[p] = 1 + Cardinality(Pinned(gs, p))
  <2>1. ms[p] = 1 + Cardinality(Pinned(fs, p)) /\ Cardinality(Pinned(fs, p)) \in Nat
    BY PinnedFinite DEF PinsSound
  <2> QED
    BY <2>1, PinnedPush
<1> HIDE DEF gs
<1>3. ASSUME NEW i \in 1 .. Len(gs)
      PROVE  /\ gs[i].pc = "inside" => gs[i].held
             /\ gs[i].held => PageOf[gs[i].id] \in DOMAIN ms2
  <2>1. CASE i = n + 1
    BY <2>1, <1>1
  <2>2. CASE i \in 1 .. n
    BY <2>2, <1>1 DEF PinsSound
  <2> QED
    BY <2>1, <2>2, <1>1
<1> QED
  BY <1>1, <1>2, <1>3 DEF PinsSound, gs

(***************************************************************************)
(* A call returns, and takes its reference to its page away.               *)
(***************************************************************************)
LEMMA PopSound ==
  ASSUME NEW fs \in Seq(Frame), fs # <<>>, NEW ms, PinsSound(fs, ms),
         NEW ms2, DOMAIN ms2 = DOMAIN ms,
         \A p \in DOMAIN ms :
           ms2[p] = ms[p] - (IF Last(fs).pc = "inside" /\ PageOf[Last(fs).id] = p THEN 1 ELSE 0)
  PROVE  Front(fs) \in Seq(Frame) /\ PinsSound(Front(fs), ms2)
<1> DEFINE n == Len(fs)
<1>1. /\ n \in Nat \ {0} /\ Front(fs) \in Seq(Frame) /\ Len(Front(fs)) = n - 1
      /\ \A i \in 1 .. n - 1 : Front(fs)[i] = fs[i]
  BY FrontAndTop
<1>2. ASSUME NEW p \in DOMAIN ms2
      PROVE  ms2[p] = 1 + Cardinality(Pinned(Front(fs), p))
  <2>1. ms[p] = 1 + Cardinality(Pinned(fs, p)) /\ Cardinality(Pinned(fs, p)) \in Nat
    BY PinnedFinite DEF PinsSound
  <2> QED
    BY <2>1, PinnedPop
<1>3. ASSUME NEW i \in 1 .. Len(Front(fs))
      PROVE  /\ Front(fs)[i].pc = "inside" => Front(fs)[i].held
             /\ Front(fs)[i].held => PageOf[Front(fs)[i].id] \in DOMAIN ms2
  <2>1. i \in 1 .. n /\ Front(fs)[i] = fs[i]
    BY <1>1
  <2> QED
    BY <2>1 DEF PinsSound
<1> QED
  BY <1>1, <1>2, <1>3 DEF PinsSound

(***************************************************************************)
(* The call on top goes on without a change to what it holds or pins.      *)
(***************************************************************************)
LEMMA TopGoesOn ==
  ASSUME NEW fs \in Seq(Frame), fs # <<>>, NEW ms, PinsSound(fs, ms), NEW f \in Frame,
         f.id = Last(fs).id, f.pc = Last(fs).pc, f.held = Last(fs).held
  PROVE  Append(Front(fs), f) \in Seq(Frame) /\ PinsSound(Append(Front(fs), f), ms)
<1> DEFINE gs == Append(Front(fs), f)
           n  == Len(fs)
<1>1. /\ n \in Nat \ {0} /\ Front(fs) \in Seq(Frame) /\ Len(Front(fs)) = n - 1
      /\ \A i \in 1 .. n - 1 : Front(fs)[i] = fs[i]
      /\ Last(fs) = fs[n]
  BY FrontAndTop
<1>2. /\ gs \in Seq(Frame) /\ Len(gs) = n /\ gs[n] = f
      /\ \A i \in 1 .. n - 1 : gs[i] = fs[i]
  <2>1. /\ gs \in Seq(Frame) /\ Len(gs) = n - 1 + 1 /\ gs[n - 1 + 1] = f
        /\ \A i \in 1 .. n - 1 : gs[i] = Front(fs)[i]
    BY <1>1, AppendProperties
  <2> QED
    BY <2>1, <1>1
<1> HIDE DEF gs
<1>3. ASSUME NEW i \in 1 .. n
      PROVE  gs[i].id = fs[i].id /\ gs[i].pc = fs[i].pc /\ gs[i].held = fs[i].held
  BY <1>1, <1>2
<1>4. \A p : Pinned(gs, p) = Pinned(fs, p)
  BY <1>2, <1>3 DEF Pinned
<1> QED
  BY <1>2, <1>3, <1>4 DEF PinsSound, gs

-----------------------------------------------------------------------------
(* The page cache.                                                         *)

(***************************************************************************)
(* spman_get drops no page that a call reads, and the page it maps has no  *)
(* reference but the cache's own.                                          *)
(***************************************************************************)
LEMMA LoadSound ==
  ASSUME NEW fs \in Seq(Frame), PinsSound(fs, maps), NEW p, NEW drop \in Drops(p)
  PROVE  /\ Without(fs, drop) \in Seq(Frame)
         /\ PinsSound(Without(fs, drop), Loaded(p, drop))
         /\ p \in DOMAIN Loaded(p, drop)
<1> DEFINE gs == Without(fs, drop)
           ms == Loaded(p, drop)
<1>1. Len(fs) \in Nat /\ \A i \in 1 .. Len(fs) : fs[i] \in Frame
  BY LenProperties, ElementOfSeq
<1>2. \A i \in 1 .. Len(fs) :
        LET g == IF PageOf[fs[i].id] \in drop THEN [fs[i] EXCEPT !.held = FALSE] ELSE fs[i]
        IN  /\ g \in Frame /\ g.id = fs[i].id /\ g.pc = fs[i].pc
            /\ IF PageOf[fs[i].id] \in drop THEN ~g.held ELSE g = fs[i]
  BY <1>1 DEF Frame
<1>3. /\ gs \in Seq(Frame) /\ Len(gs) = Len(fs)
      /\ \A i \in 1 .. Len(fs) :
           /\ gs[i].id = fs[i].id /\ gs[i].pc = fs[i].pc
           /\ IF PageOf[fs[i].id] \in drop THEN ~gs[i].held ELSE gs[i] = fs[i]
  <2>1. gs \in Seq(Frame) /\ Len(gs) = Len(fs)
    BY <1>1, <1>2, IsASeq, LenProperties DEF Without
  <2> QED
    BY <2>1, <1>1, <1>2 DEF Without
<1>4. ASSUME NEW q \in drop
      PROVE  q \in DOMAIN maps /\ maps[q] = 1 /\ p \notin DOMAIN maps
  BY DEF Drops, Evictable
<1>5. \A q : Pinned(gs, q) = Pinned(fs, q)
  BY <1>3 DEF Pinned
<1>6. \A q \in drop : Pinned(fs, q) = {}
  <2> SUFFICES ASSUME NEW q \in drop
               PROVE  Pinned(fs, q) = {}
    OBVIOUS
  <2>1. maps[q] = 1 + Cardinality(Pinned(fs, q)) /\ maps[q] = 1
    BY <1>4 DEF PinsSound
  <2>2. Cardinality(Pinned(fs, q)) = 0 /\ IsFiniteSet(Pinned(fs, q))
    BY <2>1, PinnedFinite
  <2> QED
    BY <2>2, FS_EmptySet
<1>7. p \notin DOMAIN maps => Pinned(fs, p) = {}
  BY DEF PinsSound, Pinned
<1>8. /\ DOMAIN ms = (DOMAIN maps \ drop) \cup {p}
      /\ \A q \in DOMAIN ms : ms[q] = IF q \in DOMAIN maps THEN maps[q] ELSE 1
  BY DEF Loaded
<1> HIDE DEF gs, ms
<1>9. ASSUME NEW i \in 1 .. Len(gs)
      PROVE  /\ gs[i].pc = "inside" => gs[i].held
             /\ gs[i].held => PageOf[gs[i].id] \in DOMAIN ms
  <2>1. i \in 1 .. Len(fs)
    BY <1>3
  <2>2. CASE PageOf[fs[i].id] \in drop
    <3>1. fs[i].pc # "inside"
      BY <2>1, <2>2, <1>6 DEF Pinned
    <3> QED
      BY <2>1, <2>2, <3>1, <1>3
  <2>3. CASE PageOf[fs[i].id] \notin drop
    BY <2>1, <2>3, <1>3, <1>8 DEF PinsSound
  <2> QED
    BY <2>2, <2>3
<1>10. ASSUME NEW q \in DOMAIN ms
       PROVE  ms[q] = 1 + Cardinality(Pinned(gs, q))
  <2>1. CASE q \in DOMAIN maps
    BY <2>1, <1>5, <1>8 DEF PinsSound
  <2>2. CASE q \notin DOMAIN maps
    <3>1. q = p /\ Pinned(gs, q) = {} /\ ms[q] = 1
      BY <2>2, <1>5, <1>7, <1>8
    <3> QED
      BY <3>1, FS_EmptySet
  <2> QED
    BY <2>1, <2>2
<1> QED
  BY <1>3, <1>8, <1>9, <1>10 DEF PinsSound, gs, ms

-----------------------------------------------------------------------------
(* The steps.                                                              *)

(***************************************************************************)
(* A call that reads no slot may come and go.                              *)
(***************************************************************************)
LEMMA IdleCalls ==
  ASSUME NEW fs \in Seq(Frame), NEW ms, PinsSound(fs, ms)
  PROVE  /\ \A f \in Frame : f.pc # "inside" /\ (f.held => PageOf[f.id] \in DOMAIN ms) =>
              Append(fs, f) \in Seq(Frame) /\ PinsSound(Append(fs, f), ms)
         /\ fs # <<>> /\ Last(fs).pc # "inside" =>
              Front(fs) \in Seq(Frame) /\ PinsSound(Front(fs), ms)
<1>1. \A p \in DOMAIN ms : ms[p] = ms[p] + 0 /\ ms[p] = ms[p] - 0
  <2> SUFFICES ASSUME NEW p \in DOMAIN ms
               PROVE  ms[p] = ms[p] + 0 /\ ms[p] = ms[p] - 0
    OBVIOUS
  <2>1. ms[p] = 1 + Cardinality(Pinned(fs, p)) /\ Cardinality(Pinned(fs, p)) \in Nat
    BY PinnedFinite DEF PinsSound
  <2> QED
    BY <2>1
<1>2. ASSUME NEW f \in Frame, f.pc # "inside", f.held => PageOf[f.id] \in DOMAIN ms
      PROVE  Append(fs, f) \in Seq(Frame) /\ PinsSound(Append(fs, f), ms)
  <2>1. \A p \in DOMAIN ms :
          ms[p] = ms[p] + (IF f.pc = "inside" /\ PageOf[f.id] = p THEN 1 ELSE 0)
    BY <1>1, <1>2
  <2> QED
    BY <2>1, <1>2, PushSound
<1>3. ASSUME fs # <<>>, Last(fs).pc # "inside"
      PROVE  Front(fs) \in Seq(Frame) /\ PinsSound(Front(fs), ms)
  <2>1. \A p \in DOMAIN ms :
          ms[p] = ms[p] - (IF Last(fs).pc = "inside" /\ PageOf[Last(fs).id] = p THEN 1 ELSE 0)
    BY <1>1, <1>3
  <2> QED
    BY <2>1, <1>3, PopSound
<1> QED
  BY <1>2, <1>3

(***************************************************************************)
(* No call in progress has nothing pinned.                                 *)
(***************************************************************************)
LEMMA NoCalls ==
  /\ <<>> \in Seq(Frame)
  /\ \A ms : PinsSound(<<>>, ms) <=> \A p \in DOMAIN ms : ms[p] = 1
<1>1. <<>> \in Seq(Frame) /\ Len(<<>>) = 0
  BY EmptySeq
<1>2. \A p : Pinned(<<>>, p) = {}
  BY <1>1 DEF Pinned
<1>3. \A p : 1 + Cardinality(Pinned(<<>>, p)) = 1
  BY <1>2, FS_EmptySet
<1>4. 1 .. Len(<<>>) = {}
  BY <1>1
<1> QED
  BY <1>1, <1>3, <1>4 DEF PinsSound

(***************************************************************************)
(* A call to unpack an id begins with nothing held.                        *)
(***************************************************************************)
LEMMA CallingFrame ==
  ASSUME NEW id \in Ids
  PROVE  Calling(id) \in Frame /\ Calling(id).pc = "slot" /\ ~Calling(id).held
BY DEF Calling, Frame

(***************************************************************************)
(* The client asks for an id.                                              *)
(***************************************************************************)
LEMMA GetStep ==
  ASSUME UInv, NEW id \in Ids, Get(id)
  PROVE  UInv'
<1>1. UNCHANGED <<maps, disk, ref, dirty, doomed>> /\ doomed = {} /\ frames = <<>>
  BY DEF Get, Quiet
<1>2. Fields'
  BY <1>1 DEF UInv, Fields
<1>3. CASE frames' = frames
  BY <1>1, <1>2, <1>3 DEF UInv, PinsSound, Pinned
<1>4. CASE frames' = <<Calling(id)>>
  <2>1. frames' = Append(frames, Calling(id))
    BY <1>1, <1>4
  <2>2. frames' \in Seq(Frame) /\ PinsSound(frames', maps)
    BY <2>1, CallingFrame, IdleCalls DEF UInv
  <2> QED
    BY <2>2, <1>1, <1>2 DEF UInv
<1> QED
  BY <1>3, <1>4 DEF Get

(***************************************************************************)
(* spman_get of the slot.                                                  *)
(***************************************************************************)
LEMMA SlotStep == UInv /\ Slot => UInv'
<1> SUFFICES ASSUME UInv, Slot
             PROVE  UInv'
  OBVIOUS
<1> DEFINE p == PageOf[Top.id]
           f == [Top EXCEPT !.pc = "before", !.held = TRUE]
<1>1. /\ frames # <<>> /\ Last(frames).pc = "slot" /\ UNCHANGED <<disk, ref, dirty, doomed>>
  BY DEF Slot, Top
<1>2. PICK drop \in Drops(p) :
        maps' = Loaded(p, drop) /\ frames' = Append(Without(Front(frames), drop), f)
  BY DEF Slot
<1>3. Front(frames) \in Seq(Frame) /\ PinsSound(Front(frames), maps)
  BY <1>1, IdleCalls DEF UInv
<1>4. /\ Without(Front(frames), drop) \in Seq(Frame)
      /\ PinsSound(Without(Front(frames), drop), maps')
      /\ p \in DOMAIN maps'
  BY <1>2, <1>3, LoadSound
<1>5. f \in Frame /\ f.pc # "inside" /\ PageOf[f.id] = p
  <2>1. Top \in Frame
    BY <1>1, FrontAndTop DEF UInv, Top
  <2> QED
    BY <2>1 DEF Frame
<1> HIDE DEF f
<1>6. frames' \in Seq(Frame) /\ PinsSound(frames', maps')
  BY <1>2, <1>4, <1>5, IdleCalls
<1>7. Fields'
  BY <1>1 DEF UInv, Fields
<1> QED
  BY <1>6, <1>7 DEF UInv

(***************************************************************************)
(* What a call asks for is an id.                                          *)
(***************************************************************************)
LEMMA WantsIds ==
  ASSUME Fields, NEW f \in Frame, NEW k \in Nat \ {0}, k <= Len(Wants(f))
  PROVE  Wants(f)[k] \in Ids
<1>1. f.id \in Ids /\ Ids = Classes \cup Records
  BY DEF Frame, Ids
<1>2. CASE f.pc = "before"
  <2>1. Wants(f) = Before(f.id)
    BY <1>2 DEF Wants
  <2>2. CASE f.id \in Records
    <3>1. Before(f.id) = <<ClassOf[f.id]>> /\ ClassOf[f.id] \in Ids
      BY <2>2, UnpackAssumption DEF Before, Ids
    <3> QED
      BY <2>1, <3>1
  <2>3. CASE f.id \notin Records
    <3>1. Meta[f.id] \in Records \cup {Nil}
      BY <2>3, <1>1, UnpackAssumption
    <3>2. Before(f.id) = IF Meta[f.id] = Nil THEN <<>> ELSE <<Meta[f.id]>>
      BY <2>3 DEF Before
    <3>3. Meta[f.id] # Nil /\ Before(f.id) = <<Meta[f.id]>>
      BY <2>1, <3>2
    <3> QED
      BY <2>1, <3>1, <3>3 DEF Ids
  <2> QED
    BY <2>2, <2>3
<1>3. CASE f.pc # "before"
  <2>1. Wants(f) = Inside(f.id)
    BY <1>3 DEF Wants
  <2>2. CASE f.id \in Classes
    <3>1. Inside(f.id) = FieldRefs[f.id] /\ FieldRefs[f.id] \in Seq(Ids)
      BY <2>2, UnpackAssumption DEF Inside
    <3> QED
      BY <2>1, <3>1, ElementOfSeq, LenProperties
  <2>3. CASE f.id \notin Classes
    <3>1. disk[f.id] \in Records \cup {Nil}
      BY <2>3, <1>1 DEF Fields
    <3>2. Inside(f.id) = IF disk[f.id] = Nil THEN <<>> ELSE <<disk[f.id]>>
      BY <2>3 DEF Inside
    <3>3. disk[f.id] # Nil /\ Inside(f.id) = <<disk[f.id]>>
      BY <2>1, <3>2
    <3> QED
      BY <2>1, <3>1, <3>3 DEF Ids
  <2> QED
    BY <2>2, <2>3
<1> QED
  BY <1>2, <1>3

(***************************************************************************)
(* The next id is there, or the call for it begins.                        *)
(***************************************************************************)
LEMMA WantStep == UInv /\ Want => UInv'
<1> SUFFICES ASSUME UInv, Want
             PROVE  UInv'
  OBVIOUS
<1> DEFINE id == Wants(Top)[Top.k]
           f  == [Top EXCEPT !.k = @ + 1]
           on == Append(Front(frames), f)
<1>1. /\ frames # <<>> /\ Top.pc # "slot" /\ Top.k <= Len(Wants(Top))
      /\ UNCHANGED <<maps, disk, ref, dirty, doomed>>
  BY DEF Want, Waiting
<1>2. frames' \in {frames, on, Append(on, Calling(id))}
  BY DEF Want
<1>3. Top \in Frame /\ Top = Last(frames)
  BY <1>1, FrontAndTop DEF UInv, Top
<1>4. f \in Frame /\ f.id = Top.id /\ f.pc = Top.pc /\ f.held = Top.held
  BY <1>3 DEF Frame
<1> HIDE DEF f
<1>5. on \in Seq(Frame) /\ PinsSound(on, maps)
  BY <1>1, <1>3, <1>4, TopGoesOn DEF UInv
<1>6. Fields'
  BY <1>1 DEF UInv, Fields
<1>7. CASE frames' = frames
  BY <1>1, <1>6, <1>7 DEF UInv, PinsSound, Pinned
<1>8. CASE frames' = on
  BY <1>1, <1>5, <1>6, <1>8 DEF UInv
<1>9. CASE frames' = Append(on, Calling(id)) /\ frames' # on
  <2>1. Top.k \in Nat \ {0}
    BY <1>3 DEF Frame
  <2>2. id \in Ids
    BY <2>1, <1>1, <1>3, WantsIds DEF UInv
  <2>3. frames' \in Seq(Frame) /\ PinsSound(frames', maps)
    BY <2>2, <1>5, <1>9, CallingFrame, IdleCalls
  <2> QED
    BY <2>3, <1>1, <1>6 DEF UInv
<1> QED
  BY <1>2, <1>7, <1>8, <1>9

(***************************************************************************)
(* spman_ref: the page is held, and so it is mapped.                       *)
(***************************************************************************)
LEMMA PinStep == UInv /\ Pin => UInv'
<1> SUFFICES ASSUME UInv, Pin
             PROVE  UInv'
  OBVIOUS
<1> DEFINE p == PageOf[Top.id]
           f == [Top EXCEPT !.pc = "inside", !.k = 1]
<1>1. frames # <<>> /\ Top.pc = "before" /\ UNCHANGED <<disk, ref, dirty, doomed>>
  BY DEF Pin, Ready
<1>2. Fields'
  BY <1>1 DEF UInv, Fields
<1>3. CASE UNCHANGED <<maps, frames>>
  BY <1>2, <1>3 DEF UInv, PinsSound, Pinned
<1>4. CASE /\ Top.held
           /\ maps' = [maps EXCEPT ![p] = @ + 1]
           /\ frames' = Append(Front(frames), f)
  <2>1. Top \in Frame /\ Top = Last(frames) /\ Top = frames[Len(frames)] /\ Len(frames) \in 1 .. Len(frames)
    BY <1>1, FrontAndTop DEF UInv, Top
  <2>2. p \in DOMAIN maps
    BY <2>1, <1>4 DEF UInv, PinsSound
  <2>3. f \in Frame /\ f.pc = "inside" /\ f.held = Top.held /\ f.id = Top.id
    <3> DEFINE g == [Top EXCEPT !.pc = "inside"]
    <3>1. g \in Frame /\ g.pc = "inside" /\ g.held = Top.held /\ g.id = Top.id
      BY <2>1 DEF Frame
    <3>2. f = [g EXCEPT !.k = 1]
      BY <2>1 DEF Frame
    <3> HIDE DEF f, g
    <3> QED
      BY <3>1, <3>2 DEF Frame
  <2>4. Front(frames) \in Seq(Frame) /\ PinsSound(Front(frames), maps)
    BY <2>1, <1>1, IdleCalls DEF UInv
  <2>5. DOMAIN maps' = DOMAIN maps
    BY <1>4
  <2>6. \A q \in DOMAIN maps :
          maps'[q] = maps[q] + (IF f.pc = "inside" /\ PageOf[f.id] = q THEN 1 ELSE 0)
    <3> SUFFICES ASSUME NEW q \in DOMAIN maps
                 PROVE  maps'[q] = maps[q] + (IF PageOf[f.id] = q THEN 1 ELSE 0)
      BY <2>3
    <3>1. maps[q] \in Nat
      <4>1. maps[q] = 1 + Cardinality(Pinned(frames, q)) /\ Cardinality(Pinned(frames, q)) \in Nat
        BY PinnedFinite DEF UInv, PinsSound
      <4> QED
        BY <4>1
    <3>2. CASE p = q
      BY <3>1, <3>2, <2>2, <2>3, <1>4
    <3>3. CASE p # q
      BY <3>1, <3>3, <2>3, <1>4
    <3> QED
      BY <3>2, <3>3
  <2> HIDE DEF f
  <2>7. PageOf[f.id] \in DOMAIN maps
    BY <2>2, <2>3
  <2>8. frames' \in Seq(Frame) /\ PinsSound(frames', maps')
    BY <2>3, <2>4, <2>5, <2>6, <2>7, <1>4, PushSound
  <2> QED
    BY <2>8, <1>2 DEF UInv
<1> QED
  BY <1>3, <1>4 DEF Pin

(***************************************************************************)
(* The object is there; spman_unref.                                       *)
(***************************************************************************)
LEMMA DoneStep == UInv /\ Done => UInv'
<1> SUFFICES ASSUME UInv, Done
             PROVE  UInv'
  OBVIOUS
<1> DEFINE p == PageOf[Top.id]
<1>1. /\ frames # <<>> /\ Top.pc = "inside" /\ UNCHANGED <<disk, dirty, doomed>>
      /\ maps' = [maps EXCEPT ![p] = @ - 1]
      /\ frames' = Front(frames)
      /\ ref' = IF Top.id \in Records THEN [ref EXCEPT ![Top.id] = disk[Top.id]] ELSE ref
  BY DEF Done, Ready
<1>2. Fields'
  <2>1. ref' \in [Records -> Records \cup {Nil}]
    BY <1>1 DEF UInv, Fields
  <2>2. doomed' = {}
    BY <1>1 DEF UInv, Fields
  <2> QED
    BY <2>1, <2>2, <1>1 DEF UInv, Fields
<1>3. Top = Last(frames) /\ Top = frames[Len(frames)] /\ Len(frames) \in 1 .. Len(frames)
  BY <1>1, FrontAndTop DEF UInv, Top
<1>4. p \in DOMAIN maps
  BY <1>1, <1>3 DEF UInv, PinsSound
<1>5. DOMAIN maps' = DOMAIN maps
  BY <1>1
<1>6. \A q \in DOMAIN maps :
        maps'[q] = maps[q] - (IF Last(frames).pc = "inside" /\ PageOf[Last(frames).id] = q THEN 1 ELSE 0)
  <2> SUFFICES ASSUME NEW q \in DOMAIN maps
               PROVE  maps'[q] = maps[q] - (IF p = q THEN 1 ELSE 0)
    BY <1>1, <1>3
  <2>1. maps[q] \in Nat
    <3>1. maps[q] = 1 + Cardinality(Pinned(frames, q)) /\ Cardinality(Pinned(frames, q)) \in Nat
      BY PinnedFinite DEF UInv, PinsSound
    <3> QED
      BY <3>1
  <2>2. CASE p = q
    BY <2>1, <2>2, <1>1, <1>4
  <2>3. CASE p # q
    BY <2>1, <2>3, <1>1
  <2> QED
    BY <2>2, <2>3
<1>7. frames' \in Seq(Frame) /\ PinsSound(frames', maps')
  BY <1>1, <1>5, <1>6, PopSound DEF UInv
<1> QED
  BY <1>2, <1>7 DEF UInv

(***************************************************************************)
(* A call fails, and all of them give back their pins.                     *)
(***************************************************************************)
LEMMA FailStep == UInv /\ Fail => UInv'
<1> SUFFICES ASSUME UInv, Fail
             PROVE  UInv'
  OBVIOUS
<1>1. PICK drop : maps' = Released(drop)
  BY DEF Fail
<1>2. frames' = <<>> /\ UNCHANGED <<disk, ref, dirty, doomed>>
  BY DEF Fail
<1>3. Fields'
  BY <1>2 DEF UInv, Fields
<1>4. \A p \in DOMAIN maps' : maps'[p] = 1
  <2> SUFFICES ASSUME NEW p \in DOMAIN maps'
               PROVE  maps'[p] = 1
    OBVIOUS
  <2>1. {i \in Reading : PageOf[frames[i].id] = p} = Pinned(frames, p)
    BY DEF Reading, Pinned
  <2>2. p \in DOMAIN maps /\ maps'[p] = maps[p] - Cardinality(Pinned(frames, p))
    BY <2>1, <1>1 DEF Released
  <2>3. maps[p] = 1 + Cardinality(Pinned(frames, p)) /\ Cardinality(Pinned(frames, p)) \in Nat
    BY <2>2, PinnedFinite DEF UInv, PinsSound
  <2> QED
    BY <2>2, <2>3
<1>5. frames' \in Seq(Frame) /\ PinsSound(frames', maps')
  BY <1>2, <1>4, NoCalls
<1> QED
  BY <1>3, <1>5 DEF UInv

(***************************************************************************)
(* The client sets fields and begins a collection.                         *)
(***************************************************************************)
LEMMA ClientStep ==
  ASSUME UInv,
         \/ \E r \in Records, v \in (Records \cap Unpacked) \cup {Nil} : Set(r, v)
         \/ \E r \in Records : Touch(r)
         \/ \E keep \in SUBSET Unpacked : Collect(keep)
         \/ UNCHANGED vars
  PROVE  UInv'
<1>1. UNCHANGED <<maps, frames>>
  BY DEF Set, Touch, Collect, vars
<1>2. PinsSound(frames', maps') /\ frames' \in Seq(Frame)
  BY <1>1 DEF UInv
<1>3. Fields'
  <2>1. ASSUME NEW r \in Records, NEW v \in (Records \cap Unpacked) \cup {Nil}, Set(r, v)
        PROVE  Fields'
    BY <2>1 DEF Set, UInv, Fields
  <2>2. ASSUME NEW r \in Records, Touch(r)
        PROVE  Fields'
    BY <2>2 DEF Touch, UInv, Fields
  <2>3. ASSUME NEW keep, Collect(keep)
        PROVE  Fields'
    BY <2>3 DEF Collect, Quiet, UInv, Fields
  <2>4. CASE UNCHANGED vars
    BY <2>4 DEF vars, UInv, Fields
  <2> QED
    BY <2>1, <2>2, <2>3, <2>4
<1> QED
  BY <1>2, <1>3 DEF UInv

(***************************************************************************)
(* The sweep clears one, and maps its page if it is written back.          *)
(***************************************************************************)
LEMMA ClearStep ==
  ASSUME UInv, NEW i \in 1 .. Len(chain), ClearNext(i)
  PROVE  UInv'
<1> DEFINE id == chain[i]
<1>1. frames = <<>> /\ frames' = <<>>
  BY DEF ClearNext, NextDoomed, UInv, Fields
<1>2. \A p \in DOMAIN maps' : maps'[p] = 1
  <2>1. \A p \in DOMAIN maps : maps[p] = 1
    BY <1>1, NoCalls DEF UInv
  <2>2. CASE id \in dirty
    <3>1. PICK drop \in Drops(PageOf[id]) : maps' = Loaded(PageOf[id], drop)
      BY <2>2 DEF ClearNext
    <3> QED
      BY <3>1, <2>1 DEF Loaded
  <2>3. CASE id \notin dirty
    BY <2>1, <2>3 DEF ClearNext
  <2> QED
    BY <2>2, <2>3
<1>3. frames' \in Seq(Frame) /\ PinsSound(frames', maps')
  BY <1>1, <1>2, NoCalls
<1>4. disk' \in [Records -> Records \cup {Nil}]
  <2>1. CASE id \in dirty
    <3>1. PICK v \in IF ref[id] \in Unpacked \cup {Nil} THEN {ref[id]} ELSE Records \cup {Nil} :
                 disk' = [disk EXCEPT ![id] = v]
      BY <2>1 DEF ClearNext
    <3>2. id \in Records /\ ref[id] \in Records \cup {Nil}
      BY <2>1 DEF UInv, Fields
    <3>3. v \in Records \cup {Nil}
      BY <3>1, <3>2
    <3> QED
      BY <3>1, <3>3 DEF UInv, Fields
  <2>2. CASE id \notin dirty
    BY <2>2 DEF ClearNext, UInv, Fields
  <2> QED
    BY <2>1, <2>2
<1>5. ref' \in [Records -> Records \cup {Nil}] /\ dirty' \subseteq Records
  BY DEF ClearNext, UInv, Fields
<1> QED
  BY <1>1, <1>3, <1>4, <1>5 DEF UInv, Fields

(***************************************************************************)
(* In every state the pins are sound.                                      *)
(***************************************************************************)
THEOREM UnpackInvariant == Spec => []UInv
<1>1. Init => UInv
  <2> SUFFICES ASSUME Init
               PROVE  UInv
    OBVIOUS
  <2>1. DOMAIN maps = {} /\ frames = <<>>
    BY EmptySeq DEF Init
  <2>2. frames \in Seq(Frame) /\ PinsSound(frames, maps)
    BY <2>1, NoCalls
  <2> QED
    BY <2>1, <2>2 DEF Init, UInv, Fields
<1>2. UInv /\ [Next]_vars => UInv'
  BY GetStep, SlotStep, WantStep, PinStep, DoneStep, FailStep, ClientStep, ClearStep DEF Next
<1> QED
  BY <1>1, <1>2, PTL DEF Spec

(***************************************************************************)
(* While a slot is read its page is mapped, and every pin is given back,   *)
(* whatever is loaded meanwhile and whatever call fails.                   *)
(***************************************************************************)
THEOREM PinsAlwaysHold == Spec => []PinsHold
<1>1. UInv => PinsHold
  <2> SUFFICES ASSUME UInv
               PROVE  PinsHold
    OBVIOUS
  <2>1. \A p : {i \in Reading : PageOf[frames[i].id] = p} = Pinned(frames, p)
    BY DEF Reading, Pinned
  <2>2. \A i \in Reading : frames[i].held
    BY DEF Reading, UInv, PinsSound
  <2>3. \A p \in DOMAIN maps :
          maps[p] = 1 + Cardinality({i \in Reading : PageOf[frames[i].id] = p})
    BY <2>1 DEF UInv, PinsSound
  <2> QED
    BY <2>2, <2>3 DEF PinsHold
<1> QED
  BY <1>1, UnpackInvariant, PTL

-----------------------------------------------------------------------------
(* What is in i2r, and the order of the chain: the sweep goes from the     *)
(* newest to the oldest.                                                   *)

\* The ids whose slots are being read.
ReadIds(fs) == {fs[i].id : i \in {j \in 1 .. Len(fs) : fs[j].pc = "inside"}}

\* A class is read by one call only, and not while it is in S.
Once(fs, S) ==
  \A i \in 1 .. Len(fs) : fs[i].pc = "inside" /\ fs[i].id \in Classes =>
    /\ fs[i].id \notin S
    /\ \A j \in 1 .. i - 1 : fs[j].pc = "inside" => fs[j].id # fs[i].id

\* The classes that are read and those that could not be read are in i2r, and
\* neither are unpacked.
IdsInv ==
  /\ chain \in Seq(Ids) /\ IsInjective(chain)
  /\ i2r = Unpacked \cup (ReadIds(frames) \cap Classes) \cup spoiled
  /\ spoiled \subseteq Classes /\ spoiled \cap Unpacked = {}
  /\ Once(frames, Unpacked \cup spoiled)
  /\ younger \subseteq dirty /\ dirty \subseteq Unpacked \cap Records /\ doomed \subseteq Unpacked

\* y is x or was unpacked before x.
NotNewer(s, x, y) == \E a, b \in 1 .. Len(s) : a <= b /\ s[a] = x /\ s[b] = y

\* A field refers to what was unpacked before, unless the client set it to a
\* newer record.
FieldsGoBack ==
  \A r \in Unpacked \cap Records : r \notin younger /\ ref[r] # Nil => NotNewer(chain, r, ref[r])

\* What is kept keeps what its field refers to.
KeptKeeps ==
  \A r \in (Unpacked \cap Records) \ doomed : ref[r] \in Unpacked => ref[r] \notin doomed

\* A call that goes on past the field has what the field refers to, or waits for
\* the call that unpacks it.
FieldThere ==
  \A i \in 1 .. Len(frames) :
    LET f == frames[i] IN
    f.pc = "inside" /\ f.id \in Records /\ f.k > 1 /\ disk[f.id] # Nil =>
      \/ disk[f.id] \in Unpacked
      \/ i + 1 \in 1 .. Len(frames) /\ frames[i + 1].id = disk[f.id]

OrderInv == FieldsGoBack /\ KeptKeeps /\ FieldThere

-----------------------------------------------------------------------------
(* The chain.                                                              *)

(***************************************************************************)
(* What the chain holds are its elements.                                  *)
(***************************************************************************)
LEMMA ChainElements ==
  ASSUME NEW s \in Seq(Ids)
  PROVE  /\ DOMAIN s = 1 .. Len(s) /\ Len(s) \in Nat
         /\ \A i \in 1 .. Len(s) : s[i] \in Ids /\ s[i] \in Range(s)
         /\ \A x \in Range(s) : \E i \in 1 .. Len(s) : s[i] = x
<1>1. DOMAIN s = 1 .. Len(s) /\ Len(s) \in Nat
  BY LenProperties
<1>2. \A i \in 1 .. Len(s) : s[i] \in Ids
  BY ElementOfSeq
<1>3. Range(s) = {s[i] : i \in 1 .. Len(s)}
  BY <1>1 DEF Range
<1> QED
  BY <1>1, <1>2, <1>3

(***************************************************************************)
(* A new element comes first; the order of the others stays.               *)
(***************************************************************************)
LEMMA Linked ==
  ASSUME NEW s \in Seq(Ids), IsInjective(s), NEW id \in Ids \ Range(s),
         NEW t, t = <<id>> \o s
  PROVE  /\ t \in Seq(Ids) /\ IsInjective(t) /\ Range(t) = Range(s) \cup {id}
         /\ \A x, y : NotNewer(s, x, y) => NotNewer(t, x, y)
         /\ \A y \in Range(t) : NotNewer(t, id, y)
<1>1. <<id>> \in Seq(Ids) /\ Len(<<id>>) = 1 /\ <<id>>[1] = id
  OBVIOUS
<1>2. /\ t \in Seq(Ids) /\ Len(t) = 1 + Len(s)
      /\ \A i \in 1 .. 1 + Len(s) : t[i] = IF i <= 1 THEN <<id>>[i] ELSE s[i - 1]
  BY <1>1, ConcatProperties
<1>3. DOMAIN t = 1 .. Len(s) + 1 /\ Len(s) \in Nat /\ DOMAIN s = 1 .. Len(s)
  BY <1>2, ChainElements
<1>4. t[1] = id /\ \A i \in 1 .. Len(s) : i + 1 \in 1 .. Len(t) /\ t[i + 1] = s[i]
  BY <1>1, <1>2, <1>3
<1>5. \A i \in 1 .. Len(t) : i = 1 \/ (i - 1 \in 1 .. Len(s) /\ t[i] = s[i - 1])
  BY <1>2, <1>3
<1>6. Range(t) = Range(s) \cup {id}
  <2>1. ASSUME NEW x \in Range(t) PROVE x \in Range(s) \cup {id}
    BY <1>3, <1>4, <1>5, <1>2 DEF Range
  <2>2. ASSUME NEW x \in Range(s) PROVE x \in Range(t)
    <3>1. PICK i \in 1 .. Len(s) : s[i] = x
      BY ChainElements
    <3> QED
      BY <3>1, <1>4, <1>2, ChainElements
  <2>3. id \in Range(t)
    BY <1>3, <1>4 DEF Range
  <2> QED
    BY <2>1, <2>2, <2>3
<1>7. IsInjective(t)
  <2> SUFFICES ASSUME NEW a \in 1 .. Len(t), NEW b \in 1 .. Len(t), t[a] = t[b]
               PROVE  a = b
    BY <1>2, <1>3 DEF IsInjective
  <2>1. \A i \in 1 .. Len(s) : s[i] # id
    BY ChainElements
  <2>2. CASE a = 1 \/ b = 1
    BY <2>1, <2>2, <1>4, <1>5
  <2>3. CASE a # 1 /\ b # 1
    <3>1. a - 1 \in DOMAIN s /\ b - 1 \in DOMAIN s /\ s[a - 1] = s[b - 1]
      BY <2>3, <1>3, <1>5
    <3>2. a - 1 = b - 1
      BY <3>1 DEF IsInjective
    <3> QED
      BY <3>2, <1>2, <1>3
  <2> QED
    BY <2>2, <2>3
<1>8. ASSUME NEW x, NEW y, NotNewer(s, x, y)
      PROVE  NotNewer(t, x, y)
  <2>1. PICK a \in 1 .. Len(s), b \in 1 .. Len(s) : a <= b /\ s[a] = x /\ s[b] = y
    BY <1>8 DEF NotNewer
  <2>2. /\ a + 1 \in 1 .. Len(t) /\ b + 1 \in 1 .. Len(t) /\ a + 1 <= b + 1
        /\ t[a + 1] = x /\ t[b + 1] = y
    BY <2>1, <1>3, <1>4
  <2> QED
    BY <2>2 DEF NotNewer
<1>9. ASSUME NEW y \in Range(t)
      PROVE  NotNewer(t, id, y)
  <2>1. PICK b \in 1 .. Len(t) : t[b] = y
    BY <1>2, ChainElements
  <2>2. 1 \in 1 .. Len(t) /\ 1 <= b
    BY <1>2, <1>3
  <2> QED
    BY <2>1, <2>2, <1>4 DEF NotNewer
<1> QED
  BY <1>2, <1>6, <1>7, <1>8, <1>9

(***************************************************************************)
(* One element is taken out; the order of the others stays.                *)
(***************************************************************************)
LEMMA Unlinked ==
  ASSUME NEW s \in Seq(Ids), IsInjective(s), NEW i \in 1 .. Len(s),
         NEW t, t = RemoveAt(s, i)
  PROVE  /\ t \in Seq(Ids) /\ IsInjective(t) /\ Range(t) = Range(s) \ {s[i]}
         /\ \A x, y : NotNewer(s, x, y) /\ x # s[i] /\ y # s[i] => NotNewer(t, x, y)
<1> DEFINE n == Len(s)
           u == SubSeq(s, 1, i - 1)
           v == SubSeq(s, i + 1, n)
<1>1. n \in Nat /\ i \in Nat /\ i >= 1 /\ i <= n /\ DOMAIN s = 1 .. n /\ \A j \in 1 .. n : s[j] \in Ids
  BY ChainElements
<1>2. u \in Seq(Ids) /\ Len(u) = i - 1 /\ \A j \in 1 .. i - 1 : u[j] = s[j]
  <2>1. /\ u \in Seq(Ids) /\ Len(u) = IF 1 <= i - 1 THEN i - 1 - 1 + 1 ELSE 0
        /\ \A j \in 1 .. i - 1 - 1 + 1 : u[j] = s[1 + j - 1]
    <3>1. 1 \in Int /\ i - 1 \in Int /\ \A j \in 1 .. i - 1 : s[j] \in Ids
      BY <1>1
    <3> QED
      BY <3>1, SubSeqProperties
  <2> QED
    BY <2>1, <1>1
<1>3. v \in Seq(Ids) /\ Len(v) = n - i /\ \A j \in 1 .. n - i : v[j] = s[i + j]
  <2>1. /\ v \in Seq(Ids) /\ Len(v) = IF i + 1 <= n THEN n - (i + 1) + 1 ELSE 0
        /\ \A j \in 1 .. n - (i + 1) + 1 : v[j] = s[i + 1 + j - 1]
    <3>1. i + 1 \in Int /\ n \in Int /\ \A j \in i + 1 .. n : s[j] \in Ids
      BY <1>1
    <3> QED
      BY <3>1, SubSeqProperties
  <2>2. \A j \in 1 .. n - i : j \in 1 .. n - (i + 1) + 1 /\ i + 1 + j - 1 = i + j
    BY <1>1
  <2>3. (IF i + 1 <= n THEN n - (i + 1) + 1 ELSE 0) = n - i
    <3>1. CASE i = n
      BY <3>1, <1>1
    <3>2. CASE i + 1 <= n
      BY <3>2, <1>1
    <3> HIDE DEF n
    <3> QED
      BY <3>1, <3>2, <1>1
  <2> QED
    BY <2>1, <2>2, <2>3
<1>4. t = u \o v
  BY DEF RemoveAt
<1> HIDE DEF u, v
<1>5. /\ t \in Seq(Ids) /\ Len(t) = (i - 1) + (n - i)
      /\ \A j \in 1 .. (i - 1) + (n - i) : t[j] = IF j <= i - 1 THEN u[j] ELSE v[j - (i - 1)]
  <2>1. /\ t \in Seq(Ids) /\ Len(t) = Len(u) + Len(v)
        /\ \A j \in 1 .. Len(u) + Len(v) : t[j] = IF j <= Len(u) THEN u[j] ELSE v[j - Len(u)]
    BY <1>2, <1>3, <1>4, ConcatProperties
  <2> QED
    BY <2>1, <1>2, <1>3
<1>6. Len(t) = n - 1 /\ DOMAIN t = 1 .. n - 1
  BY <1>1, <1>5, ChainElements
<1>7. \A j \in 1 .. n - 1 : /\ j < i => j \in 1 .. n /\ t[j] = s[j]
                            /\ j >= i => j + 1 \in 1 .. n /\ t[j] = s[j + 1]
  <2> SUFFICES ASSUME NEW j \in 1 .. n - 1
               PROVE  /\ j < i => j \in 1 .. n /\ t[j] = s[j]
                      /\ j >= i => j + 1 \in 1 .. n /\ t[j] = s[j + 1]
    OBVIOUS
  <2>1. CASE j < i
    <3>1. j \in 1 .. i - 1 /\ j \in 1 .. (i - 1) + (n - i) /\ j <= i - 1 /\ j \in 1 .. n
      BY <2>1, <1>1
    <3> QED
      BY <3>1, <2>1, <1>2, <1>5
  <2>2. CASE j >= i
    <3>1. /\ j - (i - 1) \in 1 .. n - i /\ j \in 1 .. (i - 1) + (n - i) /\ ~(j <= i - 1)
          /\ i + (j - (i - 1)) = j + 1 /\ j + 1 \in 1 .. n
      BY <2>2, <1>1
    <3> QED
      BY <3>1, <2>2, <1>3, <1>5
  <2> QED
    BY <2>1, <2>2, <1>1
<1>8. \A j \in 1 .. n : j # i => \E k \in 1 .. n - 1 : t[k] = s[j] /\ (j < i => k = j) /\ (j > i => k = j - 1)
  <2> SUFFICES ASSUME NEW j \in 1 .. n, j # i
               PROVE  \E k \in 1 .. n - 1 : t[k] = s[j] /\ (j < i => k = j) /\ (j > i => k = j - 1)
    OBVIOUS
  <2>1. CASE j < i
    <3>1. j \in 1 .. n - 1 /\ ~(j > i)
      BY <2>1, <1>1
    <3> QED
      BY <3>1, <2>1, <1>7
  <2>2. CASE j > i
    <3>1. j - 1 \in 1 .. n - 1 /\ j - 1 >= i /\ (j - 1) + 1 = j /\ ~(j < i)
      BY <2>2, <1>1
    <3> QED
      BY <3>1, <2>2, <1>7
  <2> QED
    BY <2>1, <2>2, <1>1
<1>9. \A j \in 1 .. n : s[j] = s[i] => j = i
  BY <1>1 DEF IsInjective
<1>10. Range(t) = Range(s) \ {s[i]}
  <2>1. ASSUME NEW x \in Range(t) PROVE x \in Range(s) /\ x # s[i]
    <3>1. PICK j \in 1 .. n - 1 : t[j] = x
      BY <1>5, <1>6, ChainElements
    <3>2. PICK k \in 1 .. n : k # i /\ s[k] = x
      BY <3>1, <1>1, <1>7
    <3> QED
      BY <3>2, <1>9, ChainElements
  <2>2. ASSUME NEW x \in Range(s), x # s[i] PROVE x \in Range(t)
    <3>1. PICK j \in 1 .. n : s[j] = x
      BY ChainElements
    <3>2. PICK k \in 1 .. n - 1 : t[k] = x
      BY <3>1, <2>2, <1>8
    <3> QED
      BY <3>2, <1>5, <1>6, ChainElements
  <2> QED
    BY <2>1, <2>2
<1>11. IsInjective(t)
  <2> SUFFICES ASSUME NEW a \in 1 .. n - 1, NEW b \in 1 .. n - 1, t[a] = t[b]
               PROVE  a = b
    BY <1>6 DEF IsInjective
  <2>1. \A c \in 1 .. n, d \in 1 .. n : s[c] = s[d] => c = d
    BY <1>1 DEF IsInjective
  <2>2. CASE a < i /\ b < i
    BY <2>1, <2>2, <1>7
  <2>3. CASE a >= i /\ b >= i
    <3>1. a + 1 = b + 1
      BY <2>1, <2>3, <1>7
    <3> QED
      BY <3>1
  <2>4. CASE a < i /\ b >= i
    BY <2>1, <2>4, <1>7, <1>1
  <2>5. CASE a >= i /\ b < i
    BY <2>1, <2>5, <1>7, <1>1
  <2> QED
    BY <2>2, <2>3, <2>4, <2>5, <1>1
<1>12. ASSUME NEW x, NEW y, NotNewer(s, x, y), x # s[i], y # s[i]
       PROVE  NotNewer(t, x, y)
  <2>1. PICK a \in 1 .. n, b \in 1 .. n : a <= b /\ s[a] = x /\ s[b] = y
    BY <1>12 DEF NotNewer
  <2>2. a # i /\ b # i
    BY <2>1, <1>12
  <2>3. PICK a2 \in 1 .. n - 1 : t[a2] = x /\ (a < i => a2 = a) /\ (a > i => a2 = a - 1)
    BY <2>1, <2>2, <1>8
  <2>4. PICK b2 \in 1 .. n - 1 : t[b2] = y /\ (b < i => b2 = b) /\ (b > i => b2 = b - 1)
    BY <2>1, <2>2, <1>8
  <2>5. a2 <= b2
    BY <2>1, <2>2, <2>3, <2>4, <1>1
  <2> QED
    BY <2>3, <2>4, <2>5, <1>6 DEF NotNewer
<1> QED
  BY <1>5, <1>10, <1>11, <1>12

-----------------------------------------------------------------------------
(* The stack of calls.                                                     *)

\* The calls up to n are the same but for what they hold.
Alike(fs, gs, n) ==
  \A i \in 1 .. n : gs[i].id = fs[i].id /\ gs[i].pc = fs[i].pc /\ gs[i].k = fs[i].k

(***************************************************************************)
(* Calls that read no slot change nothing in what is read.                 *)
(***************************************************************************)
LEMMA SameReads ==
  ASSUME NEW fs, NEW gs, Len(fs) \in Nat, Len(gs) \in Nat, Len(fs) <= Len(gs),
         \A i \in 1 .. Len(fs) :
           gs[i].id = fs[i].id /\ (gs[i].pc = "inside" <=> fs[i].pc = "inside"),
         \A i \in Len(fs) + 1 .. Len(gs) : gs[i].pc # "inside"
  PROVE  /\ ReadIds(gs) = ReadIds(fs)
         /\ \A S : Once(fs, S) => Once(gs, S)
<1>1. \A i \in 1 .. Len(gs) : gs[i].pc = "inside" =>
        i \in 1 .. Len(fs) /\ gs[i].id = fs[i].id /\ fs[i].pc = "inside"
  OBVIOUS
<1>2. \A i \in 1 .. Len(fs) : fs[i].pc = "inside" =>
        i \in 1 .. Len(gs) /\ gs[i].id = fs[i].id /\ gs[i].pc = "inside"
  OBVIOUS
<1>3. ReadIds(gs) \subseteq ReadIds(fs)
  BY <1>1 DEF ReadIds
<1>4. ReadIds(fs) \subseteq ReadIds(gs)
  BY <1>2 DEF ReadIds
<1>5. ASSUME NEW S, Once(fs, S)
      PROVE  Once(gs, S)
  <2> SUFFICES ASSUME NEW i \in 1 .. Len(gs), gs[i].pc = "inside", gs[i].id \in Classes
               PROVE  /\ gs[i].id \notin S
                      /\ \A j \in 1 .. i - 1 : gs[j].pc = "inside" => gs[j].id # gs[i].id
    BY DEF Once
  <2>1. i \in 1 .. Len(fs) /\ gs[i].id = fs[i].id /\ fs[i].pc = "inside"
    BY <1>1
  <2>2. fs[i].id \notin S /\ \A j \in 1 .. i - 1 : fs[j].pc = "inside" => fs[j].id # fs[i].id
    BY <2>1, <1>5 DEF Once
  <2>3. \A j \in 1 .. i - 1 : j \in 1 .. Len(fs)
    BY <2>1
  <2> QED
    BY <2>1, <2>2, <2>3
<1> QED
  BY <1>3, <1>4, <1>5

(***************************************************************************)
(* The call on top begins to read.                                         *)
(***************************************************************************)
LEMMA ReadsOneMore ==
  ASSUME NEW fs, NEW gs, NEW n \in Nat \ {0}, Len(fs) = n, Len(gs) = n, Alike(fs, gs, n - 1),
         fs[n].pc # "inside", gs[n].pc = "inside", gs[n].id = fs[n].id
  PROVE  /\ ReadIds(gs) = ReadIds(fs) \cup {fs[n].id}
         /\ \A S : /\ Once(fs, S)
                   /\ fs[n].id \in Classes => fs[n].id \notin S \cup ReadIds(fs)
                   => Once(gs, S)
<1>1. \A i \in 1 .. n : gs[i].pc = "inside" =>
        gs[i].id = fs[i].id /\ (i = n \/ (i \in 1 .. n - 1 /\ fs[i].pc = "inside"))
  BY DEF Alike
<1>2. \A i \in 1 .. n : fs[i].pc = "inside" => i \in 1 .. n - 1 /\ gs[i].id = fs[i].id /\ gs[i].pc = "inside"
  BY DEF Alike
<1>3. ReadIds(gs) \subseteq ReadIds(fs) \cup {fs[n].id}
  BY <1>1 DEF ReadIds
<1>4. ReadIds(fs) \subseteq ReadIds(gs)
  BY <1>2 DEF ReadIds
<1>5. fs[n].id \in ReadIds(gs)
  BY DEF ReadIds
<1>6. ASSUME NEW S, Once(fs, S), fs[n].id \in Classes => fs[n].id \notin S \cup ReadIds(fs)
      PROVE  Once(gs, S)
  <2> SUFFICES ASSUME NEW i \in 1 .. n, gs[i].pc = "inside", gs[i].id \in Classes
               PROVE  /\ gs[i].id \notin S
                      /\ \A j \in 1 .. i - 1 : gs[j].pc = "inside" => gs[j].id # gs[i].id
    BY DEF Once
  <2>1. gs[i].id = fs[i].id
    BY <1>1
  <2>2. \A j \in 1 .. i - 1 : gs[j].pc = "inside" => j \in 1 .. n /\ gs[j].id = fs[j].id /\ fs[j].pc = "inside"
    BY <1>1
  <2>3. CASE i = n
    <3>1. \A j \in 1 .. i - 1 : gs[j].pc = "inside" => gs[j].id \in ReadIds(fs)
      BY <2>2 DEF ReadIds
    <3> QED
      BY <3>1, <2>1, <2>3, <1>6
  <2>4. CASE i # n
    <3>1. i \in 1 .. n - 1 /\ fs[i].pc = "inside"
      BY <2>4, <1>1
    <3>2. fs[i].id \notin S /\ \A j \in 1 .. i - 1 : fs[j].pc = "inside" => fs[j].id # fs[i].id
      BY <3>1, <2>1, <1>6 DEF Once
    <3> QED
      BY <3>2, <2>1, <2>2
  <2> QED
    BY <2>3, <2>4
<1> QED
  BY <1>3, <1>4, <1>5, <1>6

(***************************************************************************)
(* The call on top has read its slot and returns.                          *)
(***************************************************************************)
LEMMA ReadsOneLess ==
  ASSUME NEW fs, NEW gs, NEW n \in Nat \ {0}, Len(fs) = n, Len(gs) = n - 1, Alike(fs, gs, n - 1),
         fs[n].pc = "inside"
  PROVE  /\ ReadIds(fs) = ReadIds(gs) \cup {fs[n].id}
         /\ \A S : Once(fs, S) => Once(gs, S \cup {fs[n].id})
<1>1. \A i \in 1 .. n - 1 : gs[i].id = fs[i].id /\ gs[i].pc = fs[i].pc /\ i \in 1 .. n
  BY DEF Alike
<1>2. ReadIds(gs) \subseteq ReadIds(fs)
  BY <1>1 DEF ReadIds
<1>3. fs[n].id \in ReadIds(fs)
  BY DEF ReadIds
<1>4. ReadIds(fs) \subseteq ReadIds(gs) \cup {fs[n].id}
  <2> SUFFICES ASSUME NEW i \in 1 .. n, fs[i].pc = "inside", i # n
               PROVE  fs[i].id \in ReadIds(gs)
    BY DEF ReadIds
  <2>1. i \in 1 .. n - 1
    OBVIOUS
  <2> QED
    BY <2>1, <1>1 DEF ReadIds
<1>5. ASSUME NEW S, Once(fs, S)
      PROVE  Once(gs, S \cup {fs[n].id})
  <2> SUFFICES ASSUME NEW i \in 1 .. n - 1, gs[i].pc = "inside", gs[i].id \in Classes
               PROVE  /\ gs[i].id \notin S \cup {fs[n].id}
                      /\ \A j \in 1 .. i - 1 : gs[j].pc = "inside" => gs[j].id # gs[i].id
    BY DEF Once
  <2>1. fs[i].id \notin S /\ \A j \in 1 .. i - 1 : fs[j].pc = "inside" => fs[j].id # fs[i].id
    BY <1>1, <1>5 DEF Once
  <2>2. \A j \in 1 .. i - 1 : gs[j].id = fs[j].id /\ gs[j].pc = fs[j].pc
    BY <1>1
  <2>3. fs[n].id # fs[i].id
    <3> SUFFICES ASSUME fs[n].id = fs[i].id
                 PROVE  FALSE
      OBVIOUS
    <3>1. fs[n].id \in Classes /\ n \in 1 .. n /\ i \in 1 .. n - 1
      BY <1>1
    <3> QED
      BY <3>1, <1>1, <1>5 DEF Once
  <2> QED
    BY <2>1, <2>2, <2>3, <1>1
<1> QED
  BY <1>2, <1>3, <1>4, <1>5

(***************************************************************************)
(* The call on top is replaced.                                            *)
(***************************************************************************)
LEMMA TopReplaced ==
  ASSUME NEW fs \in Seq(Frame), fs # <<>>, NEW f \in Frame
  PROVE  /\ Append(Front(fs), f) \in Seq(Frame)
         /\ Len(Append(Front(fs), f)) = Len(fs)
         /\ Append(Front(fs), f)[Len(fs)] = f
         /\ Alike(fs, Append(Front(fs), f), Len(fs) - 1)
<1> DEFINE n == Len(fs)
<1>1. /\ n \in Nat \ {0} /\ Front(fs) \in Seq(Frame) /\ Len(Front(fs)) = n - 1
      /\ \A i \in 1 .. n - 1 : Front(fs)[i] = fs[i]
  BY FrontAndTop
<1>2. /\ Append(Front(fs), f) \in Seq(Frame)
      /\ Len(Append(Front(fs), f)) = n - 1 + 1 /\ Append(Front(fs), f)[n - 1 + 1] = f
      /\ \A i \in 1 .. n - 1 : Append(Front(fs), f)[i] = Front(fs)[i]
  BY <1>1, AppendProperties
<1> QED
  BY <1>1, <1>2 DEF Alike

(***************************************************************************)
(* What spman_get does to the calls: the one on top gets further, others   *)
(* may lose what they hold.                                                *)
(***************************************************************************)
LEMMA SlotFrames ==
  ASSUME UInv, Slot
  PROVE  LET n == Len(frames) IN
         /\ n \in Nat \ {0} /\ Len(frames') = n /\ Alike(frames, frames', n - 1)
         /\ frames[n].pc = "slot" /\ frames'[n].pc = "before" /\ frames'[n].id = frames[n].id
         /\ frames'[n].k = frames[n].k
<1> DEFINE n == Len(frames)
           f == [Top EXCEPT !.pc = "before", !.held = TRUE]
           fs == Front(frames)
<1>1. frames \in Seq(Frame) /\ frames # <<>> /\ Last(frames).pc = "slot"
  BY DEF Slot, Top, UInv
<1>2. PICK drop \in Drops(PageOf[Top.id]) : frames' = Append(Without(fs, drop), f)
  BY DEF Slot
<1>3. /\ n \in Nat \ {0} /\ fs \in Seq(Frame) /\ Len(fs) = n - 1
      /\ \A i \in 1 .. n - 1 : fs[i] = frames[i]
      /\ Top \in Frame /\ Top = frames[n]
  BY <1>1, FrontAndTop DEF Top
<1>4. f \in Frame /\ f.pc = "before" /\ f.id = Top.id /\ f.k = Top.k
  BY <1>3 DEF Frame
<1> HIDE DEF f
<1>5. \A i \in 1 .. n - 1 : fs[i] \in Frame
  BY <1>3, ElementOfSeq
<1> DEFINE gs == Without(fs, drop)
<1>6. \A i \in 1 .. n - 1 :
        LET g == IF PageOf[fs[i].id] \in drop THEN [fs[i] EXCEPT !.held = FALSE] ELSE fs[i]
        IN  g \in Frame /\ g.id = fs[i].id /\ g.pc = fs[i].pc /\ g.k = fs[i].k
  BY <1>5 DEF Frame
<1>7. gs \in Seq(Frame) /\ Len(gs) = n - 1
  BY <1>3, <1>6, IsASeq, LenProperties DEF Without
<1>8. Alike(frames, gs, n - 1)
  BY <1>3, <1>6 DEF Alike, Without
<1> HIDE DEF gs, fs
<1>9. /\ Len(frames') = n - 1 + 1 /\ frames'[n - 1 + 1] = f
      /\ \A i \in 1 .. n - 1 : frames'[i] = gs[i]
  BY <1>2, <1>4, <1>7, AppendProperties DEF gs, fs
<1> QED
  BY <1>1, <1>3, <1>4, <1>8, <1>9 DEF Alike, Top

(***************************************************************************)
(* What a call asks for is there, and it goes on, or it is called for.     *)
(***************************************************************************)
LEMMA WantFrames ==
  ASSUME UInv, Want
  PROVE  LET n  == Len(frames)
             id == Wants(Top)[Top.k] IN
         /\ n \in Nat \ {0} /\ Top = frames[n] /\ Top \in Frame /\ Top.pc # "slot"
         /\ Top.k \in Nat \ {0} /\ Top.k <= Len(Wants(Top)) /\ id \in Ids
         /\ \/ frames' = frames
            \/ /\ Len(frames') \in {n, n + 1} /\ Alike(frames, frames', n - 1)
               /\ frames'[n].id = Top.id /\ frames'[n].pc = Top.pc /\ frames'[n].k = Top.k + 1
               /\ Len(frames') = n => id \in i2r /\ (id \in Unpacked \/ \E i \in Reading : frames[i].id = id)
               /\ Len(frames') = n + 1 => frames'[n + 1].id = id /\ frames'[n + 1].pc = "slot"
<1> DEFINE n == Len(frames)
           id == Wants(Top)[Top.k]
           f  == [Top EXCEPT !.k = @ + 1]
           on == Append(Front(frames), f)
<1>1. /\ frames \in Seq(Frame) /\ frames # <<>> /\ Top.pc # "slot" /\ Top.k <= Len(Wants(Top))
  BY DEF Want, Waiting, UInv
<1>2. n \in Nat \ {0} /\ Top \in Frame /\ Top = frames[n]
  BY <1>1, FrontAndTop DEF Top
<1>3. Top.k \in Nat \ {0}
  BY <1>2 DEF Frame
<1>4. id \in Ids
  BY <1>1, <1>2, <1>3, WantsIds DEF UInv
<1>5. f \in Frame /\ f.id = Top.id /\ f.pc = Top.pc /\ f.k = Top.k + 1
  BY <1>2 DEF Frame
<1> HIDE DEF f
<1>6. on \in Seq(Frame) /\ Len(on) = n /\ on[n] = f /\ Alike(frames, on, n - 1)
  BY <1>1, <1>5, TopReplaced
<1>7. \/ frames' = frames
      \/ frames' = on /\ id \in i2r /\ (id \in Unpacked \/ \E i \in Reading : frames[i].id = id)
      \/ frames' = Append(on, Calling(id))
  BY DEF Want, f
<1> HIDE DEF id, on
<1>8. CASE frames' = on /\ id \in i2r /\ (id \in Unpacked \/ \E i \in Reading : frames[i].id = id)
  <2>1. n + 1 # n
    BY <1>2
  <2> QED
    BY <2>1, <1>1, <1>2, <1>3, <1>4, <1>5, <1>6, <1>8 DEF id
<1>9. CASE frames' = Append(on, Calling(id))
  <2>1. Calling(id) \in Frame /\ Calling(id).pc = "slot" /\ Calling(id).id = id
    BY <1>4, CallingFrame DEF Calling
  <2>2. /\ Len(frames') = n + 1 /\ frames'[n + 1] = Calling(id)
        /\ \A i \in 1 .. n : frames'[i] = on[i]
    BY <2>1, <1>6, <1>9, AppendProperties
  <2>3. n + 1 # n /\ n \in 1 .. n /\ \A i \in 1 .. n - 1 : i \in 1 .. n
    BY <1>2
  <2>4. Alike(frames, frames', n - 1)
    BY <2>2, <2>3, <1>6 DEF Alike
  <2> QED
    BY <2>1, <2>2, <2>3, <2>4, <1>1, <1>2, <1>3, <1>4, <1>5, <1>6 DEF id
<1> QED
  BY <1>1, <1>2, <1>3, <1>4, <1>7, <1>8, <1>9 DEF id

(***************************************************************************)
(* The call on top pins its page and begins to read, or nothing happens to *)
(* the calls.                                                              *)
(***************************************************************************)
LEMMA PinFrames ==
  ASSUME UInv, Pin
  PROVE  LET n == Len(frames) IN
         \/ UNCHANGED <<frames, i2r>>
         \/ /\ n \in Nat \ {0} /\ Len(frames') = n /\ Alike(frames, frames', n - 1)
            /\ frames[n].pc = "before" /\ frames[n].id \in Ids
            /\ frames'[n].pc = "inside" /\ frames'[n].id = frames[n].id /\ frames'[n].k = 1
            /\ frames[n].id \in Classes => frames[n].id \notin i2r
            /\ i2r' = i2r \cup ({frames[n].id} \cap Classes)
<1> DEFINE n == Len(frames)
           f == [Top EXCEPT !.pc = "inside", !.k = 1]
<1>1. frames \in Seq(Frame) /\ frames # <<>> /\ Top.pc = "before"
  BY DEF Pin, Ready, UInv
<1>2. n \in Nat \ {0} /\ Top \in Frame /\ Top = frames[n]
  BY <1>1, FrontAndTop DEF Top
<1>3. f \in Frame /\ f.pc = "inside" /\ f.id = Top.id /\ f.k = 1
  <2> DEFINE g == [Top EXCEPT !.pc = "inside"]
  <2>1. g \in Frame /\ g.pc = "inside" /\ g.id = Top.id
    BY <1>2 DEF Frame
  <2>2. f = [g EXCEPT !.k = 1]
    BY <1>2 DEF Frame
  <2> HIDE DEF f, g
  <2> QED
    BY <2>1, <2>2 DEF Frame
<1>4. \/ UNCHANGED <<frames, i2r>>
      \/ frames' = Append(Front(frames), f) /\ i2r' = i2r \cup ({Top.id} \cap Classes)
  BY DEF Pin, Registered
<1>5. Top.id \in Classes => Top.id \notin i2r
  BY DEF Pin, Registered
<1>6. Top.id \in Ids
  BY <1>2 DEF Frame
<1> HIDE DEF f
<1> QED
  BY <1>1, <1>2, <1>3, <1>4, <1>5, <1>6, TopReplaced

(***************************************************************************)
(* The call on top returns.                                                *)
(***************************************************************************)
LEMMA DoneFrames ==
  ASSUME UInv, Done
  PROVE  LET n == Len(frames) IN
         /\ n \in Nat \ {0} /\ Top = frames[n] /\ Top \in Frame /\ Top.id \in Ids
         /\ Len(frames') = n - 1 /\ Alike(frames, frames', n - 1)
         /\ frames[n].pc = "inside"
<1>1. frames \in Seq(Frame) /\ frames # <<>> /\ Top.pc = "inside" /\ frames' = Front(frames)
  BY DEF Done, Ready, UInv
<1>2. Top \in Frame
  BY <1>1, FrontAndTop DEF Top
<1>3. Top.id \in Ids
  BY <1>2 DEF Frame
<1> QED
  BY <1>1, <1>2, <1>3, FrontAndTop DEF Top, Alike

-----------------------------------------------------------------------------
(* Nothing is unpacked twice.                                              *)

(***************************************************************************)
(* Steps that change only calls that read nothing, or nothing of this.     *)
(***************************************************************************)
LEMMA IdsCalls ==
  ASSUME UInv, IdsInv,
         \/ \E id \in Ids : Get(id)
         \/ Slot \/ Want
         \/ UNCHANGED vars
  PROVE  IdsInv'
<1>1. UNCHANGED <<i2r, chain, dirty, doomed, younger, spoiled>>
  BY DEF Get, Slot, Want, vars
<1>2. ReadIds(frames') = ReadIds(frames) /\ \A S : Once(frames, S) => Once(frames', S)
  <2>1. CASE frames' = frames
    BY <2>1
  <2>2. ASSUME NEW id \in Ids, Get(id), frames' # frames
        PROVE  ReadIds(frames') = ReadIds(frames) /\ \A S : Once(frames, S) => Once(frames', S)
    <3>1. frames = <<>> /\ frames' = <<Calling(id)>> /\ Calling(id).pc = "slot"
      BY <2>2 DEF Get, Quiet, Calling
    <3>2. Len(frames) = 0 /\ Len(frames') = 1 /\ frames'[1] = Calling(id)
      BY <3>1
    <3>3. /\ Len(frames) \in Nat /\ Len(frames') \in Nat /\ Len(frames) <= Len(frames')
          /\ \A i \in 1 .. Len(frames) : FALSE
          /\ \A i \in Len(frames) + 1 .. Len(frames') : frames'[i].pc # "inside"
      BY <3>1, <3>2
    <3> QED
      BY <3>3, SameReads
  <2>3. CASE Slot
    <3> DEFINE n == Len(frames)
    <3>1. /\ n \in Nat \ {0} /\ Len(frames') = n /\ Alike(frames, frames', n - 1)
          /\ frames[n].pc = "slot" /\ frames'[n].pc = "before" /\ frames'[n].id = frames[n].id
      BY <2>3, SlotFrames
    <3>2. \A i \in 1 .. n :
            frames'[i].id = frames[i].id /\ (frames'[i].pc = "inside" <=> frames[i].pc = "inside")
      BY <3>1 DEF Alike
    <3>3. n + 1 .. n = {}
      BY <3>1
    <3> QED
      BY <3>1, <3>2, <3>3, SameReads
  <2>4. CASE Want /\ frames' # frames
    <3> DEFINE n == Len(frames)
    <3>1. /\ n \in Nat \ {0} /\ Top = frames[n]
          /\ Len(frames') \in {n, n + 1} /\ Alike(frames, frames', n - 1)
          /\ frames'[n].id = Top.id /\ frames'[n].pc = Top.pc
          /\ Len(frames') = n + 1 => frames'[n + 1].pc = "slot"
      BY <2>4, WantFrames
    <3>2. \A i \in 1 .. n :
            frames'[i].id = frames[i].id /\ (frames'[i].pc = "inside" <=> frames[i].pc = "inside")
      BY <3>1 DEF Alike
    <3>3. \A i \in n + 1 .. Len(frames') : frames'[i].pc # "inside"
      BY <3>1
    <3> QED
      BY <3>1, <3>2, <3>3, SameReads
  <2> QED
    BY <2>1, <2>2, <2>3, <2>4 DEF vars
<1> QED
  BY <1>1, <1>2 DEF IdsInv, Unpacked

(***************************************************************************)
(* A class is registered when a call begins to read it, and none other     *)
(* does.                                                                   *)
(***************************************************************************)
LEMMA IdsPin ==
  ASSUME UInv, IdsInv, Pin
  PROVE  IdsInv'
<1> DEFINE n == Len(frames)
           id == frames[n].id
<1>1. UNCHANGED <<chain, dirty, doomed, younger, spoiled>>
  BY DEF Pin
<1>2. CASE UNCHANGED <<frames, i2r>>
  BY <1>1, <1>2 DEF IdsInv, Unpacked
<1>3. CASE ~UNCHANGED <<frames, i2r>>
  <2>1. /\ n \in Nat \ {0} /\ Len(frames') = n /\ Alike(frames, frames', n - 1)
        /\ frames[n].pc # "inside" /\ frames'[n].pc = "inside" /\ frames'[n].id = id
        /\ id \in Classes => id \notin i2r
        /\ i2r' = i2r \cup ({id} \cap Classes)
    BY <1>3, PinFrames
  <2>2. id \in Classes => id \notin (Unpacked \cup spoiled) \cup ReadIds(frames)
    BY <2>1 DEF IdsInv
  <2>3. ReadIds(frames') = ReadIds(frames) \cup {id} /\ Once(frames', Unpacked \cup spoiled)
    BY <2>1, <2>2, ReadsOneMore DEF IdsInv
  <2>4. i2r' = Unpacked \cup (ReadIds(frames') \cap Classes) \cup spoiled
    BY <2>1, <2>3 DEF IdsInv
  <2> QED
    BY <2>3, <2>4, <1>1 DEF IdsInv, Unpacked
<1> QED
  BY <1>2, <1>3

(***************************************************************************)
(* What has been read is new to the chain.                                 *)
(***************************************************************************)
LEMMA IdsDone ==
  ASSUME UInv, IdsInv, Done
  PROVE  /\ IdsInv'
         /\ Top.id \in Ids \ Unpacked /\ Unpacked' = Unpacked \cup {Top.id}
<1> DEFINE n == Len(frames)
           id == Top.id
<1>1. UNCHANGED <<dirty, doomed, younger, spoiled>> /\ chain' = <<id>> \o chain
      /\ i2r' = i2r \cup {id} /\ (id \in Records => id \notin i2r)
  BY DEF Done
<1>2. /\ n \in Nat \ {0} /\ Top = frames[n] /\ id \in Ids
      /\ Len(frames') = n - 1 /\ Alike(frames, frames', n - 1)
      /\ frames[n].pc = "inside"
  BY DoneFrames
<1>3. id \notin Unpacked /\ (id \in Classes => id \notin spoiled)
  <2>1. CASE id \in Records
    BY <2>1, <1>1, UnpackAssumption DEF IdsInv
  <2>2. CASE id \in Classes
    BY <2>2, <1>2 DEF IdsInv, Once
  <2> QED
    BY <2>1, <2>2, <1>2 DEF Ids
<1>4. id \notin spoiled
  BY <1>3 DEF IdsInv
<1> HIDE DEF id
<1>5. /\ chain' \in Seq(Ids) /\ IsInjective(chain') /\ Unpacked' = Unpacked \cup {id}
  BY <1>1, <1>2, <1>3, Linked DEF IdsInv, Unpacked
<1>6. ReadIds(frames) = ReadIds(frames') \cup {id} /\ Once(frames', (Unpacked \cup spoiled) \cup {id})
  BY <1>2, ReadsOneLess DEF IdsInv, id
<1>7. i2r' = Unpacked' \cup (ReadIds(frames') \cap Classes) \cup spoiled
  BY <1>1, <1>5, <1>6 DEF IdsInv
<1>8. (Unpacked \cup spoiled) \cup {id} = Unpacked' \cup spoiled
  BY <1>5
<1>9. id \in Ids \ Unpacked
  BY <1>2, <1>3 DEF id
<1>10. Once(frames', Unpacked' \cup spoiled')
  BY <1>1, <1>6, <1>8
<1>11. spoiled' \subseteq Classes /\ spoiled' \cap Unpacked' = {}
  BY <1>1, <1>4, <1>5 DEF IdsInv
<1>12. /\ younger' \subseteq dirty' /\ dirty' \subseteq Unpacked' \cap Records
       /\ doomed' \subseteq Unpacked'
  BY <1>1, <1>5 DEF IdsInv
<1>13. IdsInv'
  BY <1>1, <1>5, <1>7, <1>10, <1>11, <1>12 DEF IdsInv
<1> QED
  BY <1>5, <1>9, <1>13 DEF id

(***************************************************************************)
(* A failure leaves the classes that were being read behind in i2r.        *)
(***************************************************************************)
LEMMA IdsFail ==
  ASSUME UInv, IdsInv, Fail
  PROVE  IdsInv'
<1>1. UNCHANGED <<i2r, chain, dirty, doomed, younger>> /\ frames' = <<>>
      /\ spoiled' = spoiled \cup (ReadIds(frames) \cap Classes)
  BY DEF Fail, ReadIds, Reading
<1>2. Len(frames') = 0 /\ ReadIds(frames') = {} /\ Once(frames', Unpacked \cup spoiled')
  BY <1>1 DEF ReadIds, Once
<1>3. \A x \in ReadIds(frames) \cap Classes : x \notin Unpacked
  BY DEF IdsInv, Once, ReadIds
<1>4. i2r' = Unpacked \cup spoiled' /\ spoiled' \subseteq Classes /\ spoiled' \cap Unpacked = {}
  BY <1>1, <1>3 DEF IdsInv
<1> QED
  BY <1>1, <1>2, <1>4 DEF IdsInv, Unpacked

(***************************************************************************)
(* The client sets fields and begins a collection.                         *)
(***************************************************************************)
LEMMA IdsClient ==
  ASSUME UInv, IdsInv,
         \/ \E r \in Records, v \in (Records \cap Unpacked) \cup {Nil} : Set(r, v)
         \/ \E r \in Records : Touch(r)
         \/ \E keep \in SUBSET Unpacked : Collect(keep)
  PROVE  IdsInv'
<1>1. UNCHANGED <<i2r, chain, frames, spoiled>>
  BY DEF Set, Touch, Collect
<1>2. younger' \subseteq dirty' /\ dirty' \subseteq Unpacked \cap Records /\ doomed' \subseteq Unpacked
  <2>1. ASSUME NEW r \in Records, NEW v, Set(r, v)
        PROVE  younger' \subseteq dirty' /\ dirty' \subseteq Unpacked \cap Records /\ doomed' \subseteq Unpacked
    BY <2>1 DEF Set, IdsInv
  <2>2. ASSUME NEW r \in Records, Touch(r)
        PROVE  younger' \subseteq dirty' /\ dirty' \subseteq Unpacked \cap Records /\ doomed' \subseteq Unpacked
    BY <2>2 DEF Touch, IdsInv
  <2>3. ASSUME NEW keep, Collect(keep)
        PROVE  younger' \subseteq dirty' /\ dirty' \subseteq Unpacked \cap Records /\ doomed' \subseteq Unpacked
    BY <2>3 DEF Collect, IdsInv
  <2> QED
    BY <2>1, <2>2, <2>3
<1> QED
  BY <1>1, <1>2 DEF IdsInv, Unpacked

(***************************************************************************)
(* The sweep takes one out of the chain and out of i2r.                    *)
(***************************************************************************)
LEMMA IdsClear ==
  ASSUME UInv, IdsInv, NEW i \in 1 .. Len(chain), ClearNext(i)
  PROVE  /\ IdsInv'
         /\ chain[i] \in Unpacked /\ Unpacked' = Unpacked \ {chain[i]}
<1> DEFINE id == chain[i]
<1>1. UNCHANGED <<frames, spoiled>> /\ chain' = RemoveAt(chain, i) /\ i2r' = i2r \ {id}
      /\ dirty' = dirty \ {id} /\ younger' = younger \ {id} /\ doomed' = doomed \ {id}
      /\ id \in doomed
  BY DEF ClearNext, NextDoomed, Unregistered
<1>2. /\ chain' \in Seq(Ids) /\ IsInjective(chain') /\ Unpacked' = Unpacked \ {id}
  BY <1>1, Unlinked DEF IdsInv, Unpacked
<1>3. frames = <<>> /\ Len(frames) = 0
  BY <1>1 DEF UInv, Fields
<1>4. ReadIds(frames) = {} /\ \A S : Once(frames, S)
  BY <1>3 DEF ReadIds, Once
<1>5. id \in Unpacked /\ id \notin spoiled
  BY <1>1 DEF IdsInv
<1>6. i2r' = Unpacked' \cup spoiled
  BY <1>1, <1>2, <1>4, <1>5 DEF IdsInv
<1> HIDE DEF id
<1> QED
  BY <1>1, <1>2, <1>4, <1>5, <1>6 DEF IdsInv, id

-----------------------------------------------------------------------------
(* The order of the chain.                                                 *)

\* What SavedInTime says of one step.
Saves == \A r \in dirty : r \notin Range(chain') /\ r \notin younger => disk'[r] = ref[r]

(***************************************************************************)
(* While calls are in progress nothing is swept.                           *)
(***************************************************************************)
LEMMA CallsOrSweep ==
  ASSUME UInv, frames # <<>>
  PROVE  doomed = {}
BY DEF UInv, Fields

(***************************************************************************)
(* Only complete records are in i2r.                                       *)
(***************************************************************************)
LEMMA RecordsThere ==
  ASSUME IdsInv, NEW r \in Records, r \in i2r
  PROVE  r \in Unpacked
BY UnpackAssumption DEF IdsInv

(***************************************************************************)
(* The calls change, and the chain does not.                               *)
(***************************************************************************)
LEMMA OrderCalls ==
  ASSUME UInv, IdsInv, OrderInv,
         \/ \E id \in Ids : Get(id)
         \/ Slot \/ Want \/ Pin \/ Fail
         \/ UNCHANGED vars
  PROVE  OrderInv' /\ Saves
<1>1. UNCHANGED <<chain, ref, disk, dirty, doomed, younger>>
  BY DEF Get, Slot, Want, Pin, Fail, vars
<1>2. FieldsGoBack' /\ KeptKeeps'
  BY <1>1 DEF OrderInv, FieldsGoBack, KeptKeeps, Unpacked
<1>3. Saves
  BY <1>1 DEF Saves, IdsInv, Unpacked
<1> DEFINE n == Len(frames)
<1>4. FieldThere'
  <2>1. CASE frames' = frames
    BY <2>1, <1>1 DEF OrderInv, FieldThere, Unpacked
  <2>2. ASSUME NEW id \in Ids, Get(id), frames' # frames
        PROVE  FieldThere'
    <3>1. frames' = <<Calling(id)>> /\ Calling(id).pc = "slot"
      BY <2>2 DEF Get, Calling
    <3>2. \A i \in 1 .. Len(frames') : frames'[i].pc # "inside"
      BY <3>1
    <3> QED
      BY <3>2 DEF FieldThere
  <2>3. CASE Fail
    <3>1. Len(frames') = 0
      BY <2>3 DEF Fail
    <3> QED
      BY <3>1 DEF FieldThere
  <2>4. CASE Slot
    <3>1. /\ n \in Nat \ {0} /\ Len(frames') = n /\ Alike(frames, frames', n - 1)
          /\ frames'[n].pc = "before" /\ frames'[n].id = frames[n].id
      BY <2>4, SlotFrames
    <3>2. \A i \in 1 .. n : frames'[i].id = frames[i].id
      BY <3>1 DEF Alike
    <3>3. \A i \in 1 .. n : frames'[i].pc = "inside" =>
            frames[i].pc = "inside" /\ frames'[i].k = frames[i].k
      BY <3>1 DEF Alike
    <3> QED
      BY <3>1, <3>2, <3>3, <1>1 DEF OrderInv, FieldThere, Unpacked
  <2>5. CASE Pin /\ frames' # frames
    <3>1. /\ n \in Nat \ {0} /\ Len(frames') = n /\ Alike(frames, frames', n - 1)
          /\ frames'[n].k = 1 /\ frames'[n].id = frames[n].id
      BY <2>5, PinFrames
    <3>2. \A i \in 1 .. n : frames'[i].id = frames[i].id
      BY <3>1 DEF Alike
    <3>3. \A i \in 1 .. n : frames'[i].k > 1 =>
            frames'[i].pc = frames[i].pc /\ frames'[i].k = frames[i].k
      BY <3>1 DEF Alike
    <3> QED
      BY <3>1, <3>2, <3>3, <1>1 DEF OrderInv, FieldThere, Unpacked
  <2>6. CASE Want /\ frames' # frames
    <3> DEFINE id == Wants(Top)[Top.k]
    <3>1. /\ n \in Nat \ {0} /\ Top = frames[n] /\ Top \in Frame /\ Top.pc # "slot"
          /\ Top.k \in Nat \ {0} /\ Top.k <= Len(Wants(Top))
          /\ Len(frames') \in {n, n + 1} /\ Alike(frames, frames', n - 1)
          /\ frames'[n].id = Top.id /\ frames'[n].pc = Top.pc
          /\ Len(frames') = n => id \in i2r
          /\ Len(frames') = n + 1 => frames'[n + 1].id = id /\ frames'[n + 1].pc = "slot"
      BY <2>6, WantFrames
    <3>2. ASSUME Top.pc = "inside", Top.id \in Records, disk[Top.id] # Nil
          PROVE  id = disk[Top.id] /\ id \in Records
      <4>1. Top.id \notin Classes /\ disk[Top.id] \in Records
        BY <3>2, UnpackAssumption DEF UInv, Fields
      <4>2. Wants(Top) = <<disk[Top.id]>>
        BY <3>2, <4>1 DEF Wants, Inside
      <4>3. Len(Wants(Top)) = 1 /\ Wants(Top)[1] = disk[Top.id]
        BY <4>2
      <4>4. Top.k = 1
        BY <4>3, <3>1
      <4> QED
        BY <4>1, <4>3, <4>4
    <3> HIDE DEF id
    <3> SUFFICES ASSUME NEW i \in 1 .. Len(frames'),
                        frames'[i].pc = "inside", frames'[i].id \in Records, frames'[i].k > 1,
                        disk[frames'[i].id] # Nil
                 PROVE  \/ disk[frames'[i].id] \in Unpacked
                        \/ /\ i + 1 \in 1 .. Len(frames')
                           /\ frames'[i + 1].id = disk[frames'[i].id]
      BY <1>1 DEF FieldThere, Unpacked
    <3>3. CASE i \in 1 .. n - 1
      <4>1. frames'[i].id = frames[i].id /\ frames'[i].pc = frames[i].pc /\ frames'[i].k = frames[i].k
        BY <3>1, <3>3 DEF Alike
      <4>2. i \in 1 .. n /\ i + 1 \in 1 .. n /\ i + 1 \in 1 .. Len(frames')
        BY <3>1, <3>3
      <4>3. frames'[i + 1].id = frames[i + 1].id
        BY <4>2, <3>1 DEF Alike
      <4>4. disk[frames[i].id] \in Unpacked \/ frames[i + 1].id = disk[frames[i].id]
        BY <4>1, <4>2 DEF OrderInv, FieldThere
      <4> QED
        BY <4>1, <4>2, <4>3, <4>4
    <3>4. CASE i = n
      <4>1. id = disk[Top.id] /\ id \in Records /\ frames'[i].id = Top.id
        BY <3>1, <3>2, <3>4
      <4>2. CASE Len(frames') = n
        BY <4>1, <4>2, <3>1, RecordsThere
      <4>3. CASE Len(frames') = n + 1
        <5>1. i + 1 \in 1 .. Len(frames')
          BY <4>3, <3>1, <3>4
        <5> QED
          BY <5>1, <4>1, <4>3, <3>1, <3>4
      <4> QED
        BY <4>2, <4>3, <3>1
    <3>5. CASE i = n + 1
      <4>1. Len(frames') = n + 1
        BY <3>5, <3>1
      <4> QED
        BY <4>1, <3>1, <3>5
    <3> QED
      BY <3>1, <3>3, <3>4, <3>5
  <2> QED
    BY <2>1, <2>2, <2>3, <2>4, <2>5, <2>6 DEF vars
<1> QED
  BY <1>2, <1>3, <1>4 DEF OrderInv

(***************************************************************************)
(* What is unpacked has what its field refers to.                          *)
(***************************************************************************)
LEMMA OrderDone ==
  ASSUME UInv, IdsInv, OrderInv, Done
  PROVE  OrderInv' /\ Saves
<1> DEFINE n == Len(frames)
           id == Top.id
<1>1. /\ UNCHANGED <<disk, dirty, doomed, younger>>
      /\ chain' = <<id>> \o chain
      /\ ref' = IF id \in Records THEN [ref EXCEPT ![id] = disk[id]] ELSE ref
      /\ frames # <<>> /\ Top.pc = "inside" /\ Top.k > Len(Wants(Top))
  BY DEF Done, Ready
<1>2. id \in Ids \ Unpacked /\ Unpacked' = Unpacked \cup {id}
  BY IdsDone
<1>3. /\ \A x, y : NotNewer(chain, x, y) => NotNewer(chain', x, y)
      /\ \A y \in Unpacked' : NotNewer(chain', id, y)
  <2> HIDE DEF id
  <2>1. chain \in Seq(Ids) /\ IsInjective(chain) /\ id \in Ids \ Range(chain)
    BY <1>2 DEF IdsInv, Unpacked
  <2>2. Unpacked' = Range(chain')
    BY DEF Unpacked
  <2> QED
    BY <2>1, <2>2, <1>1, Linked
<1>4. /\ n \in Nat \ {0} /\ Top = frames[n] /\ Top \in Frame
      /\ Len(frames') = n - 1 /\ Alike(frames, frames', n - 1)
  BY DoneFrames
<1>5. ASSUME id \in Records, disk[id] # Nil
      PROVE  disk[id] \in Unpacked
  <2>1. id \notin Classes
    BY <1>5, UnpackAssumption
  <2>2. Wants(Top) = <<disk[id]>>
    BY <2>1, <1>1, <1>5 DEF Wants, Inside
  <2>3. Top.k > 1
    BY <2>2, <1>1
  <2>4. n \in 1 .. n /\ ~(n + 1 \in 1 .. n)
    BY <1>4
  <2> QED
    BY <2>3, <2>4, <1>1, <1>4, <1>5 DEF OrderInv, FieldThere
<1> HIDE DEF id
<1>6. FieldsGoBack'
  <2> SUFFICES ASSUME NEW r \in Unpacked' \cap Records, r \notin younger, ref'[r] # Nil
               PROVE  NotNewer(chain', r, ref'[r])
    BY <1>1 DEF FieldsGoBack
  <2>1. CASE r = id
    <3>1. ref'[r] = disk[id]
      BY <2>1, <1>1 DEF UInv, Fields
    <3>2. disk[id] \in Unpacked'
      BY <3>1, <2>1, <1>2, <1>5
    <3> QED
      BY <3>1, <3>2, <2>1, <1>3
  <2>2. CASE r # id
    <3>1. r \in Unpacked /\ ref'[r] = ref[r]
      BY <2>2, <1>1, <1>2 DEF UInv, Fields
    <3> QED
      BY <3>1, <1>3 DEF OrderInv, FieldsGoBack
  <2> QED
    BY <2>1, <2>2
<1>7. KeptKeeps'
  BY <1>1, CallsOrSweep DEF KeptKeeps
<1>8. FieldThere'
  <2> SUFFICES ASSUME NEW i \in 1 .. n - 1,
                      frames'[i].pc = "inside", frames'[i].id \in Records, frames'[i].k > 1,
                      disk[frames'[i].id] # Nil
               PROVE  \/ disk[frames'[i].id] \in Unpacked'
                      \/ i + 1 \in 1 .. n - 1 /\ frames'[i + 1].id = disk[frames'[i].id]
    BY <1>1, <1>4 DEF FieldThere
  <2>1. frames'[i].id = frames[i].id /\ frames'[i].pc = frames[i].pc /\ frames'[i].k = frames[i].k
    BY <1>4 DEF Alike
  <2>2. i \in 1 .. n /\ i + 1 \in 1 .. n
    BY <1>4
  <2>3. disk[frames[i].id] \in Unpacked \/ frames[i + 1].id = disk[frames[i].id]
    BY <2>1, <2>2 DEF OrderInv, FieldThere
  <2>4. CASE i + 1 = n
    BY <2>1, <2>3, <2>4, <1>2, <1>4 DEF id
  <2>5. CASE i + 1 \in 1 .. n - 1
    <3>1. frames'[i + 1].id = frames[i + 1].id
      BY <2>5, <1>4 DEF Alike
    <3> QED
      BY <3>1, <2>1, <2>3, <2>5, <1>2
  <2> QED
    BY <2>2, <2>4, <2>5, <1>4
<1>9. Saves
  BY <1>2 DEF Saves, IdsInv, Unpacked
<1> QED
  BY <1>6, <1>7, <1>8, <1>9 DEF OrderInv

(***************************************************************************)
(* The client sets fields, to older and to newer records, and begins a     *)
(* collection, which keeps what is referred to by what it keeps.           *)
(***************************************************************************)
LEMMA OrderClient ==
  ASSUME UInv, IdsInv, OrderInv,
         \/ \E r \in Records, v \in (Records \cap Unpacked) \cup {Nil} : Set(r, v)
         \/ \E r \in Records : Touch(r)
         \/ \E keep \in SUBSET Unpacked : Collect(keep)
  PROVE  OrderInv' /\ Saves
<1>1. UNCHANGED <<chain, disk, frames>> /\ doomed = {}
  BY DEF Set, Touch, Collect, Quiet
<1>2. FieldThere' /\ Saves
  BY <1>1 DEF OrderInv, FieldThere, Saves, IdsInv, Unpacked
<1>3. ASSUME NEW r \in Records, NEW v \in (Records \cap Unpacked) \cup {Nil}, Set(r, v)
      PROVE  FieldsGoBack' /\ KeptKeeps'
  <2>1. /\ r \in Unpacked /\ ref' = [ref EXCEPT ![r] = v] /\ doomed' = {}
        /\ younger' = IF Newer(v, r) THEN younger \cup {r} ELSE younger \ {r}
    BY <1>1, <1>3 DEF Set
  <2>2. KeptKeeps'
    BY <2>1 DEF KeptKeeps
  <2>3. ASSUME NEW x \in Unpacked \cap Records, x \notin younger', ref'[x] # Nil
        PROVE  NotNewer(chain, x, ref'[x])
    <3>1. CASE x = r
      <4>1. ref'[x] = v /\ v \in Unpacked /\ ~Newer(v, r)
        BY <3>1, <2>1, <2>3 DEF UInv, Fields
      <4>2. PICK a \in 1 .. Len(chain) : chain[a] = r
        BY <2>1, ChainElements DEF IdsInv, Unpacked
      <4>3. PICK b \in 1 .. Len(chain) : chain[b] = v
        BY <4>1, ChainElements DEF IdsInv, Unpacked
      <4>4. ~(b < a)
        BY <4>1, <4>2, <4>3 DEF Newer
      <4>5. a <= b
        BY <4>4
      <4> QED
        BY <4>1, <4>2, <4>3, <4>5, <3>1 DEF NotNewer
    <3>2. CASE x # r
      <4>1. ref'[x] = ref[x] /\ x \notin younger
        BY <3>2, <2>1, <2>3 DEF UInv, Fields
      <4> QED
        BY <4>1, <2>3 DEF OrderInv, FieldsGoBack
    <3> QED
      BY <3>1, <3>2
  <2> QED
    BY <2>2, <2>3, <1>1 DEF FieldsGoBack, Unpacked
<1>4. ASSUME NEW r \in Records, Touch(r)
      PROVE  FieldsGoBack' /\ KeptKeeps'
  BY <1>4 DEF Touch, OrderInv, FieldsGoBack, KeptKeeps, Unpacked
<1>5. ASSUME NEW keep \in SUBSET Unpacked, Collect(keep)
      PROVE  FieldsGoBack' /\ KeptKeeps'
  <2> DEFINE succ == [id \in Unpacked |-> Marks(id)]
             R == ReachableFrom(keep, succ)
  <2>1. doomed' = Unpacked \ R /\ UNCHANGED <<ref, younger, chain>>
    BY <1>5 DEF Collect
  <2>2. FieldsGoBack'
    BY <2>1 DEF OrderInv, FieldsGoBack, Unpacked
  <2>3. ASSUME NEW r \in Unpacked \cap Records, r \in R, ref[r] \in Unpacked
        PROVE  ref[r] \in R
    <3> SUFFICES ASSUME NEW S \in SUBSET (DOMAIN succ \ {ref[r]}), keep \subseteq S, Closed(S, succ)
                 PROVE  FALSE
      BY <2>3 DEF ReachableFrom
    <3>1. ref[r] # Nil /\ r \notin Classes
      <4>1. ref[r] \in Ids
        BY <2>3, ChainElements DEF IdsInv, Unpacked
      <4> QED
        BY <4>1, UnpackAssumption
    <3>2. ref[r] \in succ[r]
      BY <3>1 DEF Marks
    <3>3. r \notin S
      BY <3>2 DEF Closed
    <3>4. S \in SUBSET (DOMAIN succ \ {r})
      BY <3>3
    <3> QED
      BY <3>4, <2>3 DEF ReachableFrom
  <2>4. KeptKeeps'
    BY <2>1, <2>3 DEF KeptKeeps, Unpacked
  <2> QED
    BY <2>2, <2>4
<1> QED
  BY <1>2, <1>3, <1>4, <1>5 DEF OrderInv

(***************************************************************************)
(* The sweep takes the newest first: what the record's field refers to is  *)
(* still there.                                                            *)
(***************************************************************************)
LEMMA OrderClear ==
  ASSUME UInv, IdsInv, OrderInv, NEW i \in 1 .. Len(chain), ClearNext(i)
  PROVE  OrderInv' /\ Saves
<1> DEFINE id == chain[i]
<1>1. /\ UNCHANGED frames /\ chain' = RemoveAt(chain, i)
      /\ ref' = IF id \in Records THEN [ref EXCEPT ![id] = Nil] ELSE ref
      /\ younger' = younger \ {id} /\ doomed' = doomed \ {id}
      /\ id \in doomed /\ \A j \in 1 .. i - 1 : chain[j] \notin doomed
  BY DEF ClearNext, NextDoomed
<1>2. id \in Unpacked /\ Unpacked' = Unpacked \ {id}
  BY IdsClear
<1>3. \A x, y : NotNewer(chain, x, y) /\ x # id /\ y # id => NotNewer(chain', x, y)
  BY <1>1, Unlinked DEF IdsInv
<1>4. \A x \in Records : x # id => ref'[x] = ref[x]
  BY <1>1 DEF UInv, Fields
<1>5. frames = <<>>
  BY <1>1, CallsOrSweep
<1>6. FieldThere'
  <2>1. Len(frames') = 0
    BY <1>1, <1>5
  <2> QED
    BY <2>1 DEF FieldThere
<1>7. KeptKeeps'
  BY <1>1, <1>2, <1>4 DEF OrderInv, KeptKeeps
<1>8. ASSUME NEW x \in (Unpacked \cap Records) \ younger, x # id, ref[x] # Nil
      PROVE  ref[x] # id /\ NotNewer(chain, x, ref[x])
  <2>1. NotNewer(chain, x, ref[x])
    BY <1>8 DEF OrderInv, FieldsGoBack
  <2>2. PICK a \in 1 .. Len(chain), b \in 1 .. Len(chain) : a <= b /\ chain[a] = x /\ chain[b] = ref[x]
    BY <2>1 DEF NotNewer
  <2>3. ASSUME ref[x] = id
        PROVE  FALSE
    <3>1. b = i /\ a # i
      BY <2>2, <2>3, <1>8, LenProperties DEF IdsInv, IsInjective
    <3>2. a \in 1 .. i - 1
      BY <3>1, <2>2
    <3>3. x \notin doomed
      BY <3>2, <2>2, <1>1
    <3> QED
      BY <3>3, <2>3, <1>1, <1>2, <1>8 DEF OrderInv, KeptKeeps
  <2> QED
    BY <2>1, <2>3
<1>9. Saves
  <2> SUFFICES ASSUME NEW r \in dirty, r \notin Range(chain'), r \notin younger
               PROVE  disk'[r] = ref[r]
    BY DEF Saves
  <2>1. r \in Unpacked \cap Records /\ r = id
    BY <1>2 DEF IdsInv, Unpacked
  <2>2. ref[r] \in Unpacked \cup {Nil}
    <3> SUFFICES ASSUME ref[r] # Nil
                 PROVE  ref[r] \in Unpacked
      OBVIOUS
    <3>1. NotNewer(chain, r, ref[r])
      BY <2>1 DEF OrderInv, FieldsGoBack
    <3> QED
      BY <3>1, ChainElements DEF NotNewer, IdsInv, Unpacked
  <2>3. disk' = [disk EXCEPT ![r] = ref[r]]
    BY <2>1, <2>2 DEF ClearNext
  <2> QED
    BY <2>1, <2>3 DEF UInv, Fields
<1> HIDE DEF id
<1>10. FieldsGoBack'
  BY <1>1, <1>2, <1>3, <1>4, <1>8 DEF FieldsGoBack
<1> QED
  BY <1>6, <1>7, <1>9, <1>10 DEF OrderInv

-----------------------------------------------------------------------------
(* What follows from it.                                                   *)

AllInv == UInv /\ IdsInv /\ OrderInv

(***************************************************************************)
(* In every state i2r has what is unpacked, nothing is unpacked twice, and *)
(* fields refer to what was unpacked before, except where the client chose *)
(* otherwise; and every step saves what it frees.                          *)
(***************************************************************************)
THEOREM OrderInvariant == Spec => []AllInv /\ [][Saves]_vars
<1>1. Init => AllInv
  <2> SUFFICES ASSUME Init
               PROVE  AllInv
    OBVIOUS
  <2>1. frames = <<>> /\ Len(frames) = 0 /\ chain = <<>> /\ Len(chain) = 0
    BY DEF Init
  <2>2. UInv
    <3>1. DOMAIN maps = {}
      BY DEF Init
    <3>2. frames \in Seq(Frame) /\ PinsSound(frames, maps)
      BY <2>1, <3>1, NoCalls
    <3> QED
      BY <3>2 DEF Init, UInv, Fields
  <2>3. chain \in Seq(Ids) /\ DOMAIN chain = {} /\ Unpacked = {}
    BY <2>1, EmptySeq DEF Range, Unpacked
  <2>4. IdsInv
    BY <2>1, <2>3 DEF Init, IdsInv, IsInjective, ReadIds, Once
  <2>5. OrderInv
    BY <2>1, <2>3 DEF OrderInv, FieldsGoBack, KeptKeeps, FieldThere
  <2> QED
    BY <2>2, <2>4, <2>5 DEF AllInv
<1>2. AllInv /\ [Next]_vars => AllInv' /\ Saves
  <2> SUFFICES ASSUME AllInv, [Next]_vars
               PROVE  AllInv' /\ Saves
    OBVIOUS
  <2>1. UInv'
    BY GetStep, SlotStep, WantStep, PinStep, DoneStep, FailStep, ClientStep, ClearStep
       DEF AllInv, Next
  <2>2. IdsInv'
    BY IdsCalls, IdsPin, IdsDone, IdsFail, IdsClient, IdsClear DEF AllInv, Next
  <2>3. OrderInv' /\ Saves
    BY OrderCalls, OrderDone, OrderClient, OrderClear DEF AllInv, Next
  <2> QED
    BY <2>1, <2>2, <2>3 DEF AllInv
<1> QED
  BY <1>1, <1>2, PTL DEF Spec

(***************************************************************************)
(* Nothing is unpacked twice, and i2r has exactly what is in memory, what  *)
(* is being read of the classes, and the classes that could not be read.   *)
(***************************************************************************)
THEOREM IdsAreTrue == Spec => []IdsTrue
<1>1. AllInv => IdsTrue
  BY DEF AllInv, IdsInv, IdsTrue, ReadIds, Reading
<1> QED
  BY <1>1, OrderInvariant, PTL

(***************************************************************************)
(* The sweep writes a record back before it frees what its field refers    *)
(* to, unless the client had set the field to a newer one.                 *)
(***************************************************************************)
THEOREM RecordsAreSaved == Spec => SavedInTime
<1>1. Saves <=> \A r \in dirty : r \notin Range(chain') /\ r \notin younger => disk'[r] = ref[r]
  BY DEF Saves
<1> QED
  BY <1>1, OrderInvariant, PTL DEF SavedInTime

-----------------------------------------------------------------------------
(* Nested calls: each unpacks what the one below it needs.                 *)

\* A class whose slot is being read is in i2r, and nobody calls for it again.
Leap(f) == f.pc = "inside" /\ f.id \in Classes

\* Each call was made for what the one below it needs; only a class that is read
\* calls for what its fields refer to.
CallsNeed(fs) ==
  \A i \in 1 .. Len(fs) - 1 : fs[i + 1].id \in Needs(fs[i].id, Leap(fs[i]))

\* A record whose class was asked for has it, or finds it being read by a call
\* below it, or waits for it.
ClassThere ==
  \A i \in 1 .. Len(frames) :
    LET f == frames[i] IN
    /\ f.pc = "slot" => f.k = 1
    /\ f.pc = "before" /\ f.id \in Records /\ f.k > 1 =>
         \/ ClassOf[f.id] \in Unpacked
         \/ \E j \in 1 .. i - 1 : frames[j].pc = "inside" /\ frames[j].id = ClassOf[f.id]
         \/ i + 1 \in 1 .. Len(frames) /\ frames[i + 1].id = ClassOf[f.id]

CallsInv == CallsNeed(frames) /\ ClassThere /\ RecursionEnds

(***************************************************************************)
(* What is needed are ids, and the more of them with the fields.           *)
(***************************************************************************)
LEMMA NeedsIds ==
  ASSUME Fields, NEW id \in Ids, NEW more \in BOOLEAN
  PROVE  Needs(id, more) \subseteq Ids /\ Needs(id, more) \subseteq Needs(id, TRUE)
<1>1. CASE id \in Records
  BY <1>1, UnpackAssumption DEF Needs, Fields, Ids
<1>2. CASE id \in Classes
  <2>1. id \notin Records /\ Meta[id] \in Records \cup {Nil}
    BY <1>2, UnpackAssumption
  <2>2. Range(FieldRefs[id]) \subseteq Ids
    <3>1. FieldRefs[id] \in Seq(Ids)
      BY <1>2, UnpackAssumption
    <3> QED
      BY <3>1, ElementOfSeq, LenProperties DEF Range
  <2> QED
    BY <2>1, <2>2 DEF Needs, Ids
<1> QED
  BY <1>1, <1>2 DEF Ids

(***************************************************************************)
(* What a call asks for is what its id needs.                              *)
(***************************************************************************)
LEMMA WantsNeeded ==
  ASSUME Fields, NEW f \in Frame, NEW k \in Nat \ {0}, k <= Len(Wants(f)), f.pc # "slot"
  PROVE  Wants(f)[k] \in Needs(f.id, Leap(f))
<1>1. f.id \in Ids /\ Ids = Classes \cup Records
  BY DEF Frame, Ids
<1>2. Wants(f)[k] \in Ids /\ Wants(f)[k] # Nil
  BY WantsIds, UnpackAssumption
<1>3. CASE f.pc = "before"
  <2>1. Wants(f) = Before(f.id) /\ ~Leap(f)
    BY <1>3 DEF Wants, Leap
  <2>2. CASE f.id \in Records
    <3>1. Wants(f) = <<ClassOf[f.id]>>
      BY <2>1, <2>2 DEF Before
    <3>2. k = 1 /\ Wants(f)[k] = ClassOf[f.id]
      BY <3>1
    <3> QED
      BY <3>2, <1>2, <2>2 DEF Needs
  <2>3. CASE f.id \notin Records
    <3>1. Wants(f) = IF Meta[f.id] = Nil THEN <<>> ELSE <<Meta[f.id]>>
      BY <2>1, <2>3 DEF Before
    <3>2. k = 1 /\ Wants(f)[k] = Meta[f.id]
      BY <3>1
    <3> QED
      BY <3>2, <1>2, <2>3 DEF Needs
  <2> QED
    BY <2>2, <2>3
<1>4. CASE f.pc # "before"
  <2>1. Wants(f) = Inside(f.id) /\ (Leap(f) <=> f.id \in Classes)
    BY <1>4 DEF Wants, Leap, Frame
  <2>2. CASE f.id \in Classes
    <3>1. Wants(f) = FieldRefs[f.id] /\ FieldRefs[f.id] \in Seq(Ids) /\ f.id \notin Records
      BY <2>1, <2>2, UnpackAssumption DEF Inside
    <3>2. Wants(f)[k] \in Range(FieldRefs[f.id])
      BY <3>1, LenProperties DEF Range
    <3> QED
      BY <3>1, <3>2, <1>2, <2>1, <2>2 DEF Needs
  <2>3. CASE f.id \notin Classes
    <3>1. Wants(f) = IF disk[f.id] = Nil THEN <<>> ELSE <<disk[f.id]>>
      BY <2>1, <2>3 DEF Inside
    <3>2. k = 1 /\ Wants(f)[k] = disk[f.id] /\ f.id \in Records
      BY <3>1, <2>3, <1>1
    <3> QED
      BY <3>2, <1>2, <2>1, <2>3 DEF Needs
  <2> QED
    BY <2>2, <2>3
<1> QED
  BY <1>3, <1>4

\* The ids and what each of them needs.
NeedsGraph(more) == [id \in Ids |-> Needs(id, more)]

(***************************************************************************)
(* A path of needs that comes back to where it began is a loop.            *)
(***************************************************************************)
LEMMA PathLoops ==
  ASSUME Fields, NEW more \in BOOLEAN, NEW a \in Nat, NEW b \in Nat, a < b,
         NEW p \in [a .. b -> Ids], p[a] = p[b],
         \A i \in a .. b - 1 : p[i + 1] \in Needs(p[i], more)
  PROVE  Loops(more)
<1> DEFINE g == NeedsGraph(more)
           R == ReachableFrom(g[p[a]], g)
           T == {k \in Nat : a + 1 + k <= b => p[a + 1 + k] \in R}
<1>1. DOMAIN g = Ids /\ \A id \in Ids : g[id] = Needs(id, more) /\ g[id] \subseteq Ids
  BY NeedsIds DEF NeedsGraph
<1>2. p[a] \in Ids
  OBVIOUS
<1> HIDE DEF g
<1>3. g[p[a]] \subseteq R /\ Closed(R, g) /\ R \subseteq Ids
  BY <1>1, <1>2, SeedsReachable, ReachableClosed, ReachableNodes
<1> HIDE DEF R
<1>4. 0 \in T
  <2>1. a \in a .. b - 1
    OBVIOUS
  <2>2. p[a + 1] \in g[p[a]]
    BY <1>1, <1>2, <2>1
  <2> QED
    BY <2>2, <1>3
<1>5. ASSUME NEW k \in T
      PROVE  k + 1 \in T
  <2> SUFFICES ASSUME a + 1 + (k + 1) <= b
               PROVE  p[a + 1 + (k + 1)] \in R
    OBVIOUS
  <2>1. p[a + 1 + k] \in R /\ a + 1 + k \in a .. b - 1 /\ a + 1 + k \in a .. b
    OBVIOUS
  <2>2. p[a + 1 + k + 1] \in Needs(p[a + 1 + k], more) /\ p[a + 1 + k] \in Ids
    BY <2>1
  <2>3. p[a + 1 + k + 1] \in R
    BY <2>1, <2>2, <1>1, <1>3 DEF Closed
  <2>4. a + 1 + k + 1 = a + 1 + (k + 1)
    OBVIOUS
  <2> QED
    BY <2>3, <2>4
<1>6. T = Nat
  <2>1. T \in SUBSET Nat
    OBVIOUS
  <2> HIDE DEF T
  <2> QED
    BY <1>4, <1>5, <2>1, NatInduct
<1>7. p[b] \in R
  <2> DEFINE k == b - a - 1
  <2>1. k \in Nat /\ a + 1 + k = b
    OBVIOUS
  <2> HIDE DEF k
  <2>2. k \in T
    BY <1>6, <2>1
  <2> QED
    BY <2>1, <2>2
<1>8. p[a] \in ReachableFrom(g[p[a]], g)
  BY <1>7 DEF R
<1>9. g = [id \in Ids |-> Needs(id, more)]
  BY DEF g, NeedsGraph
<1>10. p[a] \in ReachableFrom(Needs(p[a], more), g)
  BY <1>1, <1>2, <1>8
<1> QED
  BY <1>2, <1>9, <1>10 DEF Loops

(***************************************************************************)
(* When as many calls are nested as Deep allows, the next one is for an id *)
(* that is called for already, and no class is read in between: the ids of *)
(* the calls together with the number of classes that were read below them *)
(* are fewer than the calls.                                               *)
(***************************************************************************)
LEMMA DeepLoops ==
  ASSUME UInv, IdsInv, CallsNeed(frames), Deep, frames # <<>>, Len(frames) = MaxDepth,
         NEW id, id \in Needs(Top.id, Leap(Top))
  PROVE  Loops(FALSE)
<1> DEFINE n == Len(frames)
           p == [i \in 1 .. n + 1 |-> IF i <= n THEN frames[i].id ELSE id]
           S(i) == {frames[j].id : j \in {k \in 1 .. i - 1 : Leap(frames[k])}}
           f == [i \in 1 .. n + 1 |-> <<p[i], Cardinality(S(i))>>]
<1>1. /\ n \in Nat \ {0} /\ Top = frames[n] /\ \A i \in 1 .. n : frames[i] \in Frame
  BY FrontAndTop, ElementOfSeq DEF UInv, Top
<1>2. \A i \in 1 .. n : frames[i].id \in Ids
  BY <1>1 DEF Frame
<1>3. id \in Ids
  <2>1. Top.id \in Ids /\ Leap(Top) \in BOOLEAN
    BY <1>1, <1>2 DEF Leap
  <2> QED
    BY <2>1, NeedsIds DEF UInv
<1>4. p \in [1 .. n + 1 -> Ids]
  BY <1>1, <1>2, <1>3
<1>5. \A i \in 1 .. n : p[i + 1] \in Needs(p[i], Leap(frames[i]))
  <2> SUFFICES ASSUME NEW i \in 1 .. n
               PROVE  p[i + 1] \in Needs(p[i], Leap(frames[i]))
    OBVIOUS
  <2>1. i \in 1 .. n + 1 /\ i + 1 \in 1 .. n + 1 /\ p[i] = frames[i].id
    BY <1>1
  <2>2. CASE i = n
    <3>1. p[i + 1] = id
      BY <1>1, <2>1, <2>2
    <3> QED
      BY <3>1, <2>1, <2>2, <1>1
  <2>3. CASE i # n
    <3>1. i \in 1 .. n - 1 /\ i + 1 <= n /\ p[i + 1] = frames[i + 1].id
      BY <1>1, <2>1, <2>3
    <3> QED
      BY <3>1, <2>1 DEF CallsNeed
  <2> QED
    BY <2>2, <2>3
<1>6. IsFiniteSet(Classes) /\ Cardinality(Classes) \in Nat
  <2>1. Classes \in SUBSET Ids
    BY DEF Ids
  <2> QED
    BY <2>1, FS_Subset, FS_CardinalityType DEF Deep
<1>7. \A i \in 1 .. n + 1 : S(i) \in SUBSET Classes
  BY DEF Leap
<1>8. \A i \in 1 .. n + 1 : IsFiniteSet(S(i)) /\ Cardinality(S(i)) \in 0 .. Cardinality(Classes)
  <2> SUFFICES ASSUME NEW i \in 1 .. n + 1
               PROVE  IsFiniteSet(S(i)) /\ Cardinality(S(i)) \in 0 .. Cardinality(Classes)
    OBVIOUS
  <2> HIDE DEF S
  <2>1. IsFiniteSet(S(i)) /\ Cardinality(S(i)) <= Cardinality(Classes)
    BY <1>6, <1>7, FS_Subset
  <2>2. Cardinality(S(i)) \in Nat
    BY <2>1, FS_CardinalityType
  <2> QED
    BY <2>1, <2>2, <1>6
<1>9. f \in [1 .. n + 1 -> Ids \X (0 .. Cardinality(Classes))]
  <2> HIDE DEF p, S
  <2> QED
    BY <1>4, <1>8
<1>10. PICK a \in 1 .. n + 1, b \in 1 .. n + 1 : a < b /\ f[a] = f[b]
  <2> DEFINE D == 1 .. n + 1
             C == 0 .. Cardinality(Classes)
  <2>1. IsFiniteSet(D) /\ Cardinality(D) = n + 1
    BY <1>1, FS_Interval
  <2>2. IsFiniteSet(C) /\ Cardinality(C) = Cardinality(Classes) + 1
    BY <1>6, FS_Interval
  <2>3. IsFiniteSet(Ids)
    BY DEF Deep
  <2> HIDE DEF D, C, f
  <2>4. IsFiniteSet(Ids \X C) /\ Cardinality(Ids \X C) = Cardinality(Ids) * Cardinality(C)
    BY <2>2, <2>3, FS_Product
  <2>5. Cardinality(Ids \X C) < Cardinality(D)
    <3>1. n >= Cardinality(Ids) * Cardinality(C)
      BY <2>2 DEF Deep
    <3>2. Cardinality(Ids \X C) \in Nat
      BY <2>4, FS_CardinalityType
    <3> QED
      BY <3>1, <3>2, <2>1, <2>4, <1>1
  <2>6. f \in [D -> Ids \X C]
    BY <1>9 DEF D, C
  <2>7. \E x, y \in D : x # y /\ f[x] = f[y]
    BY <2>1, <2>4, <2>5, <2>6, FS_PigeonHole
  <2>8. PICK x \in D, y \in D : x # y /\ f[x] = f[y]
    BY <2>7
  <2>9. x < y \/ y < x
    BY <1>1, <2>8 DEF D
  <2> QED
    BY <2>8, <2>9 DEF D
<1>11. p[a] = p[b] /\ S(a) = S(b)
  <2>1. p[a] = p[b] /\ Cardinality(S(a)) = Cardinality(S(b))
    <3> HIDE DEF p, S
    <3> QED
      BY <1>10
  <2>2. S(a) \subseteq S(b)
    BY <1>1, <1>10
  <2> HIDE DEF S, p
  <2> QED
    BY <2>1, <2>2, <1>8, FS_Subset
<1>12. ASSUME NEW k \in a .. b - 1
       PROVE  k \in 1 .. n /\ ~Leap(frames[k])
  <2>1. k \in 1 .. n /\ k \in 1 .. b - 1
    BY <1>1
  <2> SUFFICES ASSUME Leap(frames[k])
               PROVE  FALSE
    BY <2>1
  <2>2. frames[k].id \in S(a)
    BY <2>1, <1>11
  <2>3. PICK j \in 1 .. a - 1 : Leap(frames[j]) /\ frames[j].id = frames[k].id
    BY <2>2
  <2>4. j \in 1 .. k - 1
    BY <1>1
  <2> QED
    BY <2>1, <2>3, <2>4 DEF IdsInv, Once, Leap
<1> DEFINE q == [i \in a .. b |-> p[i]]
<1>13. /\ q \in [a .. b -> Ids] /\ q[a] = q[b] /\ a \in Nat /\ b \in Nat
       /\ \A i \in a .. b - 1 : q[i + 1] \in Needs(q[i], FALSE)
  <2>1. \A i \in a .. b : i \in 1 .. n + 1 /\ q[i] = p[i]
    BY <1>1
  <2>2. a \in a .. b /\ b \in a .. b
    BY <1>10
  <2>3. ASSUME NEW i \in a .. b - 1
        PROVE  q[i + 1] \in Needs(q[i], FALSE)
    <3>1. i \in a .. b /\ i + 1 \in a .. b
      OBVIOUS
    <3>2. i \in 1 .. n /\ ~Leap(frames[i])
      BY <1>12
    <3> HIDE DEF p, q
    <3>3. p[i + 1] \in Needs(p[i], Leap(frames[i]))
      BY <3>2, <1>5
    <3>4. Leap(frames[i]) = FALSE
      BY <3>2 DEF Leap
    <3> QED
      BY <3>1, <3>3, <3>4, <2>1
  <2>4. q \in [a .. b -> Ids]
    <3> HIDE DEF p
    <3> QED
      BY <2>1, <1>4
  <2> HIDE DEF p, q
  <2>5. q[a] = q[b]
    BY <2>1, <2>2, <1>11
  <2>6. a \in Nat /\ b \in Nat
    BY <1>1
  <2> QED
    BY <2>3, <2>4, <2>5, <2>6
<1> HIDE DEF q
<1> QED
  BY <1>10, <1>13, PathLoops DEF UInv

(***************************************************************************)
(* A record that finds its class half read was called for by the class.    *)
(***************************************************************************)
LEMMA HalfLoops ==
  ASSUME UInv, CallsInv, Ready("before"), Top.id \in Records, ClassOf[Top.id] \notin Unpacked
  PROVE  Loops(TRUE)
<1> DEFINE n == Len(frames)
           c == ClassOf[Top.id]
<1>1. /\ n \in Nat \ {0} /\ Top = frames[n] /\ Top \in Frame
      /\ \A i \in 1 .. n : frames[i] \in Frame
  BY FrontAndTop, ElementOfSeq DEF UInv, Top, Ready
<1>2. \A i \in 1 .. n : frames[i].id \in Ids
  BY <1>1 DEF Frame
<1>3. c \in Ids /\ c # Nil
  BY UnpackAssumption DEF Ids
<1>4. Top.k > 1
  <2>1. Wants(Top) = <<c>> /\ Top.k > Len(Wants(Top))
    BY DEF Ready, Wants, Before
  <2> QED
    BY <2>1
<1> HIDE DEF c
<1>5. PICK j \in 1 .. n - 1 : frames[j].id = c
  <2>1. n \in 1 .. n /\ n + 1 \notin 1 .. n /\ Top.pc = "before"
    BY <1>1 DEF Ready
  <2> QED
    BY <2>1, <1>1, <1>4 DEF CallsInv, ClassThere, c
<1> DEFINE b == n + 1
           p == [i \in j .. b |-> IF i <= n THEN frames[i].id ELSE c]
<1>6. /\ p \in [j .. b -> Ids] /\ j \in Nat /\ b \in Nat /\ j < b
      /\ p[j] = p[b]
  BY <1>1, <1>2, <1>3, <1>5
<1>7. \A i \in j .. b - 1 : p[i + 1] \in Needs(p[i], TRUE)
  <2> SUFFICES ASSUME NEW i \in j .. b - 1
               PROVE  p[i + 1] \in Needs(p[i], TRUE)
    OBVIOUS
  <2>1. i \in 1 .. n /\ i \in j .. b /\ i + 1 \in j .. b /\ p[i] = frames[i].id
    BY <1>1
  <2>2. CASE i = n
    <3>1. p[i + 1] = c /\ p[i] = Top.id
      BY <1>1, <2>1, <2>2
    <3>2. c \in Needs(Top.id, TRUE)
      BY <1>3 DEF Needs, c
    <3> QED
      BY <3>1, <3>2
  <2>3. CASE i # n
    <3>1. i \in 1 .. n - 1 /\ i + 1 <= n /\ p[i + 1] = frames[i + 1].id
      BY <1>1, <2>1, <2>3
    <3>2. p[i + 1] \in Needs(p[i], Leap(frames[i]))
      BY <3>1, <2>1 DEF CallsInv, CallsNeed
    <3>3. Needs(p[i], Leap(frames[i])) \subseteq Needs(p[i], TRUE)
      BY <2>1, <1>2, NeedsIds DEF UInv, Leap
    <3> QED
      BY <3>2, <3>3
  <2> QED
    BY <2>2, <2>3
<1> HIDE DEF p, b
<1>8. Fields
  BY DEF UInv
<1> QED
  BY <1>6, <1>7, <1>8, PathLoops

(***************************************************************************)
(* Needs depend on what is in the file only.                               *)
(***************************************************************************)
LEMMA NeedsStay ==
  ASSUME disk' = disk
  PROVE  /\ \A id, more : Needs(id, more)' = Needs(id, more)
         /\ \A more : Loops(more)' = Loops(more)
<1>1. \A id, more : Needs(id, more)' = Needs(id, more)
  BY DEF Needs
<1> QED
  BY <1>1 DEF Loops

(***************************************************************************)
(* The same calls need the same.                                           *)
(***************************************************************************)
LEMMA AlikeNeed ==
  ASSUME NEW fs \in Seq(Frame), NEW gs, CallsNeed(fs), NEW n \in Nat, n <= Len(fs), Len(gs) = n,
         \A i \in 1 .. n : gs[i].id = fs[i].id,
         \A i \in 1 .. n - 1 : Leap(gs[i]) = Leap(fs[i])
  PROVE  CallsNeed(gs)
<1> SUFFICES ASSUME NEW i \in 1 .. n - 1
             PROVE  gs[i + 1].id \in Needs(gs[i].id, Leap(gs[i]))
  BY DEF CallsNeed
<1>1. Len(fs) \in Nat
  BY LenProperties
<1>2. i \in 1 .. n /\ i + 1 \in 1 .. n /\ i \in 1 .. Len(fs) - 1
  BY <1>1
<1> QED
  BY <1>2 DEF CallsNeed

(***************************************************************************)
(* No call, no hazard.                                                     *)
(***************************************************************************)
LEMMA NoCallsInv ==
  ASSUME Len(frames) = 0
  PROVE  CallsNeed(frames) /\ ClassThere
BY DEF CallsNeed, ClassThere

(***************************************************************************)
(* The client asks for an id.                                              *)
(***************************************************************************)
LEMMA CallsGet ==
  ASSUME UInv, CallsInv, NEW id \in Ids, Get(id)
  PROVE  CallsInv'
<1>1. disk' = disk /\ fault' # "endless" /\ fault' # "half"
  BY DEF Get, Quiet
<1>2. RecursionEnds'
  BY <1>1 DEF RecursionEnds
<1>3. CASE frames' = frames
  <2>1. chain' = chain
    BY DEF Get
  <2> QED
    BY <1>2, <1>3, <1>1, <2>1, NeedsStay DEF CallsInv, CallsNeed, ClassThere, Unpacked
<1>4. CASE frames' = <<Calling(id)>>
  <2>1. Len(frames') = 1 /\ frames'[1].pc = "slot" /\ frames'[1].k = 1
    BY <1>4 DEF Calling
  <2>2. ClassThere'
    BY <2>1 DEF ClassThere
  <2>3. CallsNeed(frames')
    BY <2>1 DEF CallsNeed
  <2> QED
    BY <1>2, <2>2, <2>3, <1>1, NeedsStay DEF CallsInv, CallsNeed
<1> QED
  BY <1>3, <1>4 DEF Get

(***************************************************************************)
(* spman_get.                                                              *)
(***************************************************************************)
LEMMA CallsSlot ==
  ASSUME UInv, CallsInv, Slot
  PROVE  CallsInv'
<1> DEFINE n == Len(frames)
<1>1. disk' = disk /\ chain' = chain /\ fault' = "none"
  BY DEF Slot
<1>2. /\ n \in Nat \ {0} /\ Len(frames') = n /\ Alike(frames, frames', n - 1)
      /\ frames[n].pc = "slot" /\ frames'[n].pc = "before" /\ frames'[n].id = frames[n].id
      /\ frames'[n].k = frames[n].k
  BY SlotFrames
<1>3. frames[n].k = 1
  BY <1>2 DEF CallsInv, ClassThere
<1>4. \A i \in 1 .. n : frames'[i].id = frames[i].id
  BY <1>2 DEF Alike
<1>5. \A i \in 1 .. n - 1 : frames'[i].pc = frames[i].pc /\ frames'[i].k = frames[i].k
  BY <1>2 DEF Alike
<1>6. CallsNeed(frames')
  <2>1. \A i \in 1 .. n - 1 : Leap(frames'[i]) = Leap(frames[i])
    <3>1. \A i \in 1 .. n - 1 : i \in 1 .. n
      BY <1>2
    <3> QED
      BY <3>1, <1>4, <1>5 DEF Leap
  <2> DEFINE gs == frames'
  <2>2. Len(gs) = n /\ \A i \in 1 .. n : gs[i].id = frames[i].id
    BY <1>2, <1>4
  <2>3. \A i \in 1 .. n - 1 : Leap(gs[i]) = Leap(frames[i])
    BY <2>1
  <2> HIDE DEF gs
  <2>4. CallsNeed(gs)
    BY <2>2, <2>3, <1>2, AlikeNeed DEF UInv, CallsInv
  <2> QED
    BY <2>4 DEF gs
<1>7. ClassThere'
  <2> SUFFICES ASSUME NEW i \in 1 .. n
               PROVE  /\ frames'[i].pc = "slot" => frames'[i].k = 1
                      /\ frames'[i].pc = "before" /\ frames'[i].id \in Records /\ frames'[i].k > 1 =>
                           \/ ClassOf[frames'[i].id] \in Unpacked
                           \/ \E j \in 1 .. i - 1 : frames'[j].pc = "inside" /\ frames'[j].id = ClassOf[frames'[i].id]
                           \/ i + 1 \in 1 .. n /\ frames'[i + 1].id = ClassOf[frames'[i].id]
    BY <1>1, <1>2 DEF ClassThere, Unpacked
  <2>1. CASE i = n
    BY <2>1, <1>2, <1>3
  <2>2. CASE i \in 1 .. n - 1
    <3>1. \A j \in 1 .. i - 1 : j \in 1 .. n - 1 /\ j \in 1 .. n
      BY <2>2, <1>2
    <3> QED
      BY <2>2, <3>1, <1>2, <1>4, <1>5 DEF CallsInv, ClassThere
  <2> QED
    BY <2>1, <2>2, <1>2
<1> QED
  BY <1>1, <1>6, <1>7, NeedsStay DEF CallsInv, CallsNeed, RecursionEnds

(***************************************************************************)
(* What is asked for is there, or called for, or the calls are nested too  *)
(* deep.                                                                   *)
(***************************************************************************)
LEMMA CallsWant ==
  ASSUME UInv, IdsInv, CallsInv, Want, Deep
  PROVE  CallsInv'
<1> DEFINE n == Len(frames)
           id == Wants(Top)[Top.k]
<1>1. disk' = disk /\ chain' = chain /\ frames # <<>>
  BY DEF Want, Waiting
<1>2. /\ n \in Nat \ {0} /\ Top = frames[n] /\ Top \in Frame /\ Top.pc # "slot"
      /\ Top.k \in Nat \ {0} /\ Top.k <= Len(Wants(Top)) /\ id \in Ids
      /\ \/ frames' = frames
         \/ /\ Len(frames') \in {n, n + 1} /\ Alike(frames, frames', n - 1)
            /\ frames'[n].id = Top.id /\ frames'[n].pc = Top.pc /\ frames'[n].k = Top.k + 1
            /\ Len(frames') = n => id \in i2r /\ (id \in Unpacked \/ \E i \in Reading : frames[i].id = id)
            /\ Len(frames') = n + 1 => frames'[n + 1].id = id /\ frames'[n + 1].pc = "slot"
  BY WantFrames
<1>3. id \in Needs(Top.id, Leap(Top))
  <2> HIDE DEF n
  <2> QED
    BY <1>2, WantsNeeded DEF UInv
<1>4. RecursionEnds'
  <2>1. fault' # "half"
    BY DEF Want, Waiting
  <2>2. fault' = "endless" => n = MaxDepth
    BY DEF Want, Waiting
  <2>3. fault' = "endless" => Loops(FALSE)
    <3> HIDE DEF id
    <3> QED
      BY <2>2, <1>1, <1>3, DeepLoops DEF CallsInv
  <2> QED
    BY <2>1, <2>3, <1>1, NeedsStay DEF RecursionEnds
<1>5. Len(frames') = n + 1 => frames'[n + 1].k = 1
  <2> SUFFICES ASSUME Len(frames') = n + 1
               PROVE  frames'[n + 1].k = 1
    OBVIOUS
  <2> DEFINE on == Append(Front(frames), [Top EXCEPT !.k = @ + 1])
  <2>1. on \in Seq(Frame) /\ Len(on) = n
    <3>1. [Top EXCEPT !.k = @ + 1] \in Frame
      BY <1>2 DEF Frame
    <3> QED
      BY <3>1, <1>1, TopReplaced DEF UInv
  <2>2. frames' = frames \/ frames' = on \/ frames' = Append(on, Calling(id))
    BY DEF Want
  <2>3. frames' = Append(on, Calling(id))
    <3> HIDE DEF on
    <3> QED
      BY <2>1, <2>2, <1>2
  <2>4. Calling(id) \in Frame /\ Calling(id).k = 1
    BY <1>2, CallingFrame DEF Calling
  <2> HIDE DEF on, id
  <2> QED
    BY <2>1, <2>3, <2>4, AppendProperties
<1> HIDE DEF id
<1>6. CASE frames' = frames
  BY <1>1, <1>4, <1>6, NeedsStay DEF CallsInv, CallsNeed, ClassThere, Unpacked
<1>7. CASE frames' # frames
  <2>1. \A i \in 1 .. n : frames'[i].id = frames[i].id /\ frames'[i].pc = frames[i].pc
    BY <1>2, <1>7 DEF Alike
  <2>2. \A i \in 1 .. n - 1 : frames'[i].k = frames[i].k
    BY <1>2, <1>7 DEF Alike
  <2>3. \A i \in 1 .. n : Leap(frames'[i]) = Leap(frames[i])
    BY <2>1 DEF Leap
  <2>4. CallsNeed(frames')
    <3> SUFFICES ASSUME NEW i \in 1 .. Len(frames') - 1
                 PROVE  frames'[i + 1].id \in Needs(frames'[i].id, Leap(frames'[i]))
      BY DEF CallsNeed
    <3>1. CASE i = n
      <4>1. Len(frames') = n + 1 /\ frames'[i + 1].id = id /\ frames'[i].id = Top.id
        BY <3>1, <1>2, <1>7
      <4>2. Leap(frames'[i]) = Leap(Top)
        BY <3>1, <2>3, <1>2
      <4> QED
        BY <4>1, <4>2, <1>3
    <3>2. CASE i \in 1 .. n - 1
      <4>1. i \in 1 .. n /\ i + 1 \in 1 .. n
        BY <3>2, <1>2
      <4>2. frames[i + 1].id \in Needs(frames[i].id, Leap(frames[i]))
        BY <3>2 DEF CallsInv, CallsNeed
      <4> QED
        BY <4>1, <4>2, <2>1, <2>3
    <3> QED
      BY <3>1, <3>2, <1>2, <1>7
  <2>5. ClassThere'
    <3> SUFFICES ASSUME NEW i \in 1 .. Len(frames')
                 PROVE  /\ frames'[i].pc = "slot" => frames'[i].k = 1
                        /\ frames'[i].pc = "before" /\ frames'[i].id \in Records /\ frames'[i].k > 1 =>
                             \/ ClassOf[frames'[i].id] \in Unpacked
                             \/ \E j \in 1 .. i - 1 : frames'[j].pc = "inside" /\ frames'[j].id = ClassOf[frames'[i].id]
                             \/ i + 1 \in 1 .. Len(frames') /\ frames'[i + 1].id = ClassOf[frames'[i].id]
      BY <1>1 DEF ClassThere, Unpacked
    <3>1. CASE i = n + 1
      BY <3>1, <1>2, <1>5, <1>7
    <3>2. CASE i = n
      <4> SUFFICES ASSUME Top.pc = "before", Top.id \in Records
                   PROVE  \/ ClassOf[Top.id] \in Unpacked
                          \/ \E j \in 1 .. n - 1 : frames'[j].pc = "inside" /\ frames'[j].id = ClassOf[Top.id]
                          \/ n + 1 \in 1 .. Len(frames') /\ frames'[n + 1].id = ClassOf[Top.id]
        BY <3>2, <2>1, <1>2
      <4>1. id = ClassOf[Top.id]
        <5>1. Wants(Top) = <<ClassOf[Top.id]>>
          BY DEF Wants, Before
        <5>2. Top.k = 1
          BY <5>1, <1>2
        <5> QED
          BY <5>1, <5>2 DEF id
      <4>2. CASE Len(frames') = n + 1
        <5>1. n + 1 \in 1 .. Len(frames')
          BY <4>2, <1>2
        <5> QED
          BY <5>1, <4>1, <4>2, <1>2, <1>7
      <4>3. CASE Len(frames') = n
        <5>1. id \in Unpacked \/ \E j \in Reading : frames[j].id = id
          BY <4>3, <1>2, <1>7
        <5>2. ASSUME NEW j \in Reading, frames[j].id = id
              PROVE  j \in 1 .. n - 1 /\ frames'[j].pc = "inside" /\ frames'[j].id = id
          <6>1. j \in 1 .. n /\ frames[j].pc = "inside"
            BY DEF Reading
          <6>2. j # n
            BY <6>1, <1>2
          <6>3. j \in 1 .. n - 1
            BY <6>1, <6>2, <1>2
          <6> QED
            BY <6>1, <6>3, <5>2, <2>1
        <5> QED
          BY <5>1, <5>2, <4>1
      <4> QED
        BY <4>2, <4>3, <1>2, <1>7
    <3>3. CASE i \in 1 .. n - 1
      <4>1. /\ i \in 1 .. n /\ \A j \in 1 .. i - 1 : j \in 1 .. n
            /\ i + 1 \in 1 .. n /\ i + 1 \in 1 .. Len(frames')
        BY <3>3, <1>2, <1>7
      <4> QED
        BY <3>3, <4>1, <2>1, <2>2 DEF CallsInv, ClassThere
    <3> QED
      BY <3>1, <3>2, <3>3, <1>2, <1>7
  <2> QED
    BY <2>4, <2>5, <1>1, <1>4, NeedsStay DEF CallsInv, CallsNeed
<1> QED
  BY <1>6, <1>7

(***************************************************************************)
(* The call on top begins to read; a record whose class is not there was   *)
(* called for by the class.                                                *)
(***************************************************************************)
LEMMA CallsPin ==
  ASSUME UInv, CallsInv, Pin
  PROVE  CallsInv'
<1> DEFINE n == Len(frames)
<1>1. disk' = disk /\ chain' = chain
  BY DEF Pin
<1>2. RecursionEnds'
  <2>1. fault' # "endless"
    BY DEF Pin, Ready
  <2>2. fault' = "half" => Top.id \in Records /\ ClassOf[Top.id] \notin Unpacked /\ Ready("before")
    BY DEF Pin, Ready
  <2> QED
    BY <2>1, <2>2, <1>1, HalfLoops, NeedsStay DEF RecursionEnds
<1>3. \/ frames' = frames
      \/ /\ n \in Nat \ {0} /\ Len(frames') = n /\ Alike(frames, frames', n - 1)
         /\ frames'[n].pc = "inside" /\ frames'[n].id = frames[n].id
  BY PinFrames
<1>4. CASE frames' = frames
  BY <1>1, <1>2, <1>4, NeedsStay DEF CallsInv, CallsNeed, ClassThere, Unpacked
<1>5. CASE frames' # frames
  <2>1. \A i \in 1 .. n : frames'[i].id = frames[i].id
    BY <1>3, <1>5 DEF Alike
  <2>2. \A i \in 1 .. n - 1 : frames'[i].pc = frames[i].pc /\ frames'[i].k = frames[i].k
    BY <1>3, <1>5 DEF Alike
  <2>3. CallsNeed(frames')
    <3> DEFINE gs == frames'
    <3>1. Len(gs) = n /\ \A i \in 1 .. n : gs[i].id = frames[i].id
      BY <1>3, <1>5, <2>1
    <3>2. \A i \in 1 .. n - 1 : Leap(gs[i]) = Leap(frames[i])
      BY <2>1, <2>2, <1>3, <1>5 DEF Leap
    <3>3. n \in Nat /\ n <= Len(frames)
      BY <1>3, <1>5
    <3> HIDE DEF gs
    <3>4. CallsNeed(gs)
      BY <3>1, <3>2, <3>3, AlikeNeed DEF UInv, CallsInv
    <3> QED
      BY <3>4 DEF gs
  <2>4. ClassThere'
    <3> SUFFICES ASSUME NEW i \in 1 .. n
                 PROVE  /\ frames'[i].pc = "slot" => frames'[i].k = 1
                        /\ frames'[i].pc = "before" /\ frames'[i].id \in Records /\ frames'[i].k > 1 =>
                             \/ ClassOf[frames'[i].id] \in Unpacked
                             \/ \E j \in 1 .. i - 1 : frames'[j].pc = "inside" /\ frames'[j].id = ClassOf[frames'[i].id]
                             \/ i + 1 \in 1 .. n /\ frames'[i + 1].id = ClassOf[frames'[i].id]
      BY <1>1, <1>3, <1>5 DEF ClassThere, Unpacked
    <3>1. CASE i = n
      BY <3>1, <1>3, <1>5
    <3>2. CASE i \in 1 .. n - 1
      <4>1. \A j \in 1 .. i - 1 : j \in 1 .. n - 1 /\ j \in 1 .. n
        BY <3>2, <1>3, <1>5
      <4> QED
        BY <3>2, <4>1, <1>3, <1>5, <2>1, <2>2 DEF CallsInv, ClassThere
    <3> QED
      BY <3>1, <3>2, <1>3, <1>5
  <2> QED
    BY <2>3, <2>4, <1>1, <1>2, NeedsStay DEF CallsInv, CallsNeed
<1> QED
  BY <1>4, <1>5

(***************************************************************************)
(* The call on top returns, and what it was called for is there.           *)
(***************************************************************************)
LEMMA CallsDone ==
  ASSUME UInv, IdsInv, CallsInv, Done
  PROVE  CallsInv'
<1> DEFINE n == Len(frames)
<1>1. disk' = disk /\ fault' = "none"
  BY DEF Done, Ready
<1>2. Unpacked' = Unpacked \cup {Top.id}
  BY IdsDone
<1>3. /\ n \in Nat \ {0} /\ Top = frames[n]
      /\ Len(frames') = n - 1 /\ Alike(frames, frames', n - 1)
  BY DoneFrames
<1>4. \A i \in 1 .. n - 1 :
        frames'[i].id = frames[i].id /\ frames'[i].pc = frames[i].pc /\ frames'[i].k = frames[i].k
  BY <1>3 DEF Alike
<1>5. CallsNeed(frames')
  <2> DEFINE gs == frames'
             m  == n - 1
  <2>1. m \in Nat /\ Len(gs) = m /\ m <= n /\ \A i \in 1 .. m : gs[i].id = frames[i].id
    BY <1>3, <1>4
  <2>2. \A i \in 1 .. m - 1 : Leap(gs[i]) = Leap(frames[i])
    <3>1. \A i \in 1 .. m - 1 : i \in 1 .. m
      BY <2>1
    <3> QED
      BY <3>1, <1>4 DEF Leap
  <2> HIDE DEF gs, m
  <2>3. CallsNeed(gs)
    BY <2>1, <2>2, AlikeNeed DEF UInv, CallsInv
  <2> QED
    BY <2>3 DEF gs
<1>6. ClassThere'
  <2> SUFFICES ASSUME NEW i \in 1 .. n - 1
               PROVE  /\ frames[i].pc = "slot" => frames[i].k = 1
                      /\ frames[i].pc = "before" /\ frames[i].id \in Records /\ frames[i].k > 1 =>
                           \/ ClassOf[frames[i].id] \in Unpacked'
                           \/ \E j \in 1 .. i - 1 : frames'[j].pc = "inside" /\ frames'[j].id = ClassOf[frames[i].id]
                           \/ i + 1 \in 1 .. n - 1 /\ frames'[i + 1].id = ClassOf[frames[i].id]
    BY <1>3, <1>4 DEF ClassThere
  <2>1. i \in 1 .. n /\ i + 1 \in 1 .. n /\ \A j \in 1 .. i - 1 : j \in 1 .. n - 1
    BY <1>3
  <2>2. i + 1 = n \/ i + 1 \in 1 .. n - 1
    BY <1>3
  <2> QED
    BY <2>1, <2>2, <1>2, <1>3, <1>4 DEF CallsInv, ClassThere
<1>7. RecursionEnds'
  BY <1>1 DEF RecursionEnds
<1> QED
  BY <1>1, <1>5, <1>6, <1>7, NeedsStay DEF CallsInv, CallsNeed

(***************************************************************************)
(* Without calls there is nothing to show.                                 *)
(***************************************************************************)
LEMMA CallsOver ==
  ASSUME frames' = <<>>, fault' = "none"
  PROVE  CallsInv'
<1>1. Len(frames') = 0
  BY EmptySeq
<1>2. CallsNeed(frames)' /\ ClassThere'
  BY <1>1 DEF CallsNeed, ClassThere
<1> QED
  BY <1>2 DEF CallsInv, RecursionEnds

(***************************************************************************)
(* The other steps are taken without calls, or end them all.               *)
(***************************************************************************)
LEMMA CallsRest ==
  ASSUME UInv, CallsInv,
         \/ Fail
         \/ \E r \in Records, v \in (Records \cap Unpacked) \cup {Nil} : Set(r, v)
         \/ \E r \in Records : Touch(r)
         \/ \E keep \in SUBSET Unpacked : Collect(keep)
         \/ \E i \in 1 .. Len(chain) : ClearNext(i)
         \/ UNCHANGED vars
  PROVE  CallsInv'
<1>1. CASE Fail
  BY <1>1, CallsOver DEF Fail
<1>2. ASSUME NEW r \in Records, NEW v, Set(r, v) PROVE CallsInv'
  BY <1>2, CallsOver DEF Set, Quiet
<1>3. ASSUME NEW r \in Records, Touch(r) PROVE CallsInv'
  BY <1>3, CallsOver DEF Touch, Quiet
<1>4. ASSUME NEW keep, Collect(keep) PROVE CallsInv'
  BY <1>4, CallsOver DEF Collect, Quiet
<1>5. ASSUME NEW i \in 1 .. Len(chain), ClearNext(i) PROVE CallsInv'
  <2>1. doomed # {}
    BY <1>5 DEF ClearNext, NextDoomed
  <2> QED
    BY <1>5, <2>1, CallsOver, CallsOrSweep DEF ClearNext
<1>6. CASE UNCHANGED vars
  BY <1>6, NeedsStay DEF vars, CallsInv, CallsNeed, ClassThere, RecursionEnds, Unpacked
<1> QED
  BY <1>1, <1>2, <1>3, <1>4, <1>5, <1>6

(***************************************************************************)
(* When calls may nest deep enough, calls without end, and records that    *)
(* are read by half a class, are there only if the records in the file     *)
(* lead back to themselves.                                                *)
(***************************************************************************)
THEOREM UnpackingEnds ==
  ASSUME Deep
  PROVE  Spec => []RecursionEnds
<1>1. Init => CallsInv
  <2> SUFFICES ASSUME Init PROVE CallsInv
    OBVIOUS
  <2>1. Len(frames) = 0 /\ fault = "none"
    BY DEF Init
  <2> QED
    BY <2>1, NoCallsInv DEF CallsInv, RecursionEnds
<1>2. AllInv /\ CallsInv /\ [Next]_vars => CallsInv'
  BY CallsGet, CallsSlot, CallsWant, CallsPin, CallsDone, CallsRest DEF AllInv, Next
<1>3. CallsInv => RecursionEnds
  BY DEF CallsInv
<1> QED
  BY <1>1, <1>2, <1>3, OrderInvariant, PTL DEF Spec

=============================================================================

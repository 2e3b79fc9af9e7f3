----------------------------- MODULE SpmanProofs -----------------------------
(***************************************************************************)
(* Proofs about the page manager of module Spman, for every number of      *)
(* pages, slots and maps, with crashes and failing system calls: records   *)
(* keep their place, and spman_add leaves only full pages behind; slots do *)
(* not overlap, the maps in memory agree with the file, and all of it is   *)
(* in range.                                                               *)
(***************************************************************************)
EXTENDS Spman, BasicProofs, SequenceTheorems, FiniteSetTheorems

-----------------------------------------------------------------------------
(* The inductive invariant.                                                *)

\* A page of the file.
PageRec == {g \in [pn : Nat \ {0}, slots : Seq(Slot)] : Len(g.slots) <= SlotsMax}

\* The header never counts more pages than the open store, and neither counts
\* more than the file has; maps are of pages that are counted.
Counts ==
  /\ file \in Seq(PageRec)
  /\ hdrcnt \in 0 .. Len(file) /\ cnt \in 0 .. Len(file)
  /\ up => hdrcnt <= cnt
  /\ ~up => cnt = 0 /\ add = NoAdd
  /\ DOMAIN maps \subseteq 1 .. cnt
  /\ anum \in Nat \ {0} /\ (anum = 1 \/ anum <= cnt)
  /\ add \in [size : Nat, at : Nat]
  /\ add # NoAdd => up /\ add.size \in Sizes /\ add.at \in Nat \ {0}

\* Pages before the one where spman_add starts or looks next are full.
FullBefore(n) == \A p \in 1 .. cnt : p < n => Len(file[p].slots) = SlotsMax

LookedFull == ~failed => FullBefore(anum) /\ (add # NoAdd => FullBefore(add.at))

SInv == Counts /\ OnlyLastPageHasSlots /\ LookedFull

\* What RecordsStay says of one step.
Stay ==
  \A p \in 1 .. (IF up /\ up' THEN cnt ELSE hdrcnt') :
    p \in DOMAIN file' /\ IsPrefix(file[p].slots, file'[p].slots)

-----------------------------------------------------------------------------
(* The helpers.                                                            *)

(***************************************************************************)
(* What the assumption on the constants says, and ALIGN2 does not shrink.  *)
(***************************************************************************)
LEMMA Constants ==
  /\ Chunk \in Nat \ {0} /\ SlotsMax \in Nat \ {0}
  /\ \A size \in Sizes : size \in Nat /\ Align2(size) \in Nat /\ Align2(size) >= size
<1>1. Chunk \in Nat \ {0} /\ SlotsMax \in Nat \ {0} /\ Sizes \subseteq Nat \ {0}
  BY ConstantsAssumption
<1>2. ASSUME NEW size \in Sizes
      PROVE  size \in Nat /\ Align2(size) \in Nat /\ Align2(size) >= size
  <2>1. size \in Nat
    BY <1>1
  <2> QED
    BY <2>1 DEF Align2
<1> QED
  BY <1>1, <1>2

(***************************************************************************)
(* Room is made in the cache by dropping maps (spman_unload).              *)
(***************************************************************************)
LEMMA EvictedMaps ==
  ASSUME NEW ms, NEW es \in Evicted(ms)
  PROVE  DOMAIN es \subseteq DOMAIN ms
BY DEF Evicted, Unloaded, Restrict

(***************************************************************************)
(* spman_load leaves no map of a page but those that were there and the    *)
(* one that is loaded.                                                     *)
(***************************************************************************)
LEMMA LoadedMaps ==
  ASSUME NEW ms, NEW pages, NEW p, NEW es \in Loaded(ms, pages, p)
  PROVE  DOMAIN es \subseteq DOMAIN ms \cup {p} /\ p \in DOMAIN es
<1>1. CASE p \in DOMAIN ms
  BY <1>1 DEF Loaded
<1>2. CASE p \notin DOMAIN ms
  <2>1. PICK ls \in Evicted(ms) :
               es = [q \in DOMAIN ls \cup {p} |-> IF q = p THEN MapOf(pages, p) ELSE ls[q]]
    BY <1>2 DEF Loaded
  <2>2. DOMAIN es = DOMAIN ls \cup {p}
    BY <2>1
  <2> QED
    BY <2>2, EvictedMaps
<1> QED
  BY <1>1, <1>2

(***************************************************************************)
(* The size of a page in chunks.                                           *)
(***************************************************************************)
LEMMA ChunksNat == ASSUME NEW n \in Nat PROVE ChunksFor(n) \in Nat
<1>1. n + Chunk - 1 \in Nat
  BY Constants
<1>2. (n + Chunk - 1) \div Chunk \in Nat
  BY <1>1, Constants
<1> QED
  BY <1>2 DEF ChunksFor

(***************************************************************************)
(* The larger of two sizes is one of them.                                 *)
(***************************************************************************)
LEMMA MaxOfTwo ==
  ASSUME NEW a \in Nat, NEW b \in Nat
  PROVE  Max({a, b}) \in {a, b} /\ Max({a, b}) >= a /\ Max({a, b}) >= b
<1>1. \E x \in {a, b} : \A y \in {a, b} : x >= y
  OBVIOUS
<1> QED
  BY <1>1 DEF Max

(***************************************************************************)
(* spmap_alloc finds room only in a page that is not full, and grows only  *)
(* the last page.                                                          *)
(***************************************************************************)
LEMMA RoomIn ==
  ASSUME NEW pages \in Seq(PageRec), NEW p \in 1 .. Len(pages), NEW known,
         NEW size \in Sizes, NEW r \in Rooms(pages, p, known, size)
  PROVE  /\ r.at \in Nat /\ r.pn \in Nat \ {0}
         /\ Len(pages[p].slots) < SlotsMax
         /\ r.pn > pages[p].pn => p = Len(pages)
<1> DEFINE slots == pages[p].slots
           n     == Len(slots)
           off   == IF n = 0 THEN HdrSize ELSE slots[n].at + Align2(slots[n].size)
           pn    == ChunksFor(off + HdrSize + Align2(size))
<1>1. pages[p] \in PageRec
  BY ElementOfSeq
<1>2. slots \in Seq(Slot) /\ pages[p].pn \in Nat \ {0} /\ n \in Nat
  BY <1>1, LenProperties DEF PageRec
<1>3. off \in Nat
  <2>1. CASE n # 0
    <3>1. slots[n] \in Slot
      BY <2>1, <1>2, ElementOfSeq
    <3> QED
      BY <2>1, <3>1, Constants DEF Slot
  <2> QED
    BY <2>1 DEF HdrSize
<1>4. off + HdrSize + Align2(size) \in Nat
  BY <1>3, Constants DEF HdrSize
<1>5. pn \in Nat
  BY <1>4, ChunksNat
<1>6. Max({pn, pages[p].pn}) \in Nat \ {0}
  BY <1>2, <1>5, MaxOfTwo
<1> HIDE DEF off, pn
<1>7. r \in IF n = 0 \/ n \in known
              THEN {[at |-> off + HdrSize, pn |-> Max({pn, pages[p].pn})]}
              ELSE {[at |-> Nowhere, pn |-> pages[p].pn + k] : k \in {0, 1}}
  BY DEF Rooms, off, pn
<1>8. n < SlotsMax /\ (r.pn = pages[p].pn \/ p = Len(pages))
  BY DEF Rooms
<1>9. r.at \in Nat /\ r.pn \in Nat \ {0}
  BY <1>2, <1>3, <1>6, <1>7 DEF HdrSize, Nowhere
<1> QED
  BY <1>2, <1>8, <1>9

(***************************************************************************)
(* spmap_alloc adds one slot at the end of page p, and of the other pages  *)
(* of the store it changes none.                                           *)
(***************************************************************************)
LEMMA AllocEffect ==
  ASSUME NEW pages \in Seq(PageRec), NEW rest \in Seq(PageRec), NEW ms,
         NEW p \in 1 .. Len(pages), NEW size \in Sizes,
         AllocIn(pages, rest, ms, p, size)
  PROVE  /\ file' \in Seq(PageRec)
         /\ Len(pages[p].slots) < SlotsMax
         /\ Len(file') >= Len(pages)
         /\ \A q \in 1 .. Len(pages) : q # p => file'[q] = pages[q]
         /\ IsPrefix(pages[p].slots, file'[p].slots)
         /\ DOMAIN maps' = DOMAIN ms
         /\ anum' = p
<1> PICK r \in Rooms(pages, p, ms[p].known, size) :
           LET new   == Append(pages[p].slots, [at |-> r.at, size |-> size])
               grown == r.pn > pages[p].pn
           IN  /\ file' = IF grown
                            THEN Append(SubSeq(pages, 1, p - 1), [pn |-> r.pn, slots |-> new])
                            ELSE [pages EXCEPT ![p].slots = new] \o rest
               /\ DOMAIN maps' = DOMAIN ms
               /\ anum' = p
  BY DEF AllocIn
<1> DEFINE slots == pages[p].slots
           new   == Append(slots, [at |-> r.at, size |-> size])
<1>1. /\ r.at \in Nat /\ r.pn \in Nat \ {0}
      /\ Len(slots) < SlotsMax
      /\ r.pn > pages[p].pn => p = Len(pages)
  BY RoomIn
<1>2. pages[p] \in PageRec /\ slots \in Seq(Slot) /\ Len(slots) \in Nat /\ Len(pages) \in Nat
  BY ElementOfSeq, LenProperties DEF PageRec
<1>3. [at |-> r.at, size |-> size] \in Slot
  BY <1>1 DEF Slot
<1>4. /\ new \in Seq(Slot) /\ Len(new) = Len(slots) + 1
      /\ \A k \in 1 .. Len(slots) : new[k] = slots[k]
  BY <1>2, <1>3, AppendProperties
<1>5. IsPrefix(slots, new)
  <2>1. Len(slots) <= Len(new)
    BY <1>2, <1>4
  <2>2. SubSeq(slots, 1, Len(slots)) = SubSeq(new, 1, Len(slots))
    <3>1. \A k \in 1 .. Len(slots) : slots[k] \in Slot /\ new[k] = slots[k]
      BY <1>2, <1>4, ElementOfSeq
    <3>2. /\ SubSeq(slots, 1, Len(slots)) \in Seq(Slot)
          /\ SubSeq(new, 1, Len(slots)) \in Seq(Slot)
          /\ Len(SubSeq(slots, 1, Len(slots))) = Len(SubSeq(new, 1, Len(slots)))
          /\ Len(SubSeq(slots, 1, Len(slots))) = Len(slots)
      BY <3>1, <1>2, SubSeqProperties
    <3>3. \A k \in 1 .. Len(slots) : SubSeq(slots, 1, Len(slots))[k] = SubSeq(new, 1, Len(slots))[k]
      BY <3>1, <1>2, SubSeqProperties
    <3> QED
      BY <3>2, <3>3, SeqEqual
  <2> QED
    BY <2>1, <2>2 DEF IsPrefix
<1> HIDE DEF new
<1>6. CASE r.pn > pages[p].pn
  <2> DEFINE page == [pn |-> r.pn, slots |-> new]
             head == SubSeq(pages, 1, p - 1)
  <2>1. page \in PageRec /\ page.slots = new
    BY <1>1, <1>2, <1>4, Constants, SMTT(30) DEF PageRec
  <2>2. /\ head \in Seq(PageRec) /\ Len(head) = p - 1
        /\ \A q \in 1 .. p - 1 : head[q] = pages[q]
    <3>1. \A q \in 1 .. p - 1 : pages[q] \in PageRec
      BY <1>2, ElementOfSeq
    <3> QED
      BY <3>1, <1>2, SubSeqProperties
  <2>3. file' = Append(head, page)
    BY <1>6 DEF new
  <2> HIDE DEF head, page
  <2>4. /\ file' \in Seq(PageRec) /\ Len(file') = p
        /\ \A q \in 1 .. p - 1 : file'[q] = pages[q]
        /\ file'[p] = page
    <3>1. /\ Append(head, page) \in Seq(PageRec)
          /\ Len(Append(head, page)) = p
          /\ \A q \in 1 .. p - 1 : Append(head, page)[q] = head[q]
          /\ Append(head, page)[p] = page
      BY <2>1, <2>2, AppendProperties
    <3> QED
      BY <3>1, <2>2, <2>3
  <2> QED
    <3>1. file'[p].slots = new
      BY <2>1, <2>4
    <3>2. Len(file') >= Len(pages) /\ \A q \in 1 .. Len(pages) : q # p => file'[q] = pages[q]
      BY <2>4, <1>1, <1>2, <1>6
    <3> QED
      BY <2>4, <3>1, <3>2, <1>1, <1>5
<1>7. CASE ~(r.pn > pages[p].pn)
  <2> DEFINE page  == [pages[p] EXCEPT !.slots = new]
             pages1 == [pages EXCEPT ![p] = page]
  <2>1. page \in PageRec /\ page.slots = new
    <3>1. pages[p] \in [pn : Nat \ {0}, slots : Seq(Slot)]
      BY <1>2 DEF PageRec
    <3>2. page \in [pn : Nat \ {0}, slots : Seq(Slot)] /\ page.slots = new
      BY <3>1, <1>4
    <3>3. Len(new) <= SlotsMax
      BY <1>1, <1>2, <1>4, Constants
    <3> HIDE DEF page
    <3> QED
      BY <3>2, <3>3 DEF PageRec
  <2> HIDE DEF page
  <2>2. /\ pages1 \in Seq(PageRec) /\ Len(pages1) = Len(pages)
        /\ \A q \in 1 .. Len(pages) : pages1[q] = IF q = p THEN page ELSE pages[q]
    BY <2>1, ExceptSeq
  <2>3. file' = pages1 \o rest
    BY <1>7 DEF page, new
  <2> HIDE DEF pages1
  <2>4. /\ file' \in Seq(PageRec) /\ Len(file') = Len(pages) + Len(rest)
        /\ \A q \in 1 .. Len(pages) : file'[q] = pages1[q]
    <3>1. /\ pages1 \o rest \in Seq(PageRec)
          /\ Len(pages1 \o rest) = Len(pages1) + Len(rest)
          /\ \A q \in 1 .. Len(pages1) + Len(rest) :
               (pages1 \o rest)[q] = IF q <= Len(pages1) THEN pages1[q] ELSE rest[q - Len(pages1)]
      BY <2>2, ConcatProperties
    <3>2. Len(rest) \in Nat
      BY LenProperties
    <3>3. \A q \in 1 .. Len(pages) : (pages1 \o rest)[q] = pages1[q]
      BY <3>1, <3>2, <2>2, <1>2
    <3> QED
      BY <3>1, <3>3, <2>2, <2>3
  <2> QED
    <3>1. file'[p].slots = new
      BY <2>1, <2>2, <2>4
    <3>2. Len(rest) \in Nat
      BY LenProperties
    <3>3. Len(file') >= Len(pages) /\ \A q \in 1 .. Len(pages) : q # p => file'[q] = pages[q]
      BY <2>2, <2>4, <3>2, <1>2
    <3> QED
      BY <2>4, <3>1, <3>3, <1>1, <1>5
<1> QED
  BY <1>6, <1>7

(***************************************************************************)
(* The last page can always grow: spmap_alloc has no room in it only when  *)
(* it has no slot number left.                                             *)
(***************************************************************************)
LEMMA NoRoomFull ==
  ASSUME NEW pages \in Seq(PageRec), Len(pages) # 0, NEW known, NEW size,
         Rooms(pages, Len(pages), known, size) = {}
  PROVE  Len(pages[Len(pages)].slots) = SlotsMax
<1> DEFINE p     == Len(pages)
           slots == pages[p].slots
           n     == Len(slots)
           off   == IF n = 0 THEN HdrSize ELSE slots[n].at + Align2(slots[n].size)
           pn    == ChunksFor(off + HdrSize + Align2(size))
           all   == IF n = 0 \/ n \in known
                      THEN {[at |-> off + HdrSize, pn |-> Max({pn, pages[p].pn})]}
                      ELSE {[at |-> Nowhere, pn |-> pages[p].pn + k] : k \in {0, 1}}
<1>1. all # {}
  OBVIOUS
<1>2. p \in 1 .. Len(pages)
  BY LenProperties
<1>3. pages[p] \in PageRec
  BY <1>2, ElementOfSeq
<1>4. n \in Nat /\ n <= SlotsMax
  BY <1>3, LenProperties DEF PageRec
<1> HIDE DEF all
<1>5. {r \in all : n < SlotsMax /\ (r.pn = pages[p].pn \/ p = Len(pages))} = {}
  BY DEF Rooms, all
<1>6. ~(n < SlotsMax)
  BY <1>1, <1>5
<1> QED
  BY <1>4, <1>6, Constants

(***************************************************************************)
(* The pages of the store are pages of the file.                           *)
(***************************************************************************)
LEMMA StoresPages ==
  ASSUME Counts
  PROVE  /\ Pages \in Seq(PageRec) /\ Len(Pages) = cnt
         /\ \A q \in 1 .. cnt : Pages[q] = file[q] /\ file[q] \in PageRec
         /\ Rest \in Seq(PageRec)
<1>1. Len(file) \in Nat /\ cnt \in Nat /\ cnt <= Len(file)
  BY LenProperties DEF Counts
<1>2. \A q \in 1 .. Len(file) : file[q] \in PageRec
  BY ElementOfSeq DEF Counts
<1>3. /\ Pages \in Seq(PageRec) /\ Len(Pages) = cnt
      /\ \A q \in 1 .. cnt : Pages[q] = file[q]
  <2>1. \A q \in 1 .. cnt : file[q] \in PageRec
    BY <1>1, <1>2
  <2>2. /\ SubSeq(file, 1, cnt) \in Seq(PageRec)
        /\ Len(SubSeq(file, 1, cnt)) = IF 1 <= cnt THEN cnt - 1 + 1 ELSE 0
        /\ \A i \in 1 .. cnt - 1 + 1 : SubSeq(file, 1, cnt)[i] = file[1 + i - 1]
    BY <1>1, <2>1, SubSeqProperties
  <2> QED
    BY <1>1, <2>2 DEF Pages
<1>4. Rest \in Seq(PageRec)
  <2>1. \A q \in cnt + 1 .. Len(file) : file[q] \in PageRec
    BY <1>1, <1>2
  <2> QED
    BY <1>1, <2>1, SubSeqProperties DEF Rest
<1> QED
  BY <1>1, <1>2, <1>3, <1>4

(***************************************************************************)
(* The new page that spman_add appends comes after them, and is empty.     *)
(***************************************************************************)
LEMMA Appended ==
  ASSUME Counts
  PROVE  LET pages == Append(Pages, EmptyPage)
         IN  /\ pages \in Seq(PageRec) /\ Len(pages) = cnt + 1
             /\ \A q \in 1 .. cnt : pages[q] = file[q]
<1>1. EmptyPage \in PageRec
  <2>1. <<>> \in Seq(Slot) /\ Len(<<>>) = 0
    BY EmptySeq
  <2> QED
    BY <2>1, Constants DEF EmptyPage, PageRec
<1> QED
  BY <1>1, StoresPages, AppendProperties

-----------------------------------------------------------------------------
(* Steps.                                                                  *)

(***************************************************************************)
(* A step that leaves the file alone leaves every record its place.        *)
(***************************************************************************)
LEMMA SameFileStays ==
  ASSUME Counts, file' = file, hdrcnt' \in 0 .. Len(file)
  PROVE  Stay
<1>1. Len(file) \in Nat /\ cnt \in 0 .. Len(file) /\ DOMAIN file = 1 .. Len(file)
  BY LenProperties DEF Counts
<1>2. ASSUME NEW p \in 1 .. Len(file)
      PROVE  IsPrefix(file[p].slots, file[p].slots)
  <2>1. Len(file[p].slots) \in Nat
    BY ElementOfSeq, LenProperties DEF Counts, PageRec
  <2> QED
    BY <2>1 DEF IsPrefix
<1> QED
  BY <1>1, <1>2 DEF Stay

(***************************************************************************)
(* spman_get and the others that only change maps, or begin or give up a   *)
(* spman_add.                                                              *)
(***************************************************************************)
LEMMA MapsStep ==
  ASSUME SInv, UNCHANGED <<file, hdrcnt, up, cnt, anum>>,
         DOMAIN maps' \subseteq 1 .. cnt,
         failed => failed',
         \/ add' = add
         \/ add' = NoAdd
         \/ up /\ \E size \in Sizes : add' = [size |-> size, at |-> anum]
  PROVE  SInv' /\ Stay
<1> USE DEF SInv
<1>1. add' \in [size : Nat, at : Nat]
  BY Constants DEF Counts, NoAdd
<1>2. add' # NoAdd => up /\ add'.size \in Sizes /\ add'.at \in Nat \ {0}
  BY DEF Counts
<1>3. Counts'
  BY <1>1, <1>2 DEF Counts
<1>4. OnlyLastPageHasSlots'
  BY DEF OnlyLastPageHasSlots, StorePages
<1>5. LookedFull'
  BY DEF LookedFull, FullBefore
<1>6. Stay
  BY SameFileStays DEF Counts
<1> QED
  BY <1>3, <1>4, <1>5, <1>6

(***************************************************************************)
(* spmap_alloc in a page of the store, or in the one just appended (cnt'   *)
(* counts it): the pages before it are full.                               *)
(***************************************************************************)
LEMMA AllocStep ==
  ASSUME SInv, up, NEW pages \in Seq(PageRec), NEW rest \in Seq(PageRec), NEW ms,
         NEW p \in 1 .. Len(pages), NEW size \in Sizes,
         AllocIn(pages, rest, ms, p, size),
         cnt' = Len(pages), cnt' >= cnt,
         \A q \in 1 .. cnt : pages[q] = file[q],
         DOMAIN ms \subseteq 1 .. cnt',
         add' = NoAdd, UNCHANGED <<hdrcnt, up, failed>>,
         ~failed => \A q \in 1 .. Len(pages) :
                      (q < p \/ q < Len(pages)) => Len(pages[q].slots) = SlotsMax
  PROVE  SInv' /\ Stay
<1> USE DEF SInv
<1>1. /\ file' \in Seq(PageRec)
      /\ Len(pages[p].slots) < SlotsMax
      /\ Len(file') >= Len(pages)
      /\ \A q \in 1 .. Len(pages) : q # p => file'[q] = pages[q]
      /\ IsPrefix(pages[p].slots, file'[p].slots)
      /\ DOMAIN maps' = DOMAIN ms
      /\ anum' = p
  BY AllocEffect
<1>2. /\ Len(pages) \in Nat /\ Len(file') \in Nat /\ DOMAIN file' = 1 .. Len(file')
      /\ cnt \in Nat /\ hdrcnt \in 0 .. cnt
  BY <1>1, LenProperties DEF Counts
<1>3. Counts'
  BY <1>1, <1>2 DEF Counts, NoAdd
<1>4. ~failed => \A q \in 1 .. Len(pages) :
                   (q < p \/ q < Len(pages)) => Len(file'[q].slots) = SlotsMax
  <2>1. ~failed /\ p < Len(pages) => Len(pages[p].slots) = SlotsMax
    OBVIOUS
  <2>2. ~failed => p = Len(pages)
    BY <2>1, <1>1, <1>2, Constants
  <2> QED
    BY <2>2, <1>1, <1>2, SMTT(30)
<1>5. OnlyLastPageHasSlots'
  BY <1>2, <1>4 DEF OnlyLastPageHasSlots, StorePages
<1>6. LookedFull'
  BY <1>1, <1>2, <1>4 DEF LookedFull, FullBefore
<1>7. Stay
  <2>1. ASSUME NEW q \in 1 .. cnt
        PROVE  q \in DOMAIN file' /\ IsPrefix(file[q].slots, file'[q].slots)
    <3>1. CASE q = p
      BY <3>1, <1>1, <1>2
    <3>2. CASE q # p
      <4>1. file'[q] = file[q] /\ q \in DOMAIN file'
        BY <3>2, <1>1, <1>2
      <4>2. q \in 1 .. Len(file) /\ file[q] \in PageRec
        BY <1>2, ElementOfSeq DEF Counts
      <4>3. Len(file[q].slots) \in Nat
        BY <4>2, LenProperties DEF PageRec
      <4> QED
        BY <4>1, <4>3 DEF IsPrefix
    <3> QED
      BY <3>1, <3>2
  <2> QED
    BY <2>1 DEF Stay
<1> QED
  BY <1>3, <1>5, <1>6, <1>7

(***************************************************************************)
(* spman_add looks at a page: it finds room there, or the page is full.    *)
(***************************************************************************)
LEMMA AddTryStep == SInv /\ AddTry => SInv' /\ Stay
<1> SUFFICES ASSUME SInv, AddTry
             PROVE  SInv' /\ Stay
  OBVIOUS
<1> USE DEF SInv
<1> DEFINE p == add.at
<1>1. /\ up /\ p \in 1 .. cnt /\ cnt \in Nat /\ add.size \in Sizes
      /\ UNCHANGED <<hdrcnt, up, cnt>>
  BY LenProperties DEF AddTry, Counts
<1>2. PICK ms \in Loaded(maps, Pages, p) :
        \/ /\ AllocIn(Pages, Rest, ms, p, add.size)
           /\ add' = NoAdd
           /\ UNCHANGED failed
        \/ /\ NoRoomIn(Pages, ms, p, add.size)
           /\ maps' = ms
           /\ add' = [add EXCEPT !.at = @ + 1]
           /\ UNCHANGED <<file, anum>>
  BY DEF AddTry
<1>3. DOMAIN ms \subseteq 1 .. cnt
  BY <1>1, LoadedMaps DEF Counts
<1>4. /\ Pages \in Seq(PageRec) /\ Len(Pages) = cnt /\ Rest \in Seq(PageRec)
      /\ \A q \in 1 .. cnt : Pages[q] = file[q]
  BY StoresPages
<1>5. ~failed => \A q \in 1 .. cnt :
                   (q < p \/ q < cnt) => Len(file[q].slots) = SlotsMax
  BY <1>1 DEF LookedFull, FullBefore, OnlyLastPageHasSlots, StorePages, AddTry
<1>6. CASE AllocIn(Pages, Rest, ms, p, add.size) /\ add' = NoAdd /\ UNCHANGED failed
  BY <1>1, <1>3, <1>4, <1>5, <1>6, AllocStep
<1>7. CASE /\ NoRoomIn(Pages, ms, p, add.size)
           /\ maps' = ms
           /\ add' = [add EXCEPT !.at = @ + 1]
           /\ UNCHANGED <<file, anum>>
  <2>1. /\ add' \in [size : Nat, at : Nat]
        /\ add'.size = add.size /\ add'.at = p + 1 /\ p \in Nat
    BY <1>1, <1>7 DEF Counts
  <2>2. failed => failed'
    BY <1>7 DEF NoRoomIn
  <2>3. ~failed' => Len(file[p].slots) = SlotsMax
    <3>1. ~failed' => Rooms(Pages, p, ms[p].known, add.size) = {}
      BY <1>7 DEF NoRoomIn
    <3>2. ~failed' /\ p = cnt => Len(Pages[p].slots) = SlotsMax
      BY <3>1, <1>1, <1>4, NoRoomFull
    <3> QED
      BY <3>2, <2>2, <1>1, <1>4, <1>5
  <2>4. Counts'
    BY <1>1, <1>3, <1>7, <2>1, <2>2 DEF Counts
  <2>5. OnlyLastPageHasSlots'
    BY <1>1, <1>7, <2>2 DEF OnlyLastPageHasSlots, StorePages
  <2>6. LookedFull'
    BY <1>1, <1>5, <1>7, <2>1, <2>2, <2>3 DEF LookedFull, FullBefore
  <2>7. Stay
    BY <1>1, <1>7, SameFileStays DEF Counts
  <2> QED
    BY <2>4, <2>5, <2>6, <2>7
<1> QED
  BY <1>2, <1>6, <1>7

(***************************************************************************)
(* spman_add has looked at every page and appends an empty one, which stays*)
(* without a slot.                                                         *)
(***************************************************************************)
LEMMA NewPageStep ==
  ASSUME SInv, up, NEW pages \in Seq(PageRec), Len(pages) = cnt + 1,
         \A q \in 1 .. cnt : pages[q] = file[q],
         file' = pages, cnt' = cnt + 1, anum' = cnt + 1,
         DOMAIN maps' \subseteq 1 .. cnt + 1,
         add' = NoAdd, UNCHANGED <<hdrcnt, up>>,
         failed => failed',
         ~failed' => \A q \in 1 .. cnt : Len(pages[q].slots) = SlotsMax
  PROVE  SInv' /\ Stay
<1> USE DEF SInv
<1>1. cnt \in Nat /\ hdrcnt \in 0 .. cnt /\ DOMAIN pages = 1 .. cnt + 1
  BY LenProperties DEF Counts
<1>2. Counts'
  BY <1>1 DEF Counts, NoAdd
<1>3. OnlyLastPageHasSlots'
  BY <1>1 DEF OnlyLastPageHasSlots, StorePages
<1>4. LookedFull'
  BY <1>1 DEF LookedFull, FullBefore
<1>5. Stay
  <2>1. ASSUME NEW q \in 1 .. cnt
        PROVE  q \in DOMAIN file' /\ IsPrefix(file[q].slots, file'[q].slots)
    <3>1. file'[q] = file[q] /\ q \in DOMAIN file'
      BY <1>1
    <3>2. Len(file[q].slots) \in Nat
      BY StoresPages, LenProperties DEF PageRec
    <3> QED
      BY <3>1, <3>2 DEF IsPrefix
  <2> QED
    BY <2>1 DEF Stay
<1> QED
  BY <1>2, <1>3, <1>4, <1>5

(***************************************************************************)
(* It appends a page and allocates the slot there.                         *)
(***************************************************************************)
LEMMA AddAppendStep == SInv /\ AddAppend => SInv' /\ Stay
<1> SUFFICES ASSUME SInv, AddAppend
             PROVE  SInv' /\ Stay
  OBVIOUS
<1> USE DEF SInv
<1> DEFINE pages == Append(Pages, EmptyPage)
<1>1. /\ up /\ cnt \in Nat /\ add.size \in Sizes /\ cnt' = cnt + 1
      /\ add.at > cnt /\ add # NoAdd /\ add' = NoAdd /\ UNCHANGED <<hdrcnt, up>>
  BY LenProperties DEF AddAppend, Counts
<1>2. PICK ms \in UNION {Loaded(ls, pages, cnt + 1) : ls \in LoadedLast} :
        \/ AllocIn(pages, <<>>, ms, cnt + 1, add.size) /\ UNCHANGED failed
        \/ /\ NoRoomIn(pages, ms, cnt + 1, add.size)
           /\ maps' = ms
           /\ file' = pages
           /\ anum' = cnt + 1
  BY DEF AddAppend
<1>3. /\ pages \in Seq(PageRec) /\ Len(pages) = cnt + 1
      /\ \A q \in 1 .. cnt : pages[q] = file[q]
  BY Appended
<1> HIDE DEF pages
<1>4. DOMAIN ms \subseteq 1 .. cnt + 1
  <2>1. PICK ls \in LoadedLast : ms \in Loaded(ls, pages, cnt + 1)
    OBVIOUS
  <2>2. DOMAIN ls \subseteq 1 .. cnt
    BY <1>1, LoadedMaps DEF LoadedLast, Counts
  <2> QED
    BY <2>1, <2>2, <1>1, LoadedMaps
<1>5. ~failed => \A q \in 1 .. cnt : Len(pages[q].slots) = SlotsMax
  BY <1>1, <1>3 DEF LookedFull, FullBefore, Counts
<1>6. CASE AllocIn(pages, <<>>, ms, cnt + 1, add.size) /\ UNCHANGED failed
  <2>1. <<>> \in Seq(PageRec)
    BY EmptySeq
  <2>2. cnt + 1 \in 1 .. Len(pages) /\ cnt' = Len(pages) /\ cnt' >= cnt
    BY <1>1, <1>3
  <2>3. ~failed => \A q \in 1 .. Len(pages) :
                     (q < cnt + 1 \/ q < Len(pages)) => Len(pages[q].slots) = SlotsMax
    BY <1>1, <1>3, <1>5
  <2>4. DOMAIN ms \subseteq 1 .. cnt'
    BY <1>1, <1>4
  <2> QED
    BY <2>1, <2>2, <2>3, <2>4, <1>1, <1>3, <1>6, AllocStep
<1>7. CASE /\ NoRoomIn(pages, ms, cnt + 1, add.size)
           /\ maps' = ms
           /\ file' = pages
           /\ anum' = cnt + 1
  <2>1. failed => failed'
    BY <1>7 DEF NoRoomIn
  <2> QED
    BY <2>1, <1>1, <1>3, <1>4, <1>5, <1>7, NewPageStep
<1> QED
  BY <1>2, <1>6, <1>7

(***************************************************************************)
(* It fails to append a page, or to map the one it appended.               *)
(***************************************************************************)
LEMMA AddAppendFailsStep == SInv /\ AddAppendFails => SInv' /\ Stay
<1> SUFFICES ASSUME SInv, AddAppendFails
             PROVE  SInv' /\ Stay
  OBVIOUS
<1> USE DEF SInv
<1>1. /\ up /\ cnt \in Nat /\ add # NoAdd
      /\ add' = NoAdd /\ failed' = TRUE /\ UNCHANGED <<hdrcnt, up>>
  BY LenProperties DEF AddAppendFails, Counts
<1>2. \A ls \in LoadedLast : DOMAIN ls \subseteq 1 .. cnt
  BY <1>1, LoadedMaps DEF LoadedLast, Counts
<1>3. CASE /\ maps' \in LoadedLast \cup (IF cnt = 0 THEN {} ELSE LoadFailed(maps, cnt))
           /\ UNCHANGED <<file, cnt, anum>>
  <2>1. DOMAIN maps' \subseteq 1 .. cnt
    BY <1>2, <1>3, EvictedMaps DEF LoadFailed, Counts
  <2> QED
    BY <2>1, <1>1, <1>3, MapsStep
<1>4. CASE /\ maps' \in UNION {Evicted(ls) : ls \in LoadedLast}
           /\ file' = Append(Pages, EmptyPage)
           /\ cnt' = cnt + 1
           /\ anum' = cnt + 1
  <2>1. DOMAIN maps' \subseteq 1 .. cnt + 1
    <3>1. PICK ls \in LoadedLast : maps' \in Evicted(ls)
      BY <1>4
    <3> QED
      BY <3>1, <1>1, <1>2, EvictedMaps
  <2> QED
    BY <2>1, <1>1, <1>4, Appended, NewPageStep
<1> QED
  BY <1>3, <1>4 DEF AddAppendFails

(***************************************************************************)
(* The store is opened, closed, or the process crashes.                    *)
(***************************************************************************)
LEMMA OpenCloseStep == SInv /\ (Open \/ Close \/ Crash) => SInv' /\ Stay
<1> SUFFICES ASSUME SInv, Open \/ Close \/ Crash
             PROVE  SInv' /\ Stay
  OBVIOUS
<1> USE DEF SInv
<1>1. Len(file) \in Nat
  BY LenProperties DEF Counts
<1>2. NoAdd \in [size : Nat, at : Nat] /\ DOMAIN NoMaps = {}
  BY DEF NoAdd, NoMaps
<1>3. Counts'
  <2>1. CASE Open
    BY <2>1, <1>1 DEF Counts, Open
  <2>2. CASE Close \/ Crash
    <3>1. hdrcnt' \in 0 .. Len(file) /\ Down
      BY <2>2 DEF Counts, Close, Crash
    <3> QED
      BY <3>1, <1>1, <1>2 DEF Counts, Down
  <2> QED
    BY <2>1, <2>2
<1>4. OnlyLastPageHasSlots'
  BY <1>1 DEF OnlyLastPageHasSlots, StorePages, Counts, Open, Close, Crash, Down
<1>5. LookedFull'
  BY <1>1 DEF LookedFull, FullBefore, Counts, Open, Close, Crash, Down
<1>6. Stay
  BY <1>1, SameFileStays DEF Counts, Open, Close, Crash, Down
<1> QED
  BY <1>3, <1>4, <1>5, <1>6

(***************************************************************************)
(* Every step keeps the invariant, and the records in their place.         *)
(***************************************************************************)
LEMMA SpmanStep == SInv /\ [Next]_vars => SInv' /\ Stay
<1> SUFFICES ASSUME SInv, [Next]_vars
             PROVE  SInv' /\ Stay
  OBVIOUS
<1> USE DEF SInv
<1>1. DOMAIN maps \subseteq 1 .. cnt
  BY DEF Counts
<1>2. ASSUME NEW p \in 1 .. cnt, Get(p)
      PROVE  SInv' /\ Stay
  <2>1. DOMAIN maps' \subseteq 1 .. cnt
    BY <1>1, <1>2, LoadedMaps, EvictedMaps DEF Get, LoadFailed
  <2>2. failed => failed'
    BY <1>1, <1>2 DEF Get
  <2>3. UNCHANGED <<file, hdrcnt, up, cnt, anum, add>>
    BY <1>2 DEF Get
  <2> QED
    BY <2>1, <2>2, <2>3, MapsStep
<1>3. ASSUME NEW p \in 1 .. cnt, Ref(p) \/ Unref(p)
      PROVE  SInv' /\ Stay
  <2>1. DOMAIN maps' = DOMAIN maps
    BY <1>3 DEF Ref, Unref
  <2> QED
    BY <2>1, <1>1, <1>3, MapsStep DEF Ref, Unref
<1>4. ASSUME NEW size \in Sizes, AddStart(size)
      PROVE  SInv' /\ Stay
  BY <1>1, <1>4, MapsStep DEF AddStart
<1>5. CASE AddTryFails
  <2>1. DOMAIN maps' \subseteq 1 .. cnt
    BY <1>1, <1>5, EvictedMaps DEF AddTryFails, LoadFailed
  <2> QED
    BY <2>1, <1>1, <1>5, MapsStep DEF AddTryFails
<1>6. CASE UNCHANGED vars
  BY <1>1, <1>6, MapsStep DEF vars
<1> QED
  BY <1>2, <1>3, <1>4, <1>5, <1>6, AddTryStep, AddAppendStep, AddAppendFailsStep, OpenCloseStep
     DEF Next

(***************************************************************************)
(* Every state of the page manager satisfies the invariant.                *)
(***************************************************************************)
THEOREM SpmanInvariant == Spec => []SInv
<1>1. Init => SInv
  <2> SUFFICES ASSUME Init
               PROVE  SInv
    OBVIOUS
  <2>1. <<>> \in Seq(PageRec) /\ Len(<<>>) = 0
    BY EmptySeq
  <2>2. NoAdd \in [size : Nat, at : Nat] /\ DOMAIN NoMaps = {}
    BY DEF NoAdd, NoMaps
  <2>3. Counts
    BY <2>1, <2>2 DEF Init, Counts
  <2>4. OnlyLastPageHasSlots /\ LookedFull
    BY DEF Init, OnlyLastPageHasSlots, StorePages, LookedFull, FullBefore
  <2> QED
    BY <2>3, <2>4 DEF SInv
<1> QED
  BY <1>1, SpmanStep, PTL DEF Spec

(***************************************************************************)
(* A record keeps its place for good, through growth, eviction, failing    *)
(* system calls and crashes; a crash takes only pages appended since the   *)
(* store was opened.                                                       *)
(***************************************************************************)
THEOREM RecordsKeepTheirPlace == Spec => RecordsStay
<1>1. SInv /\ [Next]_vars => [Stay]_vars
  BY SpmanStep
<1> QED
  BY <1>1, SpmanInvariant, PTL DEF Spec, RecordsStay, Stay

(***************************************************************************)
(* While no system call fails, spman_add leaves only full pages behind.    *)
(***************************************************************************)
THEOREM NoRoomIsLost == Spec => []OnlyLastPageHasSlots
<1>1. SInv => OnlyLastPageHasSlots
  BY DEF SInv
<1> QED
  BY <1>1, SpmanInvariant, PTL

-----------------------------------------------------------------------------
(* The layout of pages: spmap_alloc puts a slot after the last one that    *)
(* the map's index knows, so that slots are disjoint only as long as maps  *)
(* are true, and maps stay true only when slots are disjoint.              *)

\* What SlotsDisjoint says of one page.
PageSound(g) ==
  \A k \in Leading(g.slots) :
    /\ g.slots[k].at >= 2 * HdrSize
    /\ g.slots[k].at + g.slots[k].size <= Chunk * g.pn
    /\ \A j \in 1 .. k - 1 : g.slots[j].at + g.slots[j].size <= g.slots[k].at - HdrSize

\* What MapsTrue says of the map m of page p.
MapSound(m, pages, p) ==
  /\ m \in [poff : {PageOffset(pages, p)}, psize : {Chunk * pages[p].pn},
            ref : Nat \ {0}, known : SUBSET (1 .. SlotsMax)]
  /\ Leading(pages[p].slots) \subseteq m.known

MapsSound(ms, pages) == \A p \in DOMAIN ms : MapSound(ms[p], pages, p)

LInv ==
  /\ \A p \in StorePages : PageSound(file[p])
  /\ MapsSound(maps, file)

-----------------------------------------------------------------------------
(* The helpers.                                                            *)

(***************************************************************************)
(* A page has room for as many bytes as its chunks were counted for.       *)
(***************************************************************************)
LEMMA ChunksEnough == ASSUME NEW n \in Nat PROVE Chunk * ChunksFor(n) >= n
<1>1. \A a \in Nat, c \in Nat \ {0} : c * ((a + c - 1) \div c) >= a
  OBVIOUS
<1> QED
  BY <1>1, Constants DEF ChunksFor

(***************************************************************************)
(* A larger page does not end earlier.                                     *)
(***************************************************************************)
LEMMA ChunksMonotonic ==
  ASSUME NEW a \in Nat, NEW b \in Nat, a <= b
  PROVE  Chunk * a \in Nat /\ Chunk * b \in Nat /\ Chunk * a <= Chunk * b
<1>1. \A c \in Nat : c * a \in Nat /\ c * b \in Nat /\ c * a <= c * b
  OBVIOUS
<1> QED
  BY <1>1, Constants

(***************************************************************************)
(* The slots that a reading of a page finds are slots of it.               *)
(***************************************************************************)
LEMMA LeadingSlots ==
  ASSUME NEW slots \in Seq(Slot)
  PROVE  /\ Len(slots) \in Nat
         /\ Leading(slots) \subseteq 1 .. Len(slots)
         /\ \A k \in 1 .. Len(slots) :
              slots[k].at \in Nat /\ slots[k].size \in Sizes /\ slots[k] \in Slot
<1>1. Len(slots) \in Nat
  BY LenProperties
<1>2. \A k \in 1 .. Len(slots) : slots[k] \in Slot
  BY ElementOfSeq
<1>3. \A s \in Slot : s.at \in Nat /\ s.size \in Sizes
  BY DEF Slot
<1> QED
  BY <1>1, <1>2, <1>3 DEF Leading

(***************************************************************************)
(* One more slot takes none of the others from a reading of the page, and  *)
(* is found itself only if the one before it is.                           *)
(***************************************************************************)
LEMMA LeadingAppend ==
  ASSUME NEW slots \in Seq(Slot), NEW s \in Slot
  PROVE  LET new == Append(slots, s)
             n   == Len(slots)
         IN  /\ Leading(slots) \subseteq Leading(new)
             /\ Leading(new) \subseteq Leading(slots) \cup {n + 1}
             /\ n + 1 \in Leading(new) /\ n # 0 => n \in Leading(slots)
<1> DEFINE new == Append(slots, s)
           n   == Len(slots)
<1>1. /\ n \in Nat /\ Len(new) = n + 1
      /\ \A k \in 1 .. n : new[k] = slots[k]
  BY AppendProperties, LenProperties
<1> HIDE DEF new, n
<1>2. Leading(slots) \subseteq Leading(new)
  BY <1>1 DEF Leading, n
<1>3. Leading(new) \subseteq Leading(slots) \cup {n + 1}
  BY <1>1 DEF Leading, n
<1>4. n + 1 \in Leading(new) /\ n # 0 => n \in Leading(slots)
  BY <1>1 DEF Leading, n
<1> QED
  BY <1>2, <1>3, <1>4 DEF new, n

(***************************************************************************)
(* The offset of a page depends on the sizes of the pages before it alone. *)
(***************************************************************************)
LEMMA SameOffset ==
  ASSUME NEW p \in Int, NEW pages, NEW pages2,
         \A q \in 1 .. p - 1 : pages2[q].pn = pages[q].pn
  PROVE  PageOffset(pages2, p) = PageOffset(pages, p)
<1>1. [q \in 1 .. p - 1 |-> pages2[q].pn] = [q \in 1 .. p - 1 |-> pages[q].pn]
  OBVIOUS
<1> QED
  BY <1>1 DEF PageOffset

(***************************************************************************)
(* Maps agree with every file that has the same pages.                     *)
(***************************************************************************)
LEMMA SamePages ==
  ASSUME NEW n \in Nat, NEW ms, DOMAIN ms \subseteq 1 .. n,
         NEW pages, NEW pages2, \A q \in 1 .. n : pages2[q] = pages[q],
         MapsSound(ms, pages)
  PROVE  MapsSound(ms, pages2)
<1> SUFFICES ASSUME NEW p \in DOMAIN ms
             PROVE  MapSound(ms[p], pages2, p)
  BY DEF MapsSound
<1>1. p \in 1 .. n /\ pages2[p] = pages[p]
  OBVIOUS
<1>2. PageOffset(pages2, p) = PageOffset(pages, p)
  BY <1>1, SameOffset
<1>3. MapSound(ms[p], pages, p)
  BY DEF MapsSound
<1> QED
  BY <1>1, <1>2, <1>3 DEF MapSound

(***************************************************************************)
(* Making room in the cache leaves the maps that stay as they are.         *)
(***************************************************************************)
LEMMA EvictedSound ==
  ASSUME NEW ms, NEW pages, MapsSound(ms, pages), NEW es \in Evicted(ms)
  PROVE  MapsSound(es, pages)
<1>1. CASE es = ms
  BY <1>1
<1>2. ASSUME NEW v \in DOMAIN ms, es = Unloaded(ms, v)
      PROVE  MapsSound(es, pages)
  <2>1. es = [p \in DOMAIN ms \ {v} |-> ms[p]]
    BY <1>2 DEF Unloaded, Restrict
  <2> QED
    BY <2>1 DEF MapsSound
<1> QED
  BY <1>1, <1>2 DEF Evicted

(***************************************************************************)
(* spman_load maps the page where it is and as large as it is.             *)
(***************************************************************************)
LEMMA LoadedSound ==
  ASSUME NEW pages \in Seq(PageRec), NEW ms, MapsSound(ms, pages), NEW p \in 1 .. Len(pages),
         NEW es \in Loaded(ms, pages, p)
  PROVE  MapsSound(es, pages)
<1>1. CASE p \in DOMAIN ms
  BY <1>1 DEF Loaded
<1>2. CASE p \notin DOMAIN ms
  <2>1. PICK ls \in Evicted(ms) :
               es = [q \in DOMAIN ls \cup {p} |-> IF q = p THEN MapOf(pages, p) ELSE ls[q]]
    BY <1>2 DEF Loaded
  <2>2. MapsSound(ls, pages)
    BY EvictedSound
  <2>3. pages[p].slots \in Seq(Slot)
    BY ElementOfSeq DEF PageRec
  <2>4. Leading(pages[p].slots) \subseteq 1 .. SlotsMax
    <3>1. Len(pages[p].slots) \in Nat /\ Len(pages[p].slots) <= SlotsMax
      BY <2>3, LeadingSlots, ElementOfSeq DEF PageRec
    <3>2. Leading(pages[p].slots) \subseteq 1 .. Len(pages[p].slots)
      BY <2>3, LeadingSlots
    <3> QED
      BY <3>1, <3>2, Constants
  <2>5. MapSound(MapOf(pages, p), pages, p)
    BY <2>4 DEF MapSound, MapOf
  <2> QED
    BY <2>1, <2>2, <2>5 DEF MapsSound
<1> QED
  BY <1>1, <1>2

-----------------------------------------------------------------------------
(* spmap_alloc.                                                            *)

\* Page p and its map after a slot was allocated there at room r, whether the
\* page grew for it or not.
Allocated(pages, ms, p, size, r) ==
  /\ file'[p].pn = r.pn
  /\ file'[p].slots = Append(pages[p].slots, [at |-> r.at, size |-> size])
  /\ maps'[p] = [poff  |-> ms[p].poff,
                 psize |-> Chunk * r.pn,
                 ref   |-> ms[p].ref,
                 known |-> (IF r.pn > pages[p].pn THEN Leading(pages[p].slots)
                                                  ELSE ms[p].known)
                             \cup {Len(pages[p].slots) + 1}]

(***************************************************************************)
(* After a slot that the index knows there is room where the slot ends.    *)
(***************************************************************************)
LEMMA RoomSound ==
  ASSUME NEW pages \in Seq(PageRec), NEW p \in 1 .. Len(pages), NEW known,
         NEW size \in Sizes, NEW r \in Rooms(pages, p, known, size)
  PROVE  LET slots == pages[p].slots
             n     == Len(slots)
             off   == IF n = 0 THEN HdrSize ELSE slots[n].at + Align2(slots[n].size)
         IN  /\ r.pn >= pages[p].pn
             /\ n = 0 \/ n \in known => /\ r.at = off + HdrSize
                                        /\ r.at + size <= Chunk * r.pn
<1> DEFINE slots == pages[p].slots
           n     == Len(slots)
           off   == IF n = 0 THEN HdrSize ELSE slots[n].at + Align2(slots[n].size)
           bytes == off + HdrSize + Align2(size)
           pn    == ChunksFor(bytes)
<1>1. slots \in Seq(Slot) /\ pages[p].pn \in Nat /\ n \in Nat
  BY ElementOfSeq, LenProperties DEF PageRec
<1>2. off \in Nat
  <2>1. CASE n # 0
    <3>1. slots[n].at \in Nat /\ slots[n].size \in Sizes
      BY <2>1, <1>1, LeadingSlots
    <3> QED
      BY <2>1, <3>1, Constants, SMTT(30)
  <2> QED
    BY <2>1 DEF HdrSize
<1>3. bytes \in Nat /\ off + HdrSize + size <= bytes /\ size \in Nat
  BY <1>2, Constants, SMTT(30) DEF HdrSize
<1> HIDE DEF off, bytes
<1>4. pn \in Nat /\ Chunk * pn >= bytes
  BY <1>3, ChunksNat, ChunksEnough
<1>5. /\ Max({pn, pages[p].pn}) \in Nat
      /\ Max({pn, pages[p].pn}) >= pn /\ Max({pn, pages[p].pn}) >= pages[p].pn
  BY <1>1, <1>4, MaxOfTwo
<1> HIDE DEF pn
<1>6. r \in IF n = 0 \/ n \in known
              THEN {[at |-> off + HdrSize, pn |-> Max({pn, pages[p].pn})]}
              ELSE {[at |-> Nowhere, pn |-> pages[p].pn + k] : k \in {0, 1}}
  BY DEF Rooms, off, pn, bytes
<1>7. r.pn >= pages[p].pn
  BY <1>1, <1>5, <1>6
<1>8. ASSUME n = 0 \/ n \in known
      PROVE  r.at = off + HdrSize /\ r.at + size <= Chunk * r.pn
  <2>1. r.at = off + HdrSize /\ r.pn = Max({pn, pages[p].pn})
    BY <1>6, <1>8
  <2>2. Chunk * pn <= Chunk * r.pn /\ Chunk * pn \in Nat /\ Chunk * r.pn \in Nat
    BY <2>1, <1>4, <1>5, ChunksMonotonic
  <2>3. r.at + size <= bytes
    BY <2>1, <1>3
  <2> QED
    BY <2>1, <2>2, <2>3, <1>2, <1>3, <1>4 DEF HdrSize
<1> QED
  BY <1>7, <1>8 DEF off

(***************************************************************************)
(* spmap_alloc allocates one slot so, and leaves the other maps alone.     *)
(***************************************************************************)
LEMMA AllocPage ==
  ASSUME NEW pages \in Seq(PageRec), NEW rest \in Seq(PageRec), NEW ms,
         NEW p \in 1 .. Len(pages), p \in DOMAIN ms, NEW size \in Sizes,
         MapSound(ms[p], pages, p),
         AllocIn(pages, rest, ms, p, size)
  PROVE  /\ DOMAIN maps' = DOMAIN ms
         /\ \A q \in DOMAIN ms : q # p => maps'[q] = ms[q]
         /\ \E r \in Rooms(pages, p, ms[p].known, size) : Allocated(pages, ms, p, size, r)
<1> DEFINE slots  == pages[p].slots
           new(r) == Append(slots, [at |-> r.at, size |-> size])
<1>1. PICK r \in Rooms(pages, p, ms[p].known, size) :
        /\ file' = IF r.pn > pages[p].pn
                     THEN Append(SubSeq(pages, 1, p - 1), [pn |-> r.pn, slots |-> new(r)])
                     ELSE [pages EXCEPT ![p].slots = new(r)] \o rest
        /\ maps' = [ms EXCEPT
                      ![p].psize = Chunk * r.pn,
                      ![p].known = (IF r.pn > pages[p].pn THEN Leading(slots) ELSE @)
                                     \cup {Len(new(r))}]
  BY DEF AllocIn
<1>2. /\ pages[p] \in [pn : Nat \ {0}, slots : Seq(Slot)] /\ pages[p].pn \in Nat
      /\ slots \in Seq(Slot) /\ Len(slots) \in Nat /\ Len(pages) \in Nat
  BY ElementOfSeq, LenProperties DEF PageRec
<1>3. r.at \in Nat /\ r.pn \in Nat /\ r.pn >= pages[p].pn
  BY RoomIn, RoomSound
<1>4. Len(new(r)) = Len(slots) + 1 /\ new(r) \in Seq(Slot)
  <2>1. [at |-> r.at, size |-> size] \in Slot
    BY <1>3 DEF Slot
  <2> QED
    BY <2>1, <1>2, AppendProperties
<1>5. file'[p].pn = r.pn /\ file'[p].slots = new(r)
  <2>1. CASE r.pn > pages[p].pn
    <3> DEFINE head == SubSeq(pages, 1, p - 1)
               page == [pn |-> r.pn, slots |-> new(r)]
    <3>1. head \in Seq(PageRec) /\ Len(head) = p - 1
      <4>1. \A q \in 1 .. p - 1 : pages[q] \in PageRec
        BY <1>2, ElementOfSeq
      <4> QED
        BY <4>1, <1>2, SubSeqProperties
    <3>2. file' = Append(head, page) /\ page.pn = r.pn /\ page.slots = new(r)
      BY <1>1, <2>1
    <3> HIDE DEF head, page
    <3>3. Append(head, page)[Len(head) + 1] = page
      BY <3>1, AppendProperties
    <3>4. Len(head) + 1 = p
      BY <3>1
    <3> QED
      BY <3>2, <3>3, <3>4
  <2>2. CASE ~(r.pn > pages[p].pn)
    <3> DEFINE page   == [pages[p] EXCEPT !.slots = new(r)]
               pages1 == [pages EXCEPT ![p] = page]
    <3>1. page.pn = pages[p].pn /\ page.slots = new(r)
      BY <1>2
    <3>2. page \in PageRec
      <4>1. page \in [pn : Nat \ {0}, slots : Seq(Slot)]
        BY <1>2, <1>4
      <4>2. Len(new(r)) <= SlotsMax
        BY <1>2, <1>4, RoomIn, Constants
      <4> HIDE DEF page
      <4> QED
        BY <3>1, <4>1, <4>2 DEF PageRec
    <3>3. pages1 = [pages EXCEPT ![p].slots = new(r)]
      OBVIOUS
    <3> HIDE DEF page
    <3>4. pages1 \in Seq(PageRec) /\ Len(pages1) = Len(pages) /\ pages1[p] = page
      BY <3>2, ExceptSeq
    <3> HIDE DEF pages1
    <3>5. (pages1 \o rest)[p] = page
      <4>1. Len(rest) \in Nat
        BY LenProperties
      <4>2. \A q \in 1 .. Len(pages1) + Len(rest) :
              (pages1 \o rest)[q] = IF q <= Len(pages1) THEN pages1[q] ELSE rest[q - Len(pages1)]
        BY <3>4, ConcatProperties
      <4> QED
        BY <3>4, <4>1, <4>2, <1>2
    <3>6. r.pn = pages[p].pn
      BY <2>2, <1>2, <1>3
    <3> QED
      BY <1>1, <2>2, <3>1, <3>3, <3>5, <3>6
  <2> QED
    BY <2>1, <2>2
<1>6. ms[p] \in [poff : {PageOffset(pages, p)}, psize : {Chunk * pages[p].pn},
                ref : Nat \ {0}, known : SUBSET (1 .. SlotsMax)]
  BY DEF MapSound
<1> DEFINE m     == ms[p]
           known == (IF r.pn > pages[p].pn THEN Leading(slots) ELSE m.known)
                      \cup {Len(slots) + 1}
<1>7. /\ DOMAIN maps' = DOMAIN ms
      /\ \A q \in DOMAIN ms : q # p => maps'[q] = ms[q]
      /\ maps'[p] = [[m EXCEPT !.psize = Chunk * r.pn] EXCEPT !.known = known]
  BY <1>1, <1>4, <1>6
<1>8. maps'[p] = [poff |-> m.poff, psize |-> Chunk * r.pn, ref |-> m.ref, known |-> known]
  <2> HIDE DEF m, known
  <2>1. m \in [poff : {PageOffset(pages, p)}, psize : {Chunk * pages[p].pn},
               ref : Nat \ {0}, known : SUBSET (1 .. SlotsMax)]
    BY <1>6 DEF m
  <2> QED
    BY <2>1, <1>7
<1> QED
  BY <1>5, <1>7, <1>8 DEF Allocated

(***************************************************************************)
(* The slot that spmap_alloc adds lies after the others and in its page,   *)
(* if a reading of the page finds it at all.                               *)
(***************************************************************************)
LEMMA AllocSlotSound ==
  ASSUME NEW pages \in Seq(PageRec), NEW p \in 1 .. Len(pages), NEW known,
         NEW size \in Sizes, NEW r \in Rooms(pages, p, known, size), NEW g,
         PageSound(pages[p]), Leading(pages[p].slots) \subseteq known,
         g.pn = r.pn,
         g.slots = Append(pages[p].slots, [at |-> r.at, size |-> size])
  PROVE  PageSound(g)
<1> DEFINE slots == pages[p].slots
           n     == Len(slots)
           off   == IF n = 0 THEN HdrSize ELSE slots[n].at + Align2(slots[n].size)
           s     == [at |-> r.at, size |-> size]
           new   == Append(slots, s)
<1>1. /\ slots \in Seq(Slot) /\ pages[p].pn \in Nat /\ n \in Nat
      /\ r.at \in Nat /\ r.pn \in Nat /\ r.pn >= pages[p].pn
  <2>1. slots \in Seq(Slot) /\ pages[p].pn \in Nat /\ n \in Nat
    BY ElementOfSeq, LenProperties DEF PageRec
  <2>2. r.at \in Nat /\ r.pn \in Nat
    BY RoomIn
  <2>3. r.pn >= pages[p].pn
    BY RoomSound
  <2> QED
    BY <2>1, <2>2, <2>3
<1>2. s \in Slot /\ s.at = r.at /\ s.size = size
  BY <1>1 DEF Slot
<1>3. n = 0 \/ n \in known => r.at = off + HdrSize /\ r.at + size <= Chunk * r.pn
  BY RoomSound
<1>4. /\ Leading(new) \subseteq Leading(slots) \cup {n + 1}
      /\ n + 1 \in Leading(new) /\ n # 0 => n \in Leading(slots)
  BY <1>1, <1>2, LeadingAppend
<1>5. new[n + 1] = s /\ \A k \in 1 .. n : new[k] = slots[k]
  BY <1>1, <1>2, AppendProperties
<1>6. Leading(slots) \subseteq 1 .. n /\ \A k \in 1 .. n : slots[k].at \in Nat /\ slots[k].size \in Sizes
  BY <1>1, LeadingSlots
<1>7. Chunk * pages[p].pn <= Chunk * r.pn /\ Chunk * pages[p].pn \in Nat /\ Chunk * r.pn \in Nat
  BY <1>1, ChunksMonotonic
<1>8. \A k \in Leading(slots) :
        /\ slots[k].at >= 2 * HdrSize
        /\ slots[k].at + slots[k].size <= Chunk * pages[p].pn
        /\ \A j \in 1 .. k - 1 : slots[j].at + slots[j].size <= slots[k].at - HdrSize
  BY DEF PageSound
<1> HIDE DEF s, new, n, slots
<1> DEFINE Sound(k) == /\ new[k].at >= 2 * HdrSize
                       /\ new[k].at + new[k].size <= Chunk * r.pn
                       /\ \A j \in 1 .. k - 1 : new[j].at + new[j].size <= new[k].at - HdrSize
<1>9. ASSUME NEW k \in Leading(slots)
      PROVE  Sound(k)
  <2>1. k \in 1 .. n
    BY <1>6
  <2>2. new[k] = slots[k] /\ \A j \in 1 .. k - 1 : new[j] = slots[j]
    BY <2>1, <1>1, <1>5
  <2>3. slots[k].at \in Nat /\ slots[k].size \in Nat
    BY <2>1, <1>6, Constants
  <2>4. slots[k].at + slots[k].size <= Chunk * pages[p].pn
    BY <1>8
  <2>5. slots[k].at + slots[k].size <= Chunk * r.pn
    BY <2>3, <2>4, <1>7
  <2> QED
    BY <2>2, <2>5, <1>8
<1>10. ASSUME n + 1 \in Leading(new)
       PROVE  Sound(n + 1)
  <2>1. n = 0 \/ n \in Leading(slots)
    BY <1>4, <1>10
  <2>2. r.at = off + HdrSize /\ r.at + size <= Chunk * r.pn
    BY <2>1, <1>3 DEF slots, n
  <2>3. CASE n = 0
    BY <2>2, <2>3, <1>2, <1>5 DEF HdrSize
  <2>4. CASE n # 0
    <3>1. n \in Leading(slots) /\ n \in 1 .. n
      BY <2>1, <2>4, <1>1
    <3>2. /\ slots[n].at \in Nat /\ slots[n].size \in Nat
          /\ Align2(slots[n].size) \in Nat /\ Align2(slots[n].size) >= slots[n].size
      BY <3>1, <1>6, Constants
    <3>3. r.at = slots[n].at + Align2(slots[n].size) + HdrSize
      BY <2>2, <2>4
    <3>4. r.at >= 2 * HdrSize
      BY <3>1, <3>2, <3>3, <1>8 DEF HdrSize
    <3>5. ASSUME NEW j \in 1 .. n
          PROVE  slots[j].at + slots[j].size <= r.at - HdrSize
      <4>1. slots[j].at \in Nat /\ slots[j].size \in Nat
        BY <1>6, Constants
      <4>2. CASE j = n
        BY <4>2, <3>2, <3>3 DEF HdrSize
      <4>3. CASE j # n
        <5> DEFINE end == slots[j].at + slots[j].size
                   last == slots[n].at
                   length == Align2(slots[n].size)
        <5>1. j \in 1 .. n - 1
          BY <4>3, <1>1
        <5>2. end <= last - HdrSize
          BY <5>1, <3>1, <1>8
        <5>3. /\ end \in Nat
              /\ last \in Nat /\ length \in Nat
              /\ r.at = last + length + HdrSize
          <6>1. end \in Nat
            BY <4>1, SMTT(30)
          <6>2. last \in Nat /\ length \in Nat
            BY <3>2, Zenon
          <6>3. r.at = last + length + HdrSize
            BY <3>3, Zenon
          <6> QED
            BY <6>1, <6>2, <6>3
        <5>4. slots[j].at + slots[j].size <= r.at - HdrSize <=> end <= r.at - HdrSize
          OBVIOUS
        <5> HIDE DEF end, last, length
        <5>5. end <= r.at - HdrSize
          BY <5>2, <5>3 DEF HdrSize
        <5> QED
          BY <5>4, <5>5
      <4> QED
        BY <4>2, <4>3
    <3>6. \A j \in 1 .. n + 1 - 1 : j \in 1 .. n /\ new[j] = slots[j]
      BY <1>1, <1>5
    <3> QED
      <4>1. new[n + 1].at = r.at /\ new[n + 1].size = size
        BY <1>2, <1>5
      <4>2. \A j \in 1 .. n + 1 - 1 : new[j].at + new[j].size <= new[n + 1].at - HdrSize
        BY <3>5, <3>6, <4>1
      <4>3. new[n + 1].at + new[n + 1].size <= Chunk * r.pn
        BY <4>1, <2>2
      <4>4. new[n + 1].at >= 2 * HdrSize
        BY <4>1, <3>4
      <4> QED
        BY <4>2, <4>3, <4>4, <1>1
  <2> QED
    BY <2>3, <2>4
<1>11. \A k \in Leading(new) : Sound(k)
  BY <1>4, <1>9, <1>10
<1>12. g.slots = new /\ g.pn = r.pn
  BY DEF new, s, slots
<1> QED
  BY <1>11, <1>12 DEF PageSound

(***************************************************************************)
(* spmap_alloc keeps the page sound, and all the maps.                     *)
(***************************************************************************)
LEMMA AllocSound ==
  ASSUME NEW pages \in Seq(PageRec), NEW rest \in Seq(PageRec), NEW ms,
         NEW p \in 1 .. Len(pages), p \in DOMAIN ms, NEW size \in Sizes,
         AllocIn(pages, rest, ms, p, size),
         DOMAIN ms \subseteq 1 .. Len(pages), MapsSound(ms, pages),
         \A q \in 1 .. Len(pages) : PageSound(pages[q])
  PROVE  /\ \A q \in 1 .. Len(pages) : PageSound(file'[q])
         /\ MapsSound(maps', file')
<1> DEFINE slots == pages[p].slots
           n     == Len(slots)
<1>1. MapSound(ms[p], pages, p)
  BY DEF MapsSound
<1>2. DOMAIN maps' = DOMAIN ms /\ \A q \in DOMAIN ms : q # p => maps'[q] = ms[q]
  BY <1>1, AllocPage
<1>3. PICK r \in Rooms(pages, p, ms[p].known, size) : Allocated(pages, ms, p, size, r)
  BY <1>1, AllocPage
<1>4. /\ file'[p].pn = r.pn
      /\ file'[p].slots = Append(slots, [at |-> r.at, size |-> size])
      /\ maps'[p] = [poff  |-> ms[p].poff,
                     psize |-> Chunk * r.pn,
                     ref   |-> ms[p].ref,
                     known |-> (IF r.pn > pages[p].pn THEN Leading(slots) ELSE ms[p].known)
                                 \cup {n + 1}]
  BY <1>3 DEF Allocated
<1>5. \A q \in 1 .. Len(pages) : q # p => file'[q] = pages[q]
  BY AllocEffect
<1>6. /\ slots \in Seq(Slot) /\ pages[p].pn \in Nat /\ n \in Nat /\ Len(pages) \in Nat
      /\ r.at \in Nat /\ r.pn \in Nat /\ r.pn >= pages[p].pn
      /\ r.pn > pages[p].pn => p = Len(pages)
  <2>1. slots \in Seq(Slot) /\ pages[p].pn \in Nat /\ n \in Nat /\ Len(pages) \in Nat
    BY ElementOfSeq, LenProperties DEF PageRec
  <2>2. r.at \in Nat /\ r.pn \in Nat /\ (r.pn > pages[p].pn => p = Len(pages))
    BY RoomIn
  <2>3. r.pn >= pages[p].pn
    BY RoomSound
  <2> QED
    BY <2>1, <2>2, <2>3
<1>7. PageSound(file'[p])
  <2>1. PageSound(pages[p]) /\ Leading(slots) \subseteq ms[p].known
    BY <1>1 DEF MapSound
  <2>2. file'[p].pn = r.pn /\ file'[p].slots = Append(pages[p].slots, [at |-> r.at, size |-> size])
    BY <1>4
  <2> QED
    BY <2>1, <2>2, AllocSlotSound
<1>8. \A q \in 1 .. Len(pages) : PageSound(file'[q])
  BY <1>5, <1>7
<1>9. ASSUME NEW q \in 1 .. Len(pages)
      PROVE  PageOffset(file', q) = PageOffset(pages, q)
  <2>1. ASSUME NEW i \in 1 .. q - 1
        PROVE  file'[i].pn = pages[i].pn
    <3>1. i \in 1 .. Len(pages) /\ i # Len(pages)
      BY <1>6
    <3>2. CASE i # p
      BY <3>1, <3>2, <1>5
    <3>3. CASE i = p
      <4>1. ~(r.pn > pages[p].pn)
        BY <3>1, <3>3, <1>6
      <4> QED
        BY <3>3, <4>1, <1>4, <1>6
    <3> QED
      BY <3>2, <3>3
  <2> QED
    BY <2>1, SameOffset
<1>10. Leading(file'[p].slots) \subseteq Leading(slots) \cup {n + 1}
  <2>1. [at |-> r.at, size |-> size] \in Slot
    BY <1>6 DEF Slot
  <2> QED
    BY <2>1, <1>4, <1>6, LeadingAppend
<1>11. MapSound(maps'[p], file', p)
  <2>1. /\ ms[p].poff = PageOffset(pages, p) /\ ms[p].ref \in Nat \ {0}
        /\ ms[p].known \in SUBSET (1 .. SlotsMax) /\ Leading(slots) \subseteq ms[p].known
    BY <1>1 DEF MapSound
  <2> DEFINE known == (IF r.pn > pages[p].pn THEN Leading(slots) ELSE ms[p].known) \cup {n + 1}
  <2>2. Leading(slots) \subseteq 1 .. SlotsMax /\ n + 1 \in 1 .. SlotsMax
    <3>1. Leading(slots) \subseteq 1 .. n
      BY <1>6, LeadingSlots
    <3>2. n + 1 <= SlotsMax
      BY <1>6, RoomIn, Constants
    <3> QED
      BY <3>1, <3>2, <1>6, Constants
  <2>3. known \in SUBSET (1 .. SlotsMax) /\ Leading(slots) \cup {n + 1} \subseteq known
    BY <2>1, <2>2, <1>6
  <2>4. maps'[p] = [poff |-> ms[p].poff, psize |-> Chunk * r.pn, ref |-> ms[p].ref,
                   known |-> known]
    BY <1>4
  <2> HIDE DEF known
  <2>5. maps'[p] \in [poff : {PageOffset(file', p)}, psize : {Chunk * file'[p].pn},
                      ref : Nat \ {0}, known : SUBSET (1 .. SlotsMax)]
    BY <2>1, <2>3, <2>4, <1>4, <1>9
  <2>6. Leading(file'[p].slots) \subseteq maps'[p].known
    BY <2>3, <2>4, <1>10
  <2> QED
    BY <2>5, <2>6 DEF MapSound
<1>12. ASSUME NEW q \in DOMAIN ms, q # p
       PROVE  MapSound(maps'[q], file', q)
  <2>1. MapSound(ms[q], pages, q) /\ q \in 1 .. Len(pages)
    BY DEF MapsSound
  <2>2. maps'[q] = ms[q] /\ file'[q] = pages[q] /\ PageOffset(file', q) = PageOffset(pages, q)
    BY <2>1, <1>2, <1>5, <1>9, <1>12
  <2> QED
    BY <2>1, <2>2 DEF MapSound
<1> QED
  BY <1>2, <1>8, <1>11, <1>12 DEF MapsSound

-----------------------------------------------------------------------------
(* The steps.                                                              *)

(***************************************************************************)
(* While the store is open its pages are those that are counted.           *)
(***************************************************************************)
LEMMA LayoutOpen ==
  ASSUME SInv, LInv, up
  PROVE  /\ cnt \in Nat /\ DOMAIN maps \subseteq 1 .. cnt
         /\ Pages \in Seq(PageRec) /\ Len(Pages) = cnt /\ Rest \in Seq(PageRec)
         /\ \A q \in 1 .. cnt : Pages[q] = file[q] /\ PageSound(Pages[q])
         /\ MapsSound(maps, Pages)
<1>1. Counts
  BY DEF SInv
<1>2. cnt \in Nat /\ DOMAIN maps \subseteq 1 .. cnt
  BY <1>1, LenProperties DEF Counts
<1>3. /\ Pages \in Seq(PageRec) /\ Len(Pages) = cnt /\ Rest \in Seq(PageRec)
      /\ \A q \in 1 .. cnt : Pages[q] = file[q]
  BY <1>1, StoresPages
<1>4. \A q \in 1 .. cnt : PageSound(file[q])
  BY DEF LInv, StorePages
<1>5. MapsSound(maps, Pages)
  BY <1>2, <1>3, SamePages, SMTT(30) DEF LInv
<1> QED
  BY <1>2, <1>3, <1>4, <1>5

(***************************************************************************)
(* spman_get, and what else leaves the file and the counts as they are.    *)
(***************************************************************************)
LEMMA MapsLayout ==
  ASSUME LInv, MapsSound(maps', file), UNCHANGED <<file, hdrcnt, up, cnt>>
  PROVE  LInv'
<1>1. StorePages' = StorePages
  BY DEF StorePages
<1>2. \A p \in StorePages : PageSound(file'[p])
  BY DEF LInv
<1>3. MapsSound(maps', file')
  OBVIOUS
<1> QED
  BY <1>1, <1>2, <1>3 DEF LInv, PageSound, MapsSound, MapSound

(***************************************************************************)
(* A page of the open store is mapped, or room is made for its map.        *)
(***************************************************************************)
LEMMA GetLayout ==
  ASSUME SInv, LInv, NEW p \in 1 .. cnt, Get(p)
  PROVE  LInv'
<1>1. file \in Seq(PageRec) /\ p \in 1 .. Len(file) /\ MapsSound(maps, file)
  BY LenProperties DEF SInv, Counts, LInv
<1>2. MapsSound(maps', file)
  BY <1>1, LoadedSound, EvictedSound DEF Get, LoadFailed
<1> QED
  BY <1>2, MapsLayout DEF Get

(***************************************************************************)
(* A page is pinned or let go.                                             *)
(***************************************************************************)
LEMMA RefLayout ==
  ASSUME LInv, NEW p, Ref(p) \/ Unref(p)
  PROVE  LInv'
<1>1. PICK d \in {-1, 1} : maps' = [maps EXCEPT ![p].ref = @ + d] /\ (d = 1 \/ maps[p].ref > 1)
  BY DEF Ref, Unref
<1>2. p \in DOMAIN maps /\ UNCHANGED <<file, hdrcnt, up, cnt>>
  BY DEF Ref, Unref
<1>3. \A q \in DOMAIN maps : MapSound(maps[q], file, q)
  BY DEF LInv, MapsSound
<1> DEFINE m == maps[p]
           x == m.ref + d
<1>4. /\ DOMAIN maps' = DOMAIN maps
      /\ \A q \in DOMAIN maps : q # p => maps'[q] = maps[q]
      /\ maps'[p] = [m EXCEPT !.ref = x]
  BY <1>1, <1>2
<1>5. MapSound(maps'[p], file, p)
  <2>1. m \in [poff : {PageOffset(file, p)}, psize : {Chunk * file[p].pn},
               ref : Nat \ {0}, known : SUBSET (1 .. SlotsMax)]
    BY <1>2, <1>3 DEF MapSound
  <2>2. x \in Nat \ {0}
    BY <2>1, <1>1
  <2>3. Leading(file[p].slots) \subseteq m.known
    BY <1>2, <1>3 DEF MapSound
  <2> HIDE DEF m, x
  <2>4. maps'[p] = [poff |-> m.poff, psize |-> m.psize, ref |-> x, known |-> m.known]
    BY <2>1, <1>4
  <2> QED
    BY <2>1, <2>2, <2>3, <2>4 DEF MapSound
<1>6. MapsSound(maps', file)
  BY <1>3, <1>4, <1>5 DEF MapsSound
<1> QED
  BY <1>2, <1>6, MapsLayout

(***************************************************************************)
(* spman_add looks at a page.                                              *)
(***************************************************************************)
LEMMA AddTryLayout == SInv /\ LInv /\ AddTry => LInv'
<1> SUFFICES ASSUME SInv, LInv, AddTry
             PROVE  LInv'
  OBVIOUS
<1> DEFINE p == add.at
<1>1. up /\ p \in 1 .. cnt /\ add.size \in Sizes /\ UNCHANGED <<hdrcnt, up, cnt>>
  BY LenProperties DEF AddTry, SInv, Counts
<1>2. PICK ms \in Loaded(maps, Pages, p) :
        \/ AllocIn(Pages, Rest, ms, p, add.size)
        \/ maps' = ms /\ file' = file
  BY DEF AddTry
<1>3. /\ cnt \in Nat /\ DOMAIN maps \subseteq 1 .. cnt
      /\ Pages \in Seq(PageRec) /\ Len(Pages) = cnt /\ Rest \in Seq(PageRec)
      /\ \A q \in 1 .. cnt : Pages[q] = file[q] /\ PageSound(Pages[q])
      /\ MapsSound(maps, Pages)
  BY <1>1, LayoutOpen
<1>4. MapsSound(ms, Pages)
  BY <1>1, <1>3, LoadedSound
<1>5. DOMAIN ms \subseteq 1 .. cnt /\ p \in DOMAIN ms
  BY <1>1, <1>3, LoadedMaps
<1>6. CASE AllocIn(Pages, Rest, ms, p, add.size)
  <2>1. (\A q \in 1 .. cnt : PageSound(file'[q])) /\ MapsSound(maps', file')
    BY <1>1, <1>3, <1>4, <1>5, <1>6, AllocSound
  <2>2. StorePages' = 1 .. cnt
    BY <1>1 DEF StorePages
  <2> QED
    BY <2>1, <2>2 DEF LInv, PageSound, MapsSound, MapSound
<1>7. CASE maps' = ms /\ file' = file
  <2>1. \A q \in 1 .. cnt : file[q] = Pages[q]
    BY <1>3
  <2>2. MapsSound(ms, file)
    BY <2>1, <1>3, <1>4, <1>5, SamePages, SMTT(30)
  <2> QED
    BY <2>2, <1>1, <1>7, MapsLayout
<1> QED
  BY <1>2, <1>6, <1>7

(***************************************************************************)
(* The map of the last page, which spman_add reads before it appends one.  *)
(***************************************************************************)
LEMMA LastLayout ==
  ASSUME SInv, LInv, up, NEW ls \in LoadedLast
  PROVE  MapsSound(ls, Pages) /\ DOMAIN ls \subseteq 1 .. cnt
<1>1. /\ cnt \in Nat /\ DOMAIN maps \subseteq 1 .. cnt
      /\ Pages \in Seq(PageRec) /\ Len(Pages) = cnt
      /\ MapsSound(maps, Pages)
  BY LayoutOpen
<1>2. CASE cnt = 0
  BY <1>1, <1>2 DEF LoadedLast
<1>3. CASE cnt # 0
  <2>1. ls \in Loaded(maps, Pages, cnt) /\ cnt \in 1 .. Len(Pages)
    BY <1>1, <1>3 DEF LoadedLast
  <2> QED
    BY <2>1, <1>1, LoadedSound, LoadedMaps
<1> QED
  BY <1>2, <1>3

(***************************************************************************)
(* The pages with the new one, which has no slots yet.                     *)
(***************************************************************************)
LEMMA AppendedLayout ==
  ASSUME SInv, LInv, up
  PROVE  LET pages == Append(Pages, EmptyPage) IN
         /\ pages \in Seq(PageRec) /\ Len(pages) = cnt + 1
         /\ \A q \in 1 .. cnt + 1 : PageSound(pages[q])
         /\ \A ms : MapsSound(ms, Pages) /\ DOMAIN ms \subseteq 1 .. cnt => MapsSound(ms, pages)
<1> DEFINE pages == Append(Pages, EmptyPage)
<1>1. /\ cnt \in Nat /\ Pages \in Seq(PageRec) /\ Len(Pages) = cnt
      /\ \A q \in 1 .. cnt : Pages[q] = file[q] /\ PageSound(Pages[q])
  BY LayoutOpen
<1>2. /\ pages \in Seq(PageRec) /\ Len(pages) = cnt + 1
      /\ \A q \in 1 .. cnt : pages[q] = file[q]
  BY Appended DEF SInv
<1>3. pages[cnt + 1] = EmptyPage
  <2>1. EmptyPage \in PageRec
    BY EmptySeq, Constants DEF EmptyPage, PageRec
  <2> QED
    BY <2>1, <1>1, AppendProperties
<1> HIDE DEF pages
<1>4. PageSound(EmptyPage)
  <2>1. EmptyPage.slots = <<>> /\ <<>> \in Seq(Slot) /\ Len(<<>>) = 0
    BY EmptySeq DEF EmptyPage
  <2>2. Leading(EmptyPage.slots) = {}
    <3>1. Leading(<<>>) \subseteq 1 .. Len(<<>>)
      BY <2>1, LeadingSlots
    <3>2. Leading(<<>>) = {}
      BY <3>1, <2>1
    <3> QED
      BY <3>2, <2>1
  <2> QED
    BY <2>2 DEF PageSound
<1>5. \A q \in 1 .. cnt : pages[q] = Pages[q]
  BY <1>1, <1>2
<1>6. \A q \in 1 .. cnt + 1 : PageSound(pages[q])
  <2> SUFFICES ASSUME NEW q \in 1 .. cnt + 1
               PROVE  PageSound(pages[q])
    OBVIOUS
  <2>1. CASE q \in 1 .. cnt
    BY <2>1, <1>1, <1>5
  <2>2. CASE q = cnt + 1
    BY <2>2, <1>3, <1>4
  <2> QED
    BY <2>1, <2>2, <1>1
<1>7. \A ms : MapsSound(ms, Pages) /\ DOMAIN ms \subseteq 1 .. cnt => MapsSound(ms, pages)
  BY <1>1, <1>5, SamePages
<1> QED
  BY <1>2, <1>6, <1>7 DEF pages

(***************************************************************************)
(* spman_add appends a page.                                               *)
(***************************************************************************)
LEMMA AddAppendLayout == SInv /\ LInv /\ AddAppend => LInv'
<1> SUFFICES ASSUME SInv, LInv, AddAppend
             PROVE  LInv'
  OBVIOUS
<1> DEFINE pages == Append(Pages, EmptyPage)
<1>1. up /\ up' /\ cnt \in Nat /\ add.size \in Sizes /\ cnt' = cnt + 1
  BY LenProperties DEF AddAppend, SInv, Counts
<1>2. PICK ms \in UNION {Loaded(ls, pages, cnt + 1) : ls \in LoadedLast} :
        \/ AllocIn(pages, <<>>, ms, cnt + 1, add.size)
        \/ maps' = ms /\ file' = pages
  BY DEF AddAppend
<1>3. PICK ls \in LoadedLast : ms \in Loaded(ls, pages, cnt + 1)
  OBVIOUS
<1>4. MapsSound(ls, Pages) /\ DOMAIN ls \subseteq 1 .. cnt
  BY <1>1, LastLayout
<1>5. /\ pages \in Seq(PageRec) /\ Len(pages) = cnt + 1
      /\ \A q \in 1 .. cnt + 1 : PageSound(pages[q])
      /\ MapsSound(ls, pages)
  BY <1>1, <1>4, AppendedLayout
<1> HIDE DEF pages
<1>6. cnt + 1 \in 1 .. Len(pages)
  BY <1>1, <1>5
<1>7. MapsSound(ms, pages)
  BY <1>3, <1>5, <1>6, LoadedSound
<1>8. DOMAIN ms \subseteq 1 .. Len(pages) /\ cnt + 1 \in DOMAIN ms
  <2>1. DOMAIN ms \subseteq DOMAIN ls \cup {cnt + 1} /\ cnt + 1 \in DOMAIN ms
    BY <1>3, LoadedMaps
  <2> QED
    BY <2>1, <1>1, <1>4, <1>5
<1>9. StorePages' = 1 .. cnt + 1
  BY <1>1 DEF StorePages
<1>10. (\A q \in 1 .. cnt + 1 : PageSound(file'[q])) /\ MapsSound(maps', file')
  <2>1. CASE AllocIn(pages, <<>>, ms, cnt + 1, add.size)
    <3>1. <<>> \in Seq(PageRec)
      BY EmptySeq
    <3>2. \A q \in 1 .. Len(pages) : PageSound(pages[q])
      BY <1>5
    <3>3. (\A q \in 1 .. Len(pages) : PageSound(file'[q])) /\ MapsSound(maps', file')
      BY <2>1, <3>1, <3>2, <1>1, <1>5, <1>6, <1>7, <1>8, AllocSound
    <3> QED
      BY <3>3, <1>5
  <2>2. CASE maps' = ms /\ file' = pages
    BY <2>2, <1>5, <1>7
  <2> QED
    BY <2>1, <2>2, <1>2
<1> QED
  BY <1>9, <1>10 DEF LInv, PageSound, MapsSound, MapSound

(***************************************************************************)
(* It fails to append the page, or to map it.                              *)
(***************************************************************************)
LEMMA AddAppendFailsLayout == SInv /\ LInv /\ AddAppendFails => LInv'
<1> SUFFICES ASSUME SInv, LInv, AddAppendFails
             PROVE  LInv'
  OBVIOUS
<1>1. up /\ up' /\ cnt \in Nat /\ UNCHANGED <<hdrcnt, up>>
  BY LenProperties DEF AddAppendFails, SInv, Counts
<1>2. \A ls \in LoadedLast : MapsSound(ls, Pages) /\ DOMAIN ls \subseteq 1 .. cnt
  BY <1>1, LastLayout
<1>3. CASE /\ maps' \in LoadedLast \cup (IF cnt = 0 THEN {} ELSE LoadFailed(maps, cnt))
           /\ UNCHANGED <<file, cnt, anum>>
  <2>1. /\ DOMAIN maps \subseteq 1 .. cnt /\ MapsSound(maps, Pages)
        /\ \A q \in 1 .. cnt : Pages[q] = file[q]
    BY <1>1, LayoutOpen
  <2>2. MapsSound(maps', Pages) /\ DOMAIN maps' \subseteq 1 .. cnt
    <3>1. CASE maps' \in LoadedLast
      BY <3>1, <1>2
    <3>2. CASE maps' \in Evicted(maps)
      BY <3>2, <2>1, EvictedSound, EvictedMaps
    <3> QED
      BY <3>1, <3>2, <1>3 DEF LoadFailed
  <2>3. MapsSound(maps', file)
    BY <2>1, <2>2, <1>1, SamePages
  <2> QED
    BY <2>3, <1>1, <1>3, MapsLayout
<1>4. CASE /\ maps' \in UNION {Evicted(ls) : ls \in LoadedLast}
           /\ file' = Append(Pages, EmptyPage)
           /\ cnt' = cnt + 1
           /\ anum' = cnt + 1
  <2>1. PICK ls \in LoadedLast : maps' \in Evicted(ls)
    BY <1>4
  <2>2. MapsSound(maps', Pages) /\ DOMAIN maps' \subseteq 1 .. cnt
    BY <2>1, <1>2, EvictedSound, EvictedMaps
  <2>3. (\A q \in 1 .. cnt + 1 : PageSound(file'[q])) /\ MapsSound(maps', file')
    BY <2>2, <1>1, <1>4, AppendedLayout
  <2>4. StorePages' = 1 .. cnt + 1
    BY <1>1, <1>4 DEF StorePages
  <2> QED
    BY <2>3, <2>4 DEF LInv, PageSound, MapsSound, MapSound
<1> QED
  BY <1>3, <1>4 DEF AddAppendFails

(***************************************************************************)
(* The store is opened, closed, or the process crashes: the pages that are *)
(* counted then were counted before.                                       *)
(***************************************************************************)
LEMMA OpenCloseLayout == SInv /\ LInv /\ (Open \/ Close \/ Crash) => LInv'
<1> SUFFICES ASSUME SInv, LInv, Open \/ Close \/ Crash
             PROVE  LInv'
  OBVIOUS
<1>1. StorePages' \subseteq StorePages /\ file' = file
  <2>1. hdrcnt \in Nat /\ cnt \in Nat /\ (up => hdrcnt <= cnt)
    BY LenProperties DEF SInv, Counts
  <2> QED
    BY <2>1 DEF StorePages, Open, Close, Crash, Down
<1>2. MapsSound(maps', file')
  <2>1. CASE Open
    BY <2>1 DEF Open, LInv
  <2>2. CASE Close \/ Crash
    <3>1. maps' = NoMaps /\ DOMAIN NoMaps = {}
      BY <2>2 DEF Close, Crash, Down, NoMaps
    <3> QED
      BY <3>1 DEF MapsSound
  <2> QED
    BY <2>1, <2>2
<1>3. \A p \in StorePages' : PageSound(file'[p])
  BY <1>1 DEF LInv
<1> QED
  BY <1>2, <1>3 DEF LInv, PageSound, MapsSound, MapSound

(***************************************************************************)
(* Every step keeps the layout of the pages and the maps of them.          *)
(***************************************************************************)
LEMMA LayoutStep == SInv /\ LInv /\ [Next]_vars => LInv'
<1> SUFFICES ASSUME SInv, LInv, [Next]_vars
             PROVE  LInv'
  OBVIOUS
<1>1. ASSUME NEW size \in Sizes, AddStart(size)
      PROVE  LInv'
  BY <1>1, MapsLayout DEF AddStart, LInv
<1>2. CASE AddTryFails
  <2>1. MapsSound(maps', file)
    BY <1>2, EvictedSound DEF AddTryFails, LoadFailed, LInv
  <2> QED
    BY <2>1, <1>2, MapsLayout DEF AddTryFails
<1>3. CASE UNCHANGED vars
  BY <1>3, MapsLayout DEF vars, LInv
<1> QED
  BY <1>1, <1>2, <1>3, GetLayout, RefLayout, AddTryLayout, AddAppendLayout,
     AddAppendFailsLayout, OpenCloseLayout DEF Next

(***************************************************************************)
(* In every state the pages are laid out well and the maps are true.       *)
(***************************************************************************)
THEOREM LayoutInvariant == Spec => []LInv
<1>1. Init => LInv
  <2> SUFFICES ASSUME Init
               PROVE  LInv
    OBVIOUS
  <2>1. DOMAIN NoMaps = {}
    BY DEF NoMaps
  <2> QED
    BY <2>1 DEF Init, LInv, StorePages, MapsSound
<1> QED
  BY <1>1, LayoutStep, SpmanInvariant, PTL DEF Spec

(***************************************************************************)
(* Slots never overlap and never reach over the end of their page, however *)
(* pages were grown, dropped from the cache and mapped again.              *)
(***************************************************************************)
THEOREM SlotsAreDisjoint == Spec => []SlotsDisjoint
<1>1. LInv => SlotsDisjoint
  BY DEF LInv, PageSound, SlotsDisjoint
<1> QED
  BY <1>1, LayoutInvariant, PTL

(***************************************************************************)
(* The maps in memory agree with the file at all times.                    *)
(***************************************************************************)
THEOREM MapsAreTrue == Spec => []MapsTrue
<1>1. LInv => MapsTrue
  BY DEF LInv, MapsSound, MapSound, MapsTrue
<1> QED
  BY <1>1, LayoutInvariant, PTL

-----------------------------------------------------------------------------
(* Types: the offset of a page is a sum of numbers of chunks.              *)

\* What SumFunction adds up for the elements of s, s being part of its domain.
SumStep(f, s, g) ==
  IF s = {} THEN 0 ELSE f[CHOOSE x \in s : TRUE] + g[s \ {CHOOSE x \in s : TRUE}]

Summing(f) == CHOOSE g : g = [s \in SUBSET DOMAIN f |-> SumStep(f, s, g)]

(***************************************************************************)
(* SumFunction takes its numbers away one by one.                          *)
(***************************************************************************)
LEMMA SumIs ==
  ASSUME NEW f
  PROVE  SumFunction(f) = Summing(f)[DOMAIN f]
BY DEF SumFunction, SumFunctionOnSet, FoldFunctionOnSet, MapThenFoldSet, Summing, SumStep

\* F of RecursionSolved.
SumBody(f) ==
  [x \in (SUBSET DOMAIN f) \X [SUBSET DOMAIN f -> Nat] |-> SumStep(f, x[1], x[2])]

(***************************************************************************)
(* The sum of natural numbers is one.                                      *)
(***************************************************************************)
LEMMA SumNat ==
  ASSUME NEW S, IsFiniteSet(S), NEW f \in [S -> Nat]
  PROVE  SumFunction(f) \in Nat
<1> DEFINE D == SUBSET S
           m == [s \in D |-> Cardinality(s)]
           F == SumBody(f)
           rest(s) == s \ {CHOOSE x \in s : TRUE}
<1>1. \A s \in D : IsFiniteSet(s) /\ Cardinality(s) \in Nat
  BY FS_Subset, FS_CardinalityType
<1>2. m \in [D -> Nat]
  BY <1>1
<1>3. ASSUME NEW s \in D, s # {}
      PROVE  /\ (CHOOSE x \in s : TRUE) \in s /\ rest(s) \in D
             /\ f[CHOOSE x \in s : TRUE] \in Nat
             /\ m[rest(s)] < m[s]
  <2>1. (CHOOSE x \in s : TRUE) \in s
    BY <1>3
  <2>2. rest(s) \in D
    OBVIOUS
  <2>3. Cardinality(rest(s)) = Cardinality(s) - 1
    BY <2>1, <1>1, FS_RemoveElement
  <2>4. m[rest(s)] < m[s]
    BY <2>2, <2>3, <1>1
  <2> QED
    BY <2>1, <2>2, <2>4
<1>4. \A s \in D, g \in [D -> Nat] : SumStep(f, s, g) \in Nat
  BY <1>3 DEF SumStep
<1>5. /\ F \in [D \X [D -> Nat] -> Nat]
      /\ \A s \in D, g \in [D -> Nat] : F[<<s, g>>] = SumStep(f, s, g)
  <2>1. DOMAIN f = S
    OBVIOUS
  <2>2. F = [x \in D \X [D -> Nat] |-> SumStep(f, x[1], x[2])]
    BY <2>1 DEF SumBody
  <2> HIDE DEF D, F
  <2> QED
    BY <2>2, <1>4
<1> HIDE DEF F
<1>6. LooksBelow(D, Nat, m, F)
  <2> HIDE DEF D, m
  <2> SUFFICES ASSUME NEW s \in D, NEW g \in [D -> Nat], NEW h \in [D -> Nat],
                      \A b \in D : m[b] < m[s] => g[b] = h[b]
               PROVE  SumStep(f, s, g) = SumStep(f, s, h)
    BY <1>5 DEF LooksBelow
  <2>1. CASE s = {}
    BY <2>1 DEF SumStep
  <2>2. CASE s # {}
    <3> HIDE DEF rest
    <3>1. g[rest(s)] = h[rest(s)]
      BY <2>2, <1>3
    <3>2. SumStep(f, s, g) = f[CHOOSE x \in s : TRUE] + g[rest(s)]
      BY <2>2 DEF SumStep, rest
    <3>3. SumStep(f, s, h) = f[CHOOSE x \in s : TRUE] + h[rest(s)]
      BY <2>2 DEF SumStep, rest
    <3> QED
      BY <3>1, <3>2, <3>3
  <2> QED
    BY <2>1, <2>2
<1>7. Solvable(D, Nat, F)
  <2> HIDE DEF D, m
  <2> QED
    BY <1>2, <1>5, <1>6, RecursionSolved
<1>8. PICK g \in [D -> Nat] : \A s \in D : g[s] = SumStep(f, s, g)
  BY <1>5, <1>7 DEF Solvable
<1>9. g = [s \in SUBSET DOMAIN f |-> SumStep(f, s, g)]
  <2> HIDE DEF m, rest
  <2>1. DOMAIN f = S
    OBVIOUS
  <2> QED
    BY <1>8, <2>1
<1> DEFINE h == Summing(f)
<1>10. h = [s \in SUBSET DOMAIN f |-> SumStep(f, s, h)]
  BY <1>9 DEF Summing
<1> HIDE DEF h
<1>11. \A s \in D : h[s] = SumStep(f, s, h)
  BY <1>10
<1> DEFINE T == {n \in Nat : \A s \in D : m[s] = n => h[s] \in Nat}
<1>12. ASSUME NEW n \in Nat, \A k \in Nat : k < n => k \in T
       PROVE  n \in T
  <2> SUFFICES ASSUME NEW s \in D, m[s] = n
               PROVE  SumStep(f, s, h) \in Nat
    BY <1>11
  <2>1. CASE s = {}
    BY <2>1 DEF SumStep
  <2>2. CASE s # {}
    <3>1. rest(s) \in D /\ m[rest(s)] \in Nat /\ m[rest(s)] < n
      BY <2>2, <1>2, <1>3
    <3>2. h[rest(s)] \in Nat
      BY <3>1, <1>12
    <3> QED
      BY <3>2, <2>2, <1>3 DEF SumStep
  <2> QED
    BY <2>1, <2>2
<1>13. T = Nat
  <2>1. T \in SUBSET Nat
    OBVIOUS
  <2> HIDE DEF T
  <2> QED
    BY <1>12, <2>1, NatInductBelow
<1>14. h[S] \in Nat
  <2>1. S \in D /\ m[S] \in Nat
    BY <1>2
  <2>2. m[S] \in T
    BY <1>13, <2>1
  <2> QED
    BY <2>1, <2>2
<1>15. DOMAIN f = S
  OBVIOUS
<1> QED
  BY <1>14, <1>15, SumIs DEF h

(***************************************************************************)
(* A page of the file begins at a whole number of bytes.                   *)
(***************************************************************************)
LEMMA OffsetNat ==
  ASSUME NEW pages \in Seq(PageRec), NEW p \in 1 .. Len(pages)
  PROVE  PageOffset(pages, p) \in Nat
<1> DEFINE S == 1 .. p - 1
           f == [q \in S |-> pages[q].pn]
<1>1. Len(pages) \in Nat
  BY LenProperties
<1>2. IsFiniteSet(S)
  BY <1>1, FS_Interval
<1>3. \A q \in S : pages[q].pn \in Nat
  <2> SUFFICES ASSUME NEW q \in S PROVE pages[q].pn \in Nat
    OBVIOUS
  <2>1. q \in 1 .. Len(pages)
    BY <1>1
  <2>2. pages[q] \in PageRec
    BY <2>1, ElementOfSeq
  <2> QED
    BY <2>2 DEF PageRec
<1>4. f \in [S -> Nat]
  BY <1>3
<1> HIDE DEF S
<1>5. SumFunction(f) \in Nat
  <2> HIDE DEF f
  <2> QED
    BY <1>2, <1>4, SumNat
<1>6. Chunk * SumFunction(f) \in Nat
  BY <1>5, Constants
<1> QED
  BY <1>6 DEF PageOffset, S

Flags == up \in BOOLEAN /\ failed \in BOOLEAN

(***************************************************************************)
(* The flags are only set and cleared.                                     *)
(***************************************************************************)
LEMMA FlagsStep == Flags /\ [Next]_vars => Flags'
<1> SUFFICES ASSUME Flags, [Next]_vars
             PROVE  Flags'
  OBVIOUS
<1>1. CASE UNCHANGED vars
  BY <1>1 DEF Flags, vars
<1>2. ASSUME NEW p, Get(p) \/ Ref(p) \/ Unref(p) PROVE Flags'
  BY <1>2 DEF Get, Ref, Unref, Flags
<1>3. ASSUME NEW size, AddStart(size) PROVE Flags'
  BY <1>3 DEF AddStart, Flags
<1>4. CASE AddTry
  BY <1>4 DEF AddTry, NoRoomIn, Flags
<1>5. CASE AddAppend
  BY <1>5 DEF AddAppend, NoRoomIn, Flags
<1>6. CASE AddTryFails \/ AddAppendFails \/ Open \/ Close \/ Crash
  BY <1>6 DEF AddTryFails, AddAppendFails, Open, Close, Crash, Down, Flags
<1> QED
  BY <1>1, <1>2, <1>3, <1>4, <1>5, <1>6 DEF Next

(***************************************************************************)
(* In every state pages, maps and counters are in range: no page is empty, *)
(* no map without the cache's own reference, and no slot known beyond the  *)
(* number of slots a page can have.                                        *)
(***************************************************************************)
THEOREM SpmanTyped == Spec => []TypeOK
<1>1. Init => Flags
  BY DEF Init, Flags
<1>2. SInv /\ LInv /\ Flags => TypeOK
  <2> SUFFICES ASSUME SInv, LInv, Flags
               PROVE  TypeOK
    OBVIOUS
  <2> DEFINE P == [pn : Nat \ {0}, slots : Seq(Slot)]
  <2>1. Counts /\ Len(file) \in Nat /\ file \in Seq(PageRec)
    BY LenProperties DEF SInv, Counts
  <2>2. file \in Seq(P)
    <3>1. PageRec \subseteq P
      BY DEF PageRec
    <3> HIDE DEF P
    <3>2. \A i \in 1 .. Len(file) : file[i] \in P
      BY <2>1, <3>1, ElementOfSeq
    <3>3. file = [i \in 1 .. Len(file) |-> file[i]]
      BY <2>1, LenProperties
    <3>4. [i \in 1 .. Len(file) |-> file[i]] \in Seq(P)
      BY <2>1, <3>2, IsASeq
    <3> QED
      BY <3>3, <3>4
  <2>3. ASSUME NEW p \in DOMAIN maps PROVE maps[p] \in MapRec
    <3>1. p \in 1 .. Len(file) /\ MapSound(maps[p], file, p)
      BY <2>1 DEF Counts, LInv, MapsSound
    <3>2. PageOffset(file, p) \in Nat
      BY <2>1, <3>1, OffsetNat
    <3>3. file[p].pn \in Nat
      BY <2>1, <3>1, ElementOfSeq DEF PageRec
    <3>4. Chunk * file[p].pn \in Nat
      BY <3>3, Constants
    <3> QED
      BY <3>1, <3>2, <3>4 DEF MapSound, MapRec
  <2>4. anum \in 1 .. Max({cnt, 1})
    <3>1. cnt \in Nat
      BY <2>1 DEF Counts
    <3> QED
      BY <2>1, <3>1, MaxOfTwo DEF Counts
  <2>5. add \in [size : Sizes \cup {0}, at : Nat]
    <3>1. CASE add = NoAdd
      BY <3>1 DEF NoAdd
    <3>2. CASE add # NoAdd
      BY <2>1, <3>2 DEF Counts
    <3> QED
      BY <3>1, <3>2
  <2> QED
    BY <2>1, <2>2, <2>3, <2>4, <2>5 DEF Counts, TypeOK, Flags
<1> QED
  BY <1>1, <1>2, FlagsStep, SpmanInvariant, LayoutInvariant, PTL DEF Spec

=============================================================================

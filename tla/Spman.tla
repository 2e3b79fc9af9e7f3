-------------------------------- MODULE Spman --------------------------------
(***************************************************************************)
(* The page manager of src/src/store/store.c: pages of slots in a file,    *)
(* mapped on demand into a cache of at most LivePages maps, and the store  *)
(* header that holds the number of pages.  A process may crash at any      *)
(* moment and the store may be opened again.                               *)
(*                                                                         *)
(* Pages and slots are numbered from 1 here and from 0 in the code.        *)
(* Mappings are shared, so what is written to a page is in the file at     *)
(* once: of a map only what is a copy is kept here.  What a slot contains  *)
(* is left out: a record is intact while its slot is in place.  Which map  *)
(* is dropped depends on use counts that the clients set: any unpinned one *)
(* may be.  A system call may fail.                                        *)
(***************************************************************************)
EXTENDS Integers, Sequences, FiniteSetsExt, Functions, SequencesExt

CONSTANTS
  Sizes,      \* the slot sizes asked for
  Chunk,      \* STORE_DATACHUNK
  SlotsMax,   \* STORE_SLOTSMAX
  LivePages,  \* STORE_LIVEPAGES
  MaxPages,   \* bound: pages in the file
  MaxPins     \* bound: references taken with spman_ref

ASSUME ConstantsAssumption ==
  /\ Sizes \subseteq Nat \ {0}
  /\ {Chunk, SlotsMax, LivePages, MaxPages} \subseteq Nat \ {0}
  /\ MaxPins \in Nat

VARIABLES
  file,    \* the pages in the file: [pn, slots], a slot being [at, size]
  hdrcnt,  \* the number of pages the store header tells
  up,      \* the store is open
  cnt,     \* pm->cnt: the number of pages
  anum,    \* pm->anum: where spman_add starts to look for room
  maps,    \* pm->map: page number -> [poff, psize, ref, known]
  add,     \* the spman_add in progress: [size, at], at being the page to try
  failed   \* a system call has failed

vars == <<file, hdrcnt, up, cnt, anum, maps, add, failed>>

HdrSize == 4  \* SPAGE_HDRSIZE and SSLOT_HDRSIZE

Align2(size)      == 2 * ((size + 1) \div 2)
ChunksFor(psize) == (psize + Chunk - 1) \div Chunk

NoAdd     == [size |-> 0, at |-> 0]
NoMaps    == [p \in {} |-> 0]
EmptyPage == [pn |-> 1, slots |-> <<>>]
Nowhere   == 0  \* a slot position that nothing is known of

Init ==
  /\ file = <<>>
  /\ hdrcnt = 0
  /\ up = FALSE
  /\ cnt = 0
  /\ anum = 1
  /\ maps = NoMaps
  /\ add = NoAdd
  /\ failed = FALSE

-----------------------------------------------------------------------------
(* Maps: spman_load, spman_ref, spman_unref.                               *)

\* spmap_gen_index steps over the ssize bytes of a slot where spmap_alloc gave
\* it ALIGN2(ssize): it finds the slots up to the first of an odd size.
Leading(slots) == {k \in 1 .. Len(slots) : \A j \in 1 .. k - 1 : slots[j].size % 2 = 0}

\* The start of page p: the loop in spman_load over the headers of the pages.
PageOffset(pages, p) == Chunk * SumFunction([q \in 1 .. p - 1 |-> pages[q].pn])

\* A page just mapped; known holds the slots that m->index tells correctly.
MapOf(pages, p) ==
  [poff  |-> PageOffset(pages, p),
   psize |-> Chunk * pages[p].pn,
   ref   |-> 1,
   known |-> Leading(pages[p].slots)]

\* spman_unload.
Unloaded(ms, p) == Restrict(ms, DOMAIN ms \ {p})

\* spman_load makes room if the cache is full, by dropping one unpinned map.
Evicted(ms) ==
  LET victims == {p \in DOMAIN ms : ms[p].ref = 1} IN
  IF Cardinality(DOMAIN ms) < LivePages \/ victims = {}
    THEN {ms}
    ELSE {Unloaded(ms, p) : p \in victims}

\* What the cache may be after spman_load of page p.
Loaded(ms, pages, p) ==
  IF p \in DOMAIN ms
    THEN {ms}
    ELSE {[q \in DOMAIN es \cup {p} |-> IF q = p THEN MapOf(pages, p) ELSE es[q]] :
            es \in Evicted(ms)}

\* What it may be if the page cannot be read or mapped.
LoadFailed(ms, p) == IF p \in DOMAIN ms THEN {} ELSE Evicted(ms)

\* spman_get of a slot in page p.
Get(p) ==
  /\ up /\ add = NoAdd
  /\ p \in 1 .. cnt
  /\ \/ maps' \in Loaded(maps, file, p) /\ UNCHANGED failed
     \/ maps' \in LoadFailed(maps, p) /\ failed' = TRUE
  /\ UNCHANGED <<file, hdrcnt, up, cnt, anum, add>>

Pins == MapThenSumSet(LAMBDA p : maps[p].ref - 1, DOMAIN maps)

\* A client that unpacks a record pins the page.
Ref(p) ==
  /\ up /\ add = NoAdd
  /\ p \in DOMAIN maps
  /\ Pins < MaxPins
  /\ maps' = [maps EXCEPT ![p].ref = @ + 1]
  /\ UNCHANGED <<file, hdrcnt, up, cnt, anum, add, failed>>

Unref(p) ==
  /\ up /\ add = NoAdd
  /\ p \in DOMAIN maps
  /\ maps[p].ref > 1
  /\ maps' = [maps EXCEPT ![p].ref = @ - 1]
  /\ UNCHANGED <<file, hdrcnt, up, cnt, anum, add, failed>>

-----------------------------------------------------------------------------
(* spman_add: one step for each page it tries.                             *)

\* Mutants of Rooms: the slot's header is not counted; spman_truncate grows any
\* page; no page is grown.
RoomsNoHeader(pages, p, known, size) ==
  LET slots == pages[p].slots
      n     == Len(slots)
      off   == IF n = 0 THEN HdrSize ELSE slots[n].at + Align2(slots[n].size)
      pn    == ChunksFor(off + Align2(size))
  IN  {r \in IF n = 0 \/ n \in known
               THEN {[at |-> off + HdrSize, pn |-> Max({pn, pages[p].pn})]}
               ELSE {[at |-> Nowhere, pn |-> pages[p].pn + k] : k \in {0, 1}} :
         n < SlotsMax /\ (r.pn = pages[p].pn \/ p = Len(pages))}

RoomsAnyPage(pages, p, known, size) ==
  LET slots == pages[p].slots
      n     == Len(slots)
      off   == IF n = 0 THEN HdrSize ELSE slots[n].at + Align2(slots[n].size)
      pn    == ChunksFor(off + HdrSize + Align2(size))
  IN  {r \in IF n = 0 \/ n \in known
               THEN {[at |-> off + HdrSize, pn |-> Max({pn, pages[p].pn})]}
               ELSE {[at |-> Nowhere, pn |-> pages[p].pn + k] : k \in {0, 1}} :
         n < SlotsMax}

RoomsNoGrowth(pages, p, known, size) ==
  LET slots == pages[p].slots
      n     == Len(slots)
      off   == IF n = 0 THEN HdrSize ELSE slots[n].at + Align2(slots[n].size)
      pn    == ChunksFor(off + HdrSize + Align2(size))
  IN  {r \in IF n = 0 \/ n \in known
               THEN {[at |-> off + HdrSize, pn |-> Max({pn, pages[p].pn})]}
               ELSE {[at |-> Nowhere, pn |-> pages[p].pn + k] : k \in {0, 1}} :
         n < SlotsMax /\ r.pn = pages[p].pn}

\* Where spmap_alloc may put a slot in page p, and the page's size then.  The
\* last page can grow (spman_truncate).  After a slot that the index does not
\* know the new one goes to some place further on.
Rooms(pages, p, known, size) ==
  LET slots == pages[p].slots
      n     == Len(slots)
      off   == IF n = 0 THEN HdrSize ELSE slots[n].at + Align2(slots[n].size)
      pn    == ChunksFor(off + HdrSize + Align2(size))
  IN  {r \in IF n = 0 \/ n \in known
               THEN {[at |-> off + HdrSize, pn |-> Max({pn, pages[p].pn})]}
               ELSE {[at |-> Nowhere, pn |-> pages[p].pn + k] : k \in {0, 1}} :
         n < SlotsMax /\ (r.pn = pages[p].pn \/ p = Len(pages))}

\* The pages of the store, and what an earlier process left behind them when it
\* crashed.
Pages == SubSeq(file, 1, cnt)
Rest  == SubSeq(file, cnt + 1, Len(file))

\* Mutant of AllocIn: m->psize = npsize is forgotten.
AllocInOldSize(pages, rest, ms, p, size) ==
  \E r \in Rooms(pages, p, ms[p].known, size) :
    LET new   == Append(pages[p].slots, [at |-> r.at, size |-> size])
        grown == r.pn > pages[p].pn
    IN  /\ file' = IF grown THEN Append(SubSeq(pages, 1, p - 1), [pn |-> r.pn, slots |-> new])
                            ELSE [pages EXCEPT ![p].slots = new] \o rest
        /\ maps' = [ms EXCEPT ![p].known =
                      (IF grown THEN Leading(pages[p].slots) ELSE @) \cup {Len(new)}]
        /\ anum' = p

\* spmap_alloc in page p, with ms loaded.  A page that grows becomes the end of
\* the file (ftruncate), and its index is read anew.
AllocIn(pages, rest, ms, p, size) ==
  \E r \in Rooms(pages, p, ms[p].known, size) :
    LET new   == Append(pages[p].slots, [at |-> r.at, size |-> size])
        grown == r.pn > pages[p].pn
    IN  /\ file' = IF grown THEN Append(SubSeq(pages, 1, p - 1), [pn |-> r.pn, slots |-> new])
                            ELSE [pages EXCEPT ![p].slots = new] \o rest
        /\ maps' = [ms EXCEPT
                      ![p].psize = Chunk * r.pn,
                      ![p].known = (IF grown THEN Leading(pages[p].slots) ELSE @)
                                     \cup {Len(new)}]
        /\ anum' = p

\* No slot in page p: it is full, or cannot grow, or ftruncate or mremap fails.
NoRoomIn(pages, ms, p, size) ==
  LET rooms == Rooms(pages, p, ms[p].known, size) IN
  /\ \A r \in rooms : r.pn > pages[p].pn \/ r.at = Nowhere
  /\ failed' = (failed \/ rooms # {})

AddStart(size) ==
  /\ up /\ add = NoAdd
  /\ add' = [size |-> size, at |-> anum]
  /\ UNCHANGED <<file, hdrcnt, up, cnt, anum, maps, failed>>

\* The loop of spman_add looks at one more page.
AddTry ==
  /\ add # NoAdd
  /\ add.at <= cnt
  /\ \E ms \in Loaded(maps, Pages, add.at) :
       \/ /\ AllocIn(Pages, Rest, ms, add.at, add.size)
          /\ add' = NoAdd
          /\ UNCHANGED failed
       \/ /\ NoRoomIn(Pages, ms, add.at, add.size)
          /\ maps' = ms
          /\ add' = [add EXCEPT !.at = @ + 1]
          /\ UNCHANGED <<file, anum>>
  /\ UNCHANGED <<hdrcnt, up, cnt>>

\* spman_load of the next page to try fails.
AddTryFails ==
  /\ add # NoAdd
  /\ add.at <= cnt
  /\ maps' \in LoadFailed(maps, add.at)
  /\ add' = NoAdd
  /\ failed' = TRUE
  /\ UNCHANGED <<file, hdrcnt, up, cnt, anum>>

\* The page after the last one: its offset comes from the last page's map.
LoadedLast == IF cnt = 0 THEN {maps} ELSE Loaded(maps, Pages, cnt)

\* The pages have all been tried: spman_add appends one, which cuts off or
\* overwrites what follows in the file.
AddAppend ==
  LET pages == Append(Pages, EmptyPage) IN
  /\ add # NoAdd
  /\ add.at > cnt
  /\ cnt < MaxPages
  /\ cnt' = cnt + 1
  /\ \E ms \in UNION {Loaded(ls, pages, cnt + 1) : ls \in LoadedLast} :
       \/ AllocIn(pages, <<>>, ms, cnt + 1, add.size) /\ UNCHANGED failed
       \/ /\ NoRoomIn(pages, ms, cnt + 1, add.size)
          /\ maps' = ms
          /\ file' = pages
          /\ anum' = cnt + 1
  /\ add' = NoAdd
  /\ UNCHANGED <<hdrcnt, up>>

\* Mutant of AddAppendFails: the page is counted before ftruncate made it.
AddAppendFailsCounted ==
  /\ add # NoAdd
  /\ add.at > cnt
  /\ cnt < MaxPages
  /\ maps' \in LoadedLast
  /\ cnt' = cnt + 1
  /\ anum' = cnt + 1
  /\ add' = NoAdd
  /\ failed' = TRUE
  /\ UNCHANGED <<file, hdrcnt, up>>

\* A system call fails before the page is there, or when it is to be mapped.
AddAppendFails ==
  /\ add # NoAdd
  /\ add.at > cnt
  /\ \/ /\ maps' \in LoadedLast \cup (IF cnt = 0 THEN {} ELSE LoadFailed(maps, cnt))
        /\ UNCHANGED <<file, cnt, anum>>
     \/ /\ cnt < MaxPages
        /\ maps' \in UNION {Evicted(ls) : ls \in LoadedLast}
        /\ file' = Append(Pages, EmptyPage)
        /\ cnt' = cnt + 1
        /\ anum' = cnt + 1
  /\ add' = NoAdd
  /\ failed' = TRUE
  /\ UNCHANGED <<hdrcnt, up>>

-----------------------------------------------------------------------------
(* The store is opened and closed.                                         *)

\* store_init: spman_init.
Open ==
  /\ ~up
  /\ up' = TRUE
  /\ cnt' = hdrcnt
  /\ anum' = 1
  /\ UNCHANGED <<file, hdrcnt, maps, add, failed>>

Down ==
  /\ up' = FALSE
  /\ cnt' = 0
  /\ anum' = 1
  /\ maps' = NoMaps
  /\ add' = NoAdd
  /\ UNCHANGED <<file, failed>>

\* store_clear: only here does the header get the number of pages.
Close ==
  /\ up /\ add = NoAdd
  /\ Pins = 0
  /\ hdrcnt' = cnt
  /\ Down

Crash ==
  /\ up
  /\ UNCHANGED hdrcnt
  /\ Down

Next ==
  \/ Open \/ Close \/ Crash
  \/ \E p \in 1 .. cnt : Get(p) \/ Ref(p) \/ Unref(p)
  \/ \E size \in Sizes : AddStart(size)
  \/ AddTry \/ AddTryFails
  \/ AddAppend \/ AddAppendFails

Spec == Init /\ [][Next]_vars

-----------------------------------------------------------------------------
(* Properties.                                                             *)

Slot   == [at : Nat, size : Sizes]
MapRec == [poff : Nat, psize : Nat, ref : Nat \ {0}, known : SUBSET (1 .. SlotsMax)]

\* Types; the pages that are counted are in the file, and maps are of them.
TypeOK ==
  /\ file \in Seq([pn : Nat \ {0}, slots : Seq(Slot)])
  /\ hdrcnt \in 0 .. Len(file)
  /\ cnt \in 0 .. Len(file)
  /\ DOMAIN maps \subseteq 1 .. cnt
  /\ \A p \in DOMAIN maps : maps[p] \in MapRec
  /\ anum \in 1 .. Max({cnt, 1})
  /\ add \in [size : Sizes \cup {0}, at : Nat]
  /\ up \in BOOLEAN /\ failed \in BOOLEAN

\* The store's pages, also while it is closed.
StorePages == 1 .. (IF up THEN cnt ELSE hdrcnt)

\* Slots do not overlap and do not reach over the end of their page, in all
\* of a page that the index is able to tell (spmap_alloc, spman_truncate).
SlotsDisjoint ==
  \A p \in StorePages :
    LET slots == file[p].slots IN
    \A k \in Leading(slots) :
      /\ slots[k].at >= 2 * HdrSize
      /\ slots[k].at + slots[k].size <= Chunk * file[p].pn
      /\ \A j \in 1 .. k - 1 : slots[j].at + slots[j].size <= slots[k].at - HdrSize

\* The copy in memory agrees with the file, however the page was loaded, grown
\* or dropped meanwhile: place and size of the page, and the slots that a
\* reading of the page finds (spman_load, spman_truncate, spmap_gen_index).
MapsTrue ==
  \A p \in DOMAIN maps :
    /\ maps[p].poff = PageOffset(file, p)
    /\ maps[p].psize = Chunk * file[p].pn
    /\ Leading(file[p].slots) \subseteq maps[p].known

\* spman_add leaves no page behind that has a slot number to give, unless
\* growing it failed: pages before anum are not looked at again.
OnlyLastPageHasSlots ==
  ~failed => \A p \in StorePages : p + 1 \in StorePages => Len(file[p].slots) = SlotsMax

\* A record keeps its place for good, except that a crash takes the pages that
\* were appended since the store was opened (spman_add, spman_truncate,
\* store_clear).
RecordsStay ==
  [][\A p \in 1 .. (IF up /\ up' THEN cnt ELSE hdrcnt') :
       p \in DOMAIN file' /\ IsPrefix(file[p].slots, file'[p].slots)]_vars

\* PAGE LAYOUT (store.h:61-68) gives a slot u8[ALIGN2(size)]: the index of a
\* page tells all its slots.
IndexComplete ==
  \A p \in DOMAIN maps : maps[p].known = 1 .. Len(file[p].slots)

=============================================================================

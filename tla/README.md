# libnih in TLA+

libnih (`src/src/`) is a C library for building small dynamic languages and
their data stores: an incremental garbage collector, a record store on top of
it that keeps its records in a file, a compressed trie, big numbers,
s-expressions and a path manager.  There is no other documentation than the
code and its tests; everything here is read off the code.

## The system

Everything runs in one thread (only the error stack is kept for each thread).
What makes it hard is not parallelism but *re-entrance over time*: the
collector runs in slices between the client's operations, records are loaded
and dropped behind the client's back, and the file outlives the process.

| component | state | operations | interacts with |
|---|---|---|---|
| `gc` | phase, current white, chains of objects and headers with a sweep cursor each, string table, two grey lists, vector of roots | `gc_new`, `gc_new_str`, `gc_add_root`, `gc_del_root`, `gc_barrier`, `gc_barrier_back`, `gc_collect` (one slice, or full), `gc_clear` | calls `gc_init`, `gc_propagate`, `gc_clear` of the clients' vtables |
| `store`: page manager | file, page count, a cache of mapped pages with reference and use counts, where to look for room | `spman_get`, `spman_add`, `spman_ref`, `spman_unref` and their helpers | system calls |
| `store`: records and classes | live ids (`i2r`, a trie), unpacked records and classes | `store_add_class`, `store_add_object`, `store_get_object`, `smrec_get`, `smrec_set`, `store_clear` | objects of `gc`; slots of the page manager |
| `trie` | banks of nodes, free list, root | insert, delete, find, iterate | `i2r`, pathman |
| `pathman` | directories and files as nodes in banks, a trie of names | add, find, remove | `trie` |
| `gc-stack` | a growing vector of references | push, pop, top, size, strcat | `gc` barriers |
| `number` | limbs and a sign | read and write in four radices, add, subtract, shift | `gc` |
| `sx` | parser state, a buffer for the atom being read, the items that are linked | `sxb_read`, `sx_dump` | `gc`, `gc-stack`, `number`, UTF-8 |
| UTF-8 (`common/utf8.h`) | decoder state | decode, encode | `sx` |
| `err` | a stack of errors and a list of spare entries | push, pop, reset | all |

`blobtree`, `sr`, `lua`, `field.h` and the older C++ port of trie and pathman
are not built and are not modelled.

What makes each of the modelled components correct:

- **gc**: memory is given back only for what the client cannot reach, and for
  all of that in the end (strings only while they are few), for every interleaving
  of slices, stores, barriers, new nodes and roots.
- **page manager**: slots do not overlap and stay in place; the cached copy of
  a page agrees with the file after growth, eviction, failures and reopening;
  no room is lost.
- **path manager**: what was added is found under its full path, and is what was
  added.
- **trie**: it is a map: a word is found, with its data, exactly while it is in;
  iterating gives all of them in order; no node is lost or left over.
- **records**: a record that is freed and unpacked again is the same one with
  the last update; a pointer in a field is to the record that the field names.
- **classes and records as they are unpacked**: a page that is being read stays
  mapped, nothing is unpacked twice, the recursion of `store_get_object` and
  `store_get_class` ends, and a record is written back before what it refers to
  is gone.
- **number**: what is read is the number that was written, operations are those of
  the integers, and nothing is written beyond the limbs that were reckoned.
- **sx**: the items of a text do not depend on how it is cut into calls nor on
  collections in between, and what is written is read back as the same items.

`PROJECT.json` lists the hazards, each at its line, with the properties that
watch them, or with the reason why none does.

## The modules

| module | what it is |
|---|---|
| `Reachability` | reachability as the least closed set, for the specification and for proofs |
| `GcHeap` | the abstract heap: what the collector promises, without colours, lists or phases |
| `Gc` | `gc.c`, `gc.h` and `gc-private.h`: collector and client; implements `GcHeap` |
| `MCGc` | `Gc` for TLC, with a history variable for the garbage a cycle must free |
| `BasicProofs` | facts about reachability, natural numbers, powers and recursive functions that the proofs use |
| `GcProofs` (with those of `StoreRecords`), `SpmanProofs`, `StoreUnpackProofs`, `TrieProofs`, `PathmanProofs`, `NumberProofs`, `SxProofs` | the proofs |
| `Spman` | the page manager of `store.c` with the file under it, system calls that fail, crashes |
| `StoreRecords` | the records of `store.c` as objects of `Gc` |
| `StoreUnpack`, `MCStoreUnpack` | classes and records of `store.c` as they unpack each other over a page cache |
| `Trie`, `MCTrie` | `trie.c` and `trie-private.h`: insert, delete, find and the iterator |
| `Pathman`, `MCPathman` | `pathman.c` and `pathman-private.h` over `Trie` |
| `Powers` | powers, how many digits a number has, and what digits are worth |
| `LimbOps` | one step of the limb loops of `number.c` |
| `NumberOps` | the functions of `number.c`, and what they stand for |
| `Number`, `MCNumber` | clients of the numbers |
| `GcStack` | `gc-stack.c` |
| `Utf8` | `utf8.h` |
| `Sx` | the parser of `sx.c` over `GcStack`, `NumberOps` and `Utf8`, with collections between the calls |
| `SxText`, `MCSx` | what a text means, and the writer of `sx.c` |

### Gc

`state`, `white`, `color`, `roots`, `grey0`, `grey1` are the fields of
`gc_global_t` and the colour bits of a node.  The two chains are the set `heap`;
of each sweep cursor only the nodes ahead of it are kept (`ahead`).  `refs` is
what a node's `gc_propagate` marks.  `call` is the `gc_collect` in progress:
`incr` is the incremental form, `drain` and `cycle` are the two loops of the
full form, `aborted` is a failed assertion.

Between two calls of `gc_collect` the client allocates (`New`, `NewStr`,
`FindStr`), stores references (`Store` where neither barrier macro acts,
`StoreBarrierBack` and `StoreBarrier` for the two disciplines a client may
choose), erases them, registers roots, or ends the collector's life (`Clear`).
`fresh` are the nodes it was handed since its last `gc_collect`: it may use those
and what it reaches from there or from the roots, and the code promises no more.
The client is taken to use a barrier for every store: the clients in the
library that do not (`sx`, `smrec_set`) are listed as hazards, and `smrec_set`
is modelled as it is in `StoreRecords`.

Each state of `step()` is an action.  How many nodes a sweep takes is left
open (at least one while there is one: the limit is `total >> 2` or `total`).
`limit` is what is left of an incremental call's budget: each step is charged as in
the code, 1 and what it did, so that a call ends in `GC_STATE_PAUSE` or when nothing is
left, and nowhere else.  The budget is 20 in the code and a choice from `Budgets` here:
the heaps TLC can exhaust are small, and with 20 most calls would run
through.  What a client's `gc_propagate` returns is the constant `Visits`:
`SmrecVisits` is that of the store's records (always 0), `TestobjVisits` that of the
collector's tests.

Strings are nodes known by their content; `StrLimit` stands for the 100 strings up to
which one pass of `sweep_strings` gets to all of them: above it the pass ends early
and the state is left all the same.  The next cycle begins at the first bucket again
(`strings_prepare`) and the strings that are kept count too, so that garbage behind a
first quarter of live strings stays for good when only incremental cycles run.
`GarbageFreed` is therefore stated of what a sweep gets to (`Swept`): objects and
headers always, strings when there are no more than `StrLimit`.  Stated of all nodes it
would be false: with two strings and `StrLimit = 1` each cycle may look at the one that is
in use and never at the other.

### Spman

The file is a sequence of pages, each of `pn` chunks with a sequence of slots;
mappings are shared, so a write to a page is in the file at once, and of a map
only what is a *copy* of the file is kept: `poff`, `psize`, the reference count
and the slots that the index in memory tells correctly (`known`).  `spman_add` is
one step for each page it tries, because any of its system calls may fail and
the process may crash between two of them; everything else is one step.  A
crash keeps the file and the header and loses the rest.  Which unpinned map is
dropped is left open: the use counts are written by clients too (the test of
the page manager sets them at random).  After a slot that the index misreads
the position of the next one is unknown (`Nowhere`); reads through such an index
beyond the mapping are not modelled, nor is what they return.

### StoreRecords

Every id is an object of `Gc`, `i2r` is the set of those in `heap`, and a record
has one field of kind `SKIND_ODREF`: its slot holds an id (`disk`), the unpacked
record the id and, once followed, a pointer (`rid`, `refs`).  `wrote` remembers
what the client gave the field last.  The collector's sweeps write back what
they free (`Synced`, which is `smrec_clear`).  The specification comes with two
clients: `FullSpec` runs full collections only, as the tests of the store do, and
`IncrSpec` runs incremental ones.

### StoreUnpack

Unpacking is recursive: `store_get_object` asks for the class, which may ask for
its meta record and for the classes of its fields, and a field of kind
`SKIND_OBJECT` asks for the record it refers to, each of them over the page cache,
which may drop a page at every call.  `frames` is the stack of calls, each with the
place where it stands: `slot` (before `spman_get`), `before` (the page is not pinned
yet), `inside` (it is).  `held` says that the slot pointer of the call is still good.
Here only the pages and their pins matter, so the cache is `maps`, from pages to
reference counts.  Any system call may fail (`Fail`): the calls in progress all
return the error, and a class that had registered itself stays behind in `i2r`
(`spoiled`), where the next one to ask for it finds freed memory.

`fault` is what the program has run into: `freed` that memory; `dropped` a slot
that is read though its page has been dropped, which happens because
`store_get_object` pins the page only after it asked for the class, although the
comment there (store.c:1071, "pin the page (map) so it does not vanish in the heat
of the moment") wants the opposite; `half` a record that is unpacked by a class
whose fields are still being read; `endless` a recursion that does not end.  What
the program does then is not defined, and it does nothing more in the model.
`RecursionEnds` says when the last two can happen at all.

The collector is what its full form is to a client (`Collect` chooses what is
kept, `ClearNext` clears the rest one by one, the newest first).  Closing and reopening
the store is `Collect` with nothing kept.  The use counts of pages and the counter
`inuse` are left open as in `Spman`.  Left out are `store_add_class`, the
conversions of the other kinds of fields and classes as values of fields
(`SKIND_CLASS`).

### LimbOps, NumberOps, Number

A number is its sign and length `s` and its limbs `d`, with the base and the digits
of a decimal chunk as constants.  `LimbOps` has the steps of the three limb loops;
`NumberOps` has the loops and what is built from them: `number_setstrc` with its
scanner, the four conversions and the size they ask for, `number_gethex`,
`number_getdec`, `number_add`, `number_sub`, `number_shl`, `number_shr`.  A result is
a record that tells whether the call gave a number, an error or nothing, and whether
it wrote `over` the limbs that were allocated.  A text is a sequence of characters as
the scanner tells them apart (digits, signs, `o`, `x`, a blank); hexadecimal digits
in upper case are taken for those in lower case.

`Number` has two clients: one reads a text, also into a number it has made itself;
the other has two numbers, and calculates with them.  `ReadsRight`, `ResultsExact`
and `TextRoundTrips` compare with integers (`Meaning`, `Value`).  Three things in
`number.c` are known not to do so, and the properties say exactly what they do
instead:

- `number_add` and `number_sub` take the operand with the larger top limb for the
  larger one; when the top limbs are equal and the rest says otherwise the result
  is off by `Base^len` (`Off`).
- The size of the result is misjudged in the calls that `Misjudged` lists: octal
  zeros are not counted, a number that the client made is never replaced,
  `number_add` takes the (negative) count of a negative operand as it is, and
  `number_shr` reads on when no limb is left.  `InBounds` says that no other call
  writes beyond its limbs or is refused.
- A text that is no number gives neither a number nor an error.

### GcStack, Utf8, Sx, SxText

A stack is its elements, the room it has, and `past`: after a failed `realloc` in
`gc_stack_pushf` the pointer stays moved, one behind the vector.  Then `StackSize` is one
more than the elements, `StackTop` is `Beyond`, `StackPop` moves the pointer back, and
`gc_stack_propagate` marks what lies behind the vector, whatever that is.  No caller
pushes once more after that.  `gc_stack_set` is left out: only its test calls it.  `Utf8` has the table of the decoder as its two functions.

`Sx` is `sxb_read` over texts that are cut into calls of any length, and `gc_collect`
in between; `SxText` has `sx_dump`.  Within a call the parser takes one byte after the other
(`b` is its state, `heap` the items with their links); a NUL ends a call.  In one
of the calls one of the first `MaxFail` allocations may fail; `ag_append`'s failure is
ignored by its callers, and the bytes are missing then (`hit`).  Failures while
`sx_dump` writes are not modelled.  `strs` are the strings that are in the string
table: `sx_propagate` marks no atom's string, since `SX_ATOM`, which it asks for, is only
a part of every atom's kind, and an item's `next` never, so that a collection may take
what the parser refers to.  When a push has failed, `Collect` has the read behind the
stack's vector: what is taken there for a pointer is nothing, one of the items or one of
the strings, which is then kept.  `lost` says that the client has collected while the
parser was not idle, which nothing forbids; the properties then say what is left.
What ends an atom or an escape is looked at again afterwards (`Ended`), and then taken
in (`TakenIn`).  `Items` in `SxText` is the reference: what the text means, read in one
piece by recursive descent; as it uses RECURSIVE operators it is kept apart from `Sx`,
about which there are proofs.

### Trie

A node is its index (`node`, `used`), 0 is no node; `free` is the free list and
`top` counts the nodes taken from the banks, of `BankSize` each.  `Insert` is
`trie_insert`: `Decide` finds where the word parts from those that are in
(`_trie_insert_decide`, with the code's names for what is to be done), `Taken` are
the nodes it gets, and one operator for each case hangs them up.  `InsertFails` is
the insertion that gets some nodes and then no memory for a bank.  `Delete`
follows the word, remembering for each node the sibling before it, and prunes.
`StrMax` stands for the 8 characters that a node has room for.  `kv` is what the
trie is to hold, the map it implements.  What recurses in the code is a recursive
function here (`FindFrom`, `DecideFrom`, `PathFrom`, `Iterate`).

An operation is one step: the trie has no callbacks and no second thread.  An
iterator over a trie that changes under it is not modelled; `pathman` and `store`
have none.

### Pathman

`Pathman` extends `Trie` and uses its steps from another place than the root:
`pathman_add_dir` and `pathman_add_file` put the last part of a path in from the
node at which the path of the directory ends (`DecideAt`, `Put`, `StrideFails`).
`dir` and `file` are the nodes of the two kinds of banks by their position;
`Position` is where an index leads to: the first node of a bank, since the mask
(`PDIR_NODEMASK`, `PFILE_NODEMASK`) keeps the wrong bits of an index, so that
`pathman_get_dir` gives the root directory and `pathman_get_file` the first file of
the bank; the assertion of the test that would see it is switched off
(pathman-tests.c:183).  `path` is what the client knows: the path it got a directory
for.  Files are put in through any directory that was handed out; directories by a path,
below any that the trie has, also one whose node was given back.

## What is checked

| run | module | shows |
|---|---|---|
| `gc_safety` | `MCGc` | nothing in use is freed or dead, the tri-colour invariant, colours during sweeps, full collections are exact, a cycle leaves none of its garbage |
| `gc_liveness` | `Gc` | garbage that a sweep gets to is freed in the end, full collections are exact for strings where the sweep gets to all of them, `GcHeap` is implemented |
| `gc_full_assert` | `MCGc` | violated: a full collection fails its assertion in `GC_STATE_ATOMIC` |
| `store_pages` | `Spman` | slots, maps, page numbers and records through growth, eviction, failure, crash |
| `store_index` | `Spman` | violated: the index of a page does not tell the slots after one of odd size |
| `store_records` | `StoreRecords` | no update is lost, pointers name the right record, no record in use is freed |
| `store_dead_record` | `StoreRecords` | violated: a dead record is found by its id and trips the barrier's assertion |
| `pathman_paths` | `MCPathman` | directories and files are found under their full paths, also after failed insertions |
| `store_unpack` | `MCStoreUnpack` | pins hold and are given back, `i2r` is what is in memory, when unpacking ends, what is written back in time |
| `number` | `MCNumber` | texts are read and written right, in every radix; sums, differences and shifts are exact or off by a known amount; no writes out of bounds but the known ones |
| `sx` | `MCSx` | the items read are those of the text, however it is cut; open lists nest; nothing dangles; what is written is read back |
| `trie_map` | `MCTrie` | the trie holds exactly the words put in, iterates them in order, and loses no node |

### Bounds, and why they are enough

- `gc_safety`: two objects with one reference each, a header, and two strings.  A
  barrier concerns two nodes, a chain has a node that can be on either side of the
  cursor, and with `StrLimit = 1` the string sweep stops early when there are two
  strings.  With a budget of 2 or 3 a call may end after any of the steps but the first, so that
  the client acts between any two.  The proofs take the safety part to every size,
  every budget and every cost of propagating.
- `gc_liveness`: an object and one without a `gc_propagate`, a header and a string:
  garbage of every kind, and a client that is busy with something else; the string is
  one that the sweep gets to, as `GarbageFreed` and `FullCollectExactStrings` ask; room for a
  duplicate root.  Symmetry is not used there.
- `gc_full_assert` and `store_dead_record` have the code's budget of 20: six
  objects of the collector's tests use it up just at the step into `GC_STATE_ATOMIC`;
  for two records it ends in a sweep when the root is registered nine times (every
  entry of the roots vector costs 1), for which there is room in `MaxRoots`.
- `store_pages`: a page of 4096 bytes takes one slot of 4080 bytes and grows for
  a second, or takes three of 5 bytes (odd); three slots fill a page
  (`STORE_SLOTSMAX`), two pages and a cache of one: every `spman_add` may evict
  the page before, and a pin makes the cache exceed its limit.
- `store_records`: three records are a chain of two references, whose middle may
  be freed and unpacked while both ends stay.
- `store_unpack`: two classes and three records on three pages with a cache of two,
  so that every call may drop a page that an outer one reads; a class with a meta
  record and with a field of the other class, and a field of each record that may
  refer to any record: every kind of nesting, and every loop of one, two and three
  ids.  Fifteen nested calls are as many as `Deep` asks for with five ids and two
  classes: one more would be a call that never ends.
- `number`: limbs of 8 bits and decimal chunks of two digits keep the relations of
  32 bits and nine digits that the code depends on (a chunk is less than a limb, an
  octal digit may be split between limbs).  All texts of up to four of eight
  characters, and longer ones at the limits of limbs and chunks; operands of one to
  three limbs whose limbs are 0, 1 or the largest, so that carries and borrows run
  through, stop and start in each; two operations in a row.
- `sx`: all texts of four of nine bytes, one for each kind that the parser tells
  apart, and texts with every escape, with UTF-8 of every length and malformed,
  numbers, nesting, and atoms that outgrow their buffer twice; every way to cut
  them, a collection at every cut, also behind a push that failed, and in one of the
  calls one of the first three allocations failing.
- `trie_map`: a node has room for two characters, and of the six words one is
  the beginning of three others, which end or part in the middle of a piece, and
  two share nothing with them: every case of an insertion is reached with the
  new node first, in the middle and last among its siblings, and a deletion cuts
  at a sibling, at a word and at the root.  Five nodes do not hold all words, and
  memory may fail after every second node.  Exchanging the two data changes
  nothing, which is the symmetry used.
- `pathman_paths`: four directories of two names and files of the same names: a
  file and a directory share the beginning of their paths, one name is
  the beginning of the other, a directory is inside another, each kind of bank
  has a second one, and the root's node is given away and handed out again.

### Fairness

`FairSpec` assumes `WF(Step)`: a call of `gc_collect` that was entered runs, as
it does in one thread; and `WF(Collect)`: the client calls `gc_collect` again and
again, which is what the incremental form is for.  Nothing else is assumed: the
client may allocate, store and run full collections for ever.  A string that is
asked for again, a node that was aborted on and a node that became accessible
again (`fresh` through the string table) are excepted in `GarbageFreed`.

## What is proved

The theorems hold for every value of the constants that the named assumptions
admit; TLC evaluates these assumptions in the runs.

**`BasicProofs`** has what several proofs need: `Reachable` is the least closed set;
a set of natural numbers that holds a number whenever it holds all smaller ones
holds all (`NatInduct`, by the least number that it lacks, `LeastNat`, since the library's
induction theorem is out of the provers' reach); and a function that is defined by
recursion exists when some measure goes down with every call (`RecursionSolved`):
`f[x \in S] == ...` is a `CHOOSE`, and without this fact nothing is known of `f`.
`IterationExists` is the same for loops: a function that starts from a value and makes
so many steps.  With these two what a loop over limbs or characters computes is proved
for every length.

**`GcProofs`**, for every set of nodes and every bound,
from `NodesAssumption` (objects, headers and strings are different things),
`BoundsAssumption` and `BudgetAssumption`.

- `TypeCorrect`: `Spec => []TypeOK`.
- `Invariant`: `Spec => []IInv`, the inductive invariant.  No property above is
  inductive as it stands: that nothing reachable is freed depends on no
  reachable node being dead, which the sweep needs and `atomic()` establishes,
  and which it can establish only because marking keeps the tri-colour
  invariant.  `IInv` is `TypeOK` with three parts: `HeapInv` (what the client
  holds is live, and live nodes refer to live nodes), `MarkInv` (while marking no
  object or header is dead, black refers to no white, the grey lists are exact)
  and `SweepInv` (what the cursors have passed is white).  `LiveClosed` replaces
  reachability, which is awkward in an induction: the live set is closed and
  contains the roots, hence (`ReachableLeast`) contains all that is accessible.
- `NothingLiveIsFreed`, `NothingLiveIsDead`, `MarkingSound`, `SweepingSound`: the
  run's invariants, and two that no run needs any more (`GreyListsExact`,
  `WhiteInPause`).
- `FullCollectIsExact`: from a second invariant, which says that in the second
  loop of a full collection only what is accessible is marked.
- `FullCollectIsExactForStrings`: the same of strings, when there are finitely many
  and no more than one sweep gets to.  It needs in addition that the strings are all
  white from the end of their sweep to the next marking (`StringInv`), which is what
  a sweep that stops at its limit breaks.
- `CyclesAreComplete`: `MCSpec => CycleComplete`, about `Gc` with the history variable
  `doomed` of `MCGc`.  `DoomedInv`: what was garbage when the cycle began is out of the
  client's reach, since nothing else in the heap refers to it; it is white while marking
  goes on, which never gets to it; from `atomic()` on it is dead and ahead of the sweep,
  whatever is allocated, stored or darkened meanwhile; and between two cycles there is
  none.
- `Refinement`: every step of `Gc` is a step of `GcHeap` or changes nothing there.

The same module goes on with the records of **`StoreRecords`**, for every number of
records, from `RecordsAssumption` (`Nil` is no object, and the mark of an id that is not
there is neither).  `smrec_set` has
no barrier, so that it is no step of `Gc`'s client and its invariant cannot be
taken over.  What saves it is that this client runs full collections only
(`FullSpec`): between its calls the collector is at rest (`AtRest`: nothing is
marked or swept, all nodes are white), and then a store without a barrier does no
harm.  `RInv` is `IInv` with `Quiet` (the collector is in a call or at rest) and
`StoreInv` (a clean record is as its slot, and the three facts about updates and
pointers).

- `NoUpdateIsLost`, `PointersAreRids`, `NoRecordInUseIsFreed`.

**`SpmanProofs`**, for slots, pages, chunks and caches of any size and any number
of pages, from `ConstantsAssumption`.  `SInv` has three parts: `Counts` (the header
never counts more pages than the store, nor the store more than the file has),
`OnlyLastPageHasSlots`, and `LookedFull`, which the second needs (the pages before
`anum`, and before the one that `spman_add` looks at, are full).

- `RecordsKeepTheirPlace`, `NoRoomIsLost`.

It has the proof of the layout of the pages, too, on the same assumption.  `spmap_alloc` puts a slot behind
the last one that the index of the *mapped* page knows, so that slots are disjoint
only as long as the map is true, and a map is true after a growth only if the page
was sound.  `LInv` is both together; what the index does not know (`store_index`)
is never the beginning of the slots, which is all that the argument needs.

The places of the pages in the file are sums over the pages before them.
`SumFunction` is a fold with no value that can be read off its definition;
`SumNat` shows that it adds up natural numbers to one, for any finite domain, and
`TypeOK` follows from this, `Counts` and `MapSound`.

- `SlotsAreDisjoint`, `MapsAreTrue`, `SpmanTyped`.

**`StoreUnpackProofs`**, for all classes, records, references among them, depths
and caches of at least one page, from `UnpackAssumption`.  `UInv` says of each call that it holds
its slot while it reads, of each slot held that its page is mapped, and of each map
that its count is one more than the calls that pin it.  The last is a cardinality
over the stack, and the lemmas `PinnedPush` and `PinnedPop` say how it changes.

- `PinsAlwaysHold`.

Two more parts of the same invariant come on top.  `IdsInv`: a class is read by one call at most and is not unpacked
meanwhile, which the early registration in `sclass_init` ensures; from this
`IdsTrue` follows at once.  `OrderInv` is about the order of the chain.  That a
record is saved before what it refers to is freed holds because three things do:
a field refers to what was unpacked before its record, unless the client set it to
something newer (`FieldsGoBack`); what a collection keeps does not refer to what it
takes (`KeptKeeps`); and a call that goes on past the eager field has what the field
refers to, or waits just below the call for it (`FieldThere`).  The sweep takes the
newest first, and so never takes the target of a field that is still to be written.

That nested calls end is a counting argument (`CallsInv`, `DeepLoops`).  Each call is
for what the one below it needs (`CallsNeed`), so that an id that is called for twice
gives a loop among the needs.  The fields of a class count only once the class has
registered itself (`Leap`), and then it is not called for again: the calls that lead
on by a field are for different classes, and between two of them the ids must be
different or there is a loop without fields.  Hence more than
`Cardinality(Ids) * (Cardinality(Classes) + 1)` calls are a loop without fields; the
theorem assumes of the bound `MaxDepth` that it is no less (`Deep`), as it is in the run,
since a smaller one would call a finite recursion endless.

- `IdsAreTrue`, `RecordsAreSaved`, `UnpackingEnds`.

**`TrieProofs`**, for all words, data, lengths of `str`, sizes of a bank and
numbers of nodes, from `TrieAssumption`.  `TrieInv` says that the nodes in use are a
tree that holds exactly `kv` (`Tree`), and that the nodes not in use are on the free
list, each once (`Accounts`).  `Tree` needs witnesses that the code does not keep: for
each node the word before its character (`at`), the one node that links to it
(`from`), and a `rank` that goes down along every link, which is also what the
recursive functions `FindFrom`, `DecideFrom` and `PathFrom` are unfolded by.  `Shape`
has the rest: siblings ascend, the children of a node go on where its piece ends,
nodes not in use are cleared.  The argument:

- the walks: `FindsHeld` (`trie_find` finds what the tree holds), `DecideRight`
  (what `_trie_insert_decide` finds is a place where the word fits, a node that ends it,
  or a node whose piece agrees with it for `n` characters), `PathRight`;
- the changes: a chain of new nodes is hung up where it fits (`HoldsHung`), a node is
  split in two (`Split0Keeps`, `SplitChildKeeps`, `SplitNextKeeps`), data comes or goes
  (`HoldsUnset`), a twig is taken out (`HoldsRemoved`): each leaves a tree that holds one
  word more or less, with new witnesses made from the old ones;
- the nodes: those taken are fresh and those given back were not free
  (`TakenAccounts`, `GivenBack`), also when an insertion gives up half way;
- `InsertStep`, `InsertFailsStep`, `DeleteStep` put these together.

- the iterator: it goes up as well as down, so that no rank falls along its steps.  What
  falls, by one each step, is the number of nodes still `Ahead` of a stride: those behind
  the links to siblings of the stride's nodes and below its last node.  With it `Iterate`
  unfolds (`IterateUnfolds`).  What is still to be listed (`Coming`) are the words
  below the last node and those behind the siblings, all of them after where the
  iterator is; a step lists the word at which it stands, if any, and leaves the rest
  (`ListsMore`).

- `TrieKeepsInv`, and from it `TrieTyped`, `TrieFinds`, `TrieAccounts`, `TrieLeads`,
  `TrieIterates`;
  `InsertNeverLost`: `TRIE_INSERT_FAILURE`, with which `_trie_insert_decide` begins, is
  never its answer.

**`PathmanProofs`**, for all names, banks and bounds, from `PathmanAssumption` (names are
words that are not empty and have no slash; the path of the root is one of the paths, and
an entry is data of the trie).  `PathmanInv` has three parts.

- The trie holds exactly `kv`, and each directory's `state.top` is a node with data whose
  word is its path (`TopsAre`), both by the same witnesses of `Shape`.  The steps of the
  trie keep the second (`Keeps`, `Grown` in `TrieProofs`): a node that held data is
  neither moved nor cut by an insertion, which splits only nodes with a piece, and a node
  with data has none.  `TopsGrow` takes the directories along.
- The path of a directory ends with a slash (`PathsAre`).  It is `u \o "/"`, and the word
  put in from its node is `"/" \o v`, with the slash at which that node stands.  A path that
  is given to `pathman_add_dir` is known to end so because every entry of a directory in
  the trie does (`DirKeys`).  What the
  code decides for that word from that node is, `Len(u)` characters later, what a walk along
  the whole path `u \o "/" \o v` decides that has come to the node (`DecideBehind`,
  `DecideAtRight`), so that the whole path is put in (`PutBehind`, `PutBelow`).
- Of a bank only the first node is ever on the free list, and when it is, it is not in use
  (`BankIs`), because every index leads to the first node (`FirstOfBank`).  It is what lets
  `pathman_remdir` find something to give back when the trie has no memory.

- `PathmanKeepsInv`, and from it `PathmanTyped`, `PathmanFinds`, `PathmanTopsStay`.

**`NumberProofs`**, for limbs of every width that is a multiple of 4, chunks of as many
decimal digits as fit a limb, texts and numbers of any length and any number of calls,
from `BaseAssumption`, `WidthAssumption`, `ChunkAssumption` and `ClientAssumption`.

`ReadsRight`, `InBounds` and `ResultsExact` are about `out`, the last call, and say nothing of the operands it had: a sum is exact only if the operands count their limbs
and have no zero at the top, since number.c looks at the top limb to tell which is the
larger.  The inductive invariant `NumbersOK` therefore says that both numbers are in order
(`NumOK`), and that `out` is what the operator of its call gives for operands that were
(`LastCall`).  That a call leaves numbers in order is in what is proved of each:

- limbs: a round of a loop over limbs is exact (`AddLimbExact`, `SubLimbExact`,
  `MulLimbExact`), hence the loop is (`LoopExact`), hence `AddLimbsSum`, `SubLimbsExact`
  (with the last borrow, that nobody asks for) and `MulLimbsExact`.
- `AddExact`, `SubExact`: `LongerIsLarger` says when the longer operand, or the one with
  the larger top limb, is the larger one; where it is not the dropped borrow is what the
  result is off by.  `ShlExact`, `ShrExact`: a distance is taken apart into limbs and bits.
- reading: after any number of characters the scanner has `Understood` what is read so far
  (`TextUnderstood`), as `Meaning` puts it: a sign only, a 0 in front, zeros, or digits that
  count.  Digits that are put together keep their value, also where one is split between
  two limbs (`PackedIs`, `FromDecIs`).  `LimbsForBits` and `DecimalRoom` say that the
  limbs counted are enough: for decimal digits the bits may be a few short, which what
  `number_new` allocates beyond its count makes up for.  `SetStrExact` and `SetIntoExact`
  put these together.
- writing: the digits of the text are worth the magnitude (`HexDigits`, `DecDigitsAre`:
  each division by a chunk leaves a smaller number, or fewer limbs), they are as many as there is room
  for, and a number in order is told by its value (`NumberTold`), so that what is read back
  is the number (`HexReadBack`, `DecReadBack`).

The theorems are `NumbersInOrder`, and from it `NumberTyped`, `TextsReadRight`,
`CallsInBounds`, `CallsExact` and `TextsRoundTrip`.  The bound `MaxBits` in two of the
properties keeps TLC's integers small; the proofs do not use it.  TLC has checked `NumbersOK` on the run before it was proved.

**`SxProofs`**, for all texts, cut into calls of any lengths, any number of failing
allocations and any units of buffer and stack, from `AgUnitAssumption`, `ClientAssumption`
and `StackMinAssumption`.

None of the three invariants is inductive.  That the list below is the last item of the
one above it says nothing of where links lead, and `LastItem` follows links: it is a value
only if they do not go round.  What makes them go forward is that an item is linked only to
items that are allocated later (`Sound`: every link is nil, or leads to an item that is
there and newer).  `gc_new` gives an address that none has (`FreshAbove`), so the order of
addresses is the order of time.  On such a heap `LastItem` unfolds (`LastItemIs`), and one
can induct from the last item to the first (`ByNext`).  The argument:

- `ajoin` changes one link: behind the last item (`JoinNext`), in an empty list
  (`JoinLst`), or the root (`JoinRoot`).  Where it is a link of the innermost list, it must
  not be one on the way to the lists outside.  It is not, because the last item
  of the innermost list is newer than all the lists that are open (`CueAbove`), and
  these are what is last in theirs.
- `Holds` puts together what is held: the heap is sound, strings are interned, the
  lists on the stack are `Nested`, and `cue` is where the next item goes unless the parser
  is in error.  `ListStart` joins before it pushes and may fail in between: then the new
  list is the last item, `cue` is not, `gc_stack_size` may count one element too many, and
  only `SXBS_ERROR`, which the parser does not leave, keeps it from going on with that
  (`ListStarts`): a parser that is not in error has a stack whose pointer is in its vector;
  `ListEnds`, `AtomMade`.
- The buffers: `ag_append` makes room for no more than its unit or twice what it had, which
  is enough because no more than four bytes come at once (`Few`, `EncodedFew`: of
  `utf8_encode`, `EscapeFew`), and the decoder has as many bytes as there are still to come
  at most (`Decodes`, `NextStateIn`, by its table).  A failure that is ignored loses bytes
  and nothing else (`Appends`).
- A character may end an atom and is then taken in by a state that can do so
  (`EndsBefore`, `TakesCharacter`); a byte may end the call (`Bytes`).  `CallOK` says what is so at
  every point of a call; after a malformed sequence the call has to stop (`Ends`), as no
  state of the decoder leads on.  `ParsedKeeps` is the whole call, an iteration over its
  bytes (`IterationIs`).
- Between two calls `Inv`: outside of lists nothing is held (`Delivered`), which is
  why a collection while the parser is idle may free everything.  At any other time the
  links behind items go to what is freed, and of the invariant only `Reading` is left: the
  stack is what the collector starts from, and the first items are what it follows.

- `SxInvariant`, and from it `SxTyped`, `ListsNest`, `HeldIsThere`.

Model-checked only:

- `GarbageFreed`: liveness under fairness, which this prover does not do.
- `ReadsTheText` and `RoundTrip` of `SxText` compare the items with `Items`, which is
  recursive over nested texts: what it computes for every text is induction over data.

## Where the code and its own statements differ

1. `gc_collect(g, 1)` asserts `g->state == GC_STATE_PAUSE` (gc.c:426).  An
   incremental call whose budget runs out just at the step into `GC_STATE_ATOMIC` stops
   there; then neither the reset nor the sweeping loop applies and the assertion fails
   (`gc_full_assert`).  With six rooted objects of the tests, none of which refers to
   another, the costs are 1 + 6 * 3 + 1 = 20.
2. The page layout in store.h pads a slot to an even size, and `spmap_alloc`
   does; `spmap_gen_index` steps over the unpadded size (`store_index`).  It
   bites when the page is mapped again or grows.
3. `store_get_object` returns what `i2r` holds, dead or not, where `gc_new_str`
   revives a dead string; `gc_barrier_oh` then fails its assertion
   (`store_dead_record`).

Other things that look wrong are no disagreement with a statement of the code; the
models have them as they are, and the hazards in `PROJECT.json` name them.

## What is not modelled

- The bytes a collector counts, its log, and a `realloc` of its vectors that
  fails (`gc_vector_append` then writes past the end: not defined).  `gc_stack_set`.
- In the store: `store_add_class` (`StoreUnpack` has the classes in the file from
  the start), the conversion of fields of the other kinds, fields of kind
  `SKIND_CLASS`.  `store_add_object` takes two arguments where a field of kind
  `SKIND_OBJECT` is given one that is not nil (store.c:1276), so the models let such
  fields begin as nil and set them with `smrec_set`.  The use counts of pages and `inuse` are left open, so that any page
  that is not pinned may be dropped: the counts decide only which.
- `trie`: an iterator over a trie that changes, its failing `realloc`, printing.
- `pathman`: printing, modes, malformed paths.
- `number`: digits in upper case, a failing `malloc`.  `number_mul` is declared in
  the header and defined nowhere.
- `sx`: line numbers, and failures while `sx_dump` writes.
- `err`: two lists for each thread, which nothing else depends on but for the
  message; an error is the outcome it leads to.  The hash in `common`: all that is
  needed of it is that it is a function.
- `blobtree`, `sr`, `lua`, `field.h` and the C++ port: not built.

## Plan

Done: the collector with its abstract heap and proofs; the page manager, the
records and the unpacking with proofs; the trie and the path manager with proofs; numbers,
s-expressions and what they use, with proofs.

Left: `store_add_class` as an action of `StoreUnpack`: a class that is made while
others are unpacked.

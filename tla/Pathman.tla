------------------------------ MODULE Pathman ------------------------------
(***************************************************************************)
(* The path manager of src/src/trie/pathman.c: a trie of paths, whose data *)
(* refer by an index to nodes for directories and files in banks of their  *)
(* own.  A directory keeps the node of the trie at which its path ends     *)
(* (state.top), and a file is put in from there.                           *)
(*                                                                         *)
(* A node of a bank is known by its position, 1 for the first of the first *)
(* bank; the index which the code gives it is something else.  What comes  *)
(* of realloc and malloc is modelled for the banks of the trie; a bank of  *)
(* directories or files that cannot be had changes nothing.                *)
(***************************************************************************)
EXTENDS Trie

CONSTANTS
  Slash,     \* the character '/'
  Names,     \* names of directories and files, without it
  DirBank,   \* PDIR_BANKSIZE
  FileBank,  \* PFILE_BANKSIZE
  MaxDirs,   \* bound: directories taken from the banks
  MaxFiles   \* bound: files taken from the banks

\* union paccess, the data of a path in the trie.
Entry(isdir, i) == [isdir |-> isdir, index |-> i]
Entries == {Entry(TRUE, i) : i \in 1 .. DirBank} \cup {Entry(FALSE, i) : i \in 1 .. FileBank}

ASSUME PathmanAssumption ==
  /\ Slash \in Nat /\ <<Slash>> \in Words
  /\ Names \subseteq Seq(Nat \ {Slash}) \ {<<>>}
  /\ {DirBank, FileBank, MaxDirs, MaxFiles} \subseteq Nat \ {0}
  /\ Entries \subseteq Data

VARIABLES
  dir,    \* by position: isused, state.top, next, child, file
  dtop,   \* directories ever taken from the banks
  dfree,  \* pman->dfreelist
  file,   \* by position: isused, next
  ftop,   \* files ever taken from the banks
  ffree,  \* pman->ffreelist
  path    \* by position: the path for which a directory was last handed out

trieVars == <<node, used, root, free, top>>
dirVars  == <<dir, dtop, dfree>>
fileVars == <<file, ftop, ffree>>
pvars    == <<trieVars, kv, dirVars, fileVars, path>>

None      == 0
NoPath    == <<>>
BlankDir  == [isused |-> FALSE, top |-> NoNode, next |-> None, child |-> None, file |-> None]
BlankFile == [isused |-> FALSE, next |-> None]

\* "/" in the trie, and its directory, which has no state.top.
RootOnly ==
  [x \in Index |->
     IF x = 1 THEN [c |-> Slash, str |-> <<>>, data |-> Entry(TRUE, 1),
                    next |-> NoNode, child |-> NoNode]
              ELSE Cleared]
RootDir == [p \in 1 .. MaxDirs |-> [BlankDir EXCEPT !.isused = (p = 1)]]

\* pathman_init.
PInit ==
  /\ node = RootOnly
  /\ used = {1} /\ root = 1 /\ free = <<>> /\ top = 1
  /\ kv = [w \in {<<Slash>>} |-> Entry(TRUE, 1)]
  /\ dir = RootDir
  /\ dtop = 1 /\ dfree = None
  /\ file = [p \in 1 .. MaxFiles |-> BlankFile]
  /\ ftop = 0 /\ ffree = None
  /\ path = [p \in 1 .. MaxDirs |-> IF p = 1 THEN <<Slash>> ELSE NoPath]

-----------------------------------------------------------------------------
(* Nodes of directories and files, in banks of size b.                     *)

\* PDIR_NODEMASK and PFILE_NODEMASK keep the high bits of an index, where there
\* is nothing, so that an index leads to the first node of its bank: every path of a
\* file gives the first file (an assertion that would see it is switched off in
\* pathman-tests.c:183).
Position(i, b) == ((i - 1) \div b) * b + 1

\* pdir_get, pfile_get.
NodeAt(nodes, i, b) == IF nodes[Position(i, b)].isused THEN Position(i, b) ELSE None

\* pathman_mkdir, pathman_mkfile: the node p taken, its index (which says nothing
\* of the bank), and the free list and the count of nodes afterwards.
Made(nodes, freed, taken, b) ==
  IF freed # None /\ ~nodes[Position(freed, b)].isused
    THEN [p |-> Position(freed, b), index |-> freed,
          free |-> nodes[Position(freed, b)].next, top |-> taken]
    ELSE [p |-> taken + 1, index |-> (taken % b) + 1, free |-> freed, top |-> taken + 1]

MadeDir  == Made(dir, dfree, dtop, DirBank)
MadeFile == Made(file, ffree, ftop, FileBank)

\* Mutant of Released: isused is not reset.
ReleasedStaysUsed(nodes, mk, b) ==
  LET taken == [nodes EXCEPT ![mk.p].isused = TRUE]
  IN  [taken EXCEPT ![NodeAt(taken, mk.index, b)] = [@ EXCEPT !.next = mk.free]]

\* pathman_remdir, pathman_remfile of the node just made: what its index leads to
\* goes to the free list.
Released(nodes, mk, b) ==
  LET taken == [nodes EXCEPT ![mk.p].isused = TRUE]
  IN  [taken EXCEPT ![NodeAt(taken, mk.index, b)] =
                      [@ EXCEPT !.next = mk.free, !.isused = FALSE]]

-----------------------------------------------------------------------------
(* pathman_add_dir and pathman_add_file.                                   *)

\* Mutant of DirWord: no slash is put at the end.
DirWordBare(name) == <<Slash>> \o name

\* What is put in from the node that ends the path above.
DirWord(name) == <<Slash>> \o name \o <<Slash>>
FileWord(name) == <<Slash>> \o name

DecideAt(x, w) == DecideFrom[ForkAt(w, x)]

\* Mutant of EndNode: the first node of the stride.
EndNodeFirst(w, e) ==
  LET ns == Taken(StrideLength(w, e))
  IN  CASE e.act \in {"SET", "SPLIT_0_SET"} -> e.x
        [] OTHER                            -> ns[1]

\* The node that gets the data, which the functions that put a word in return.
EndNode(w, e) ==
  LET ns == Taken(StrideLength(w, e))
  IN  CASE e.act \in {"SET", "SPLIT_0_SET"} -> e.x
        [] e.act = "SPLIT_N_CHILD"          -> ns[1]
        [] OTHER                            -> Last(ns)

\* above is the path up to the last name, with its slash, as far as the trie has it; a
\* slash after that name makes no difference. The node of the directory above may have
\* been given back: the new one is then linked to no parent.
CanAddDir(above, name) ==
  LET x == FindNode(above) IN
  /\ x # NoNode
  /\ node[x].data.isdir
  /\ ~Refused(DecideAt(x, DirWord(name)), FALSE)
  /\ MadeDir.top <= MaxDirs
  /\ above \o name \o <<Slash>> \in Words

AddDir(above, name) ==
  /\ CanAddDir(above, name)
  /\ LET x      == FindNode(above)
         w      == DirWord(name)
         e      == DecideAt(x, w)
         mk     == MadeDir
         parent == NodeAt(dir, node[x].data.index, DirBank)
         new    == [dir[mk.p] EXCEPT !.isused = TRUE, !.top = EndNode(w, e)]
         full   == above \o name \o <<Slash>>
     IN
     /\ Put(w, Entry(TRUE, mk.index), e)
     /\ dir' = IF parent = None THEN [dir EXCEPT ![mk.p] = new]
               ELSE [dir EXCEPT ![mk.p] = [new EXCEPT !.next = dir[parent].child],
                                ![parent].child = mk.index]
     /\ dtop' = mk.top
     /\ dfree' = mk.free
     /\ kv' = [v \in DOMAIN kv \cup {full} |-> IF v = full THEN Entry(TRUE, mk.index) ELSE kv[v]]
     /\ path' = [path EXCEPT ![mk.p] = full]
  /\ UNCHANGED fileVars

\* _trie_stride_alloc fails.
AddDirFails(above, name) ==
  /\ CanAddDir(above, name)
  /\ StrideFails(DirWord(name), DecideAt(FindNode(above), DirWord(name)))
  /\ dir' = Released(dir, MadeDir, DirBank)
  /\ dtop' = MadeDir.top
  /\ dfree' = MadeDir.index
  /\ UNCHANGED <<kv, fileVars, path>>

CanAddFile(p, name) ==
  /\ ~Refused(DecideAt(dir[p].top, FileWord(name)), FALSE)
  /\ MadeFile.top <= MaxFiles
  /\ path[p] \o name \in Words

AddFile(p, name) ==
  /\ CanAddFile(p, name)
  /\ LET w    == FileWord(name)
         mk   == MadeFile
         full == path[p] \o name
     IN
     /\ Put(w, Entry(FALSE, mk.index), DecideAt(dir[p].top, w))
     /\ file' = [file EXCEPT ![mk.p] = [isused |-> TRUE, next |-> dir[p].file]]
     /\ dir' = [dir EXCEPT ![p].file = mk.index]
     /\ ftop' = mk.top
     /\ ffree' = mk.free
     /\ kv' = [v \in DOMAIN kv \cup {full} |-> IF v = full THEN Entry(FALSE, mk.index) ELSE kv[v]]
  /\ UNCHANGED <<dtop, dfree, path>>

AddFileFails(p, name) ==
  /\ CanAddFile(p, name)
  /\ StrideFails(FileWord(name), DecideAt(dir[p].top, FileWord(name)))
  /\ file' = Released(file, MadeFile, FileBank)
  /\ ftop' = MadeFile.top
  /\ ffree' = MadeFile.index
  /\ UNCHANGED <<kv, dirVars, path>>

\* The directories that a client can have: of pathman_add_dir, or of
\* pathman_get_dir, which knows only the first of a bank.
Held == {p \in 1 .. dtop : path[p] # NoPath}

\* pathman_clear, and pathman_init makes it usable again.
PClear ==
  /\ node' = RootOnly
  /\ used' = {1} /\ root' = 1 /\ free' = <<>> /\ top' = 1
  /\ kv' = [w \in {<<Slash>>} |-> Entry(TRUE, 1)]
  /\ dir' = RootDir
  /\ dtop' = 1 /\ dfree' = None
  /\ file' = [p \in 1 .. MaxFiles |-> BlankFile]
  /\ ftop' = 0 /\ ffree' = None
  /\ path' = [p \in 1 .. MaxDirs |-> IF p = 1 THEN <<Slash>> ELSE NoPath]

PNext ==
  \/ PClear
  \/ \E above \in DOMAIN kv, name \in Names : AddDir(above, name)
  \/ \E above \in DOMAIN kv, name \in Names : AddDirFails(above, name)
  \/ \E p \in Held, name \in Names : AddFile(p, name)
  \/ \E p \in Held, name \in Names : AddFileFails(p, name)

PSpec == PInit /\ [][PNext]_pvars

-----------------------------------------------------------------------------
(* Properties.                                                             *)

\* Types; the node to which the indexes lead is free exactly while the free list
\* is not empty, so that pathman_remdir and pathman_remfile find one to free.
PTypeOK ==
  /\ TypeOK
  /\ dir \in [1 .. MaxDirs -> [isused : BOOLEAN, top : Link, next : 0 .. DirBank,
                               child : 0 .. DirBank, file : 0 .. FileBank]]
  /\ file \in [1 .. MaxFiles -> [isused : BOOLEAN, next : 0 .. FileBank]]
  /\ dtop \in 1 .. MaxDirs /\ ftop \in 0 .. MaxFiles
  /\ path \in [1 .. MaxDirs -> Words \cup {NoPath}]
  /\ dir[1].isused <=> dfree = None
  /\ ftop > 0 => (file[1].isused <=> ffree = None)

\* Where the path of a directory ends stays where it is, however the nodes before
\* and after it are split, so that files are put in at the right place
\* (pathman_add_file, which uses state.top and not the path).
TopsStay ==
  \A p \in Held : dir[p].top # NoNode => dir[p].top = FindNode(path[p])

=============================================================================

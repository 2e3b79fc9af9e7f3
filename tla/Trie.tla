-------------------------------- MODULE Trie --------------------------------
(***************************************************************************)
(* The compressed trie of src/src/trie/trie.c and trie-private.h, in which *)
(* the store and the path manager look up their ids and names.             *)
(*                                                                         *)
(* A node is an index into the banks; 0 is no node.  Siblings are chained  *)
(* by next in ascending order of their character.  A node that holds no    *)
(* data may hold a piece of the word after its character (str), which      *)
(* shares its place with the data.  An operation is one step, since no     *)
(* caller sees it half done; malloc may fail whenever a bank is full.      *)
(***************************************************************************)
EXTENDS Naturals, SequencesExt

CONSTANTS
  Words,     \* the words inserted and deleted: non-empty sequences of numbers
  Data,      \* the data that goes with a word
  StrMax,    \* the length of tnode_t.str (8)
  BankSize,  \* 1 << nodebits
  MaxNodes,  \* bound: nodes taken from the banks
  NoData

ASSUME TrieAssumption ==
  /\ Words \subseteq Seq(Nat) \ {<<>>}
  /\ {StrMax, BankSize, MaxNodes} \subseteq Nat \ {0}
  /\ NoData \notin Data

VARIABLES
  node,  \* the nodes of all banks
  used,  \* the nodes with isused
  root,  \* trie->root
  free,  \* trie->freelist, from its head
  top,   \* nodes ever taken from the banks
  kv     \* the word-data pairs that the trie is to hold

vars == <<node, used, root, free, top, kv>>

Index   == 1 .. MaxNodes
NoNode  == 0
Link    == Index \cup {NoNode}
Pos     == Nat \ {0}
Cleared == [c |-> 0, str |-> <<>>, data |-> NoData, next |-> NoNode, child |-> NoNode]

Init ==
  /\ node = [x \in Index |-> Cleared]
  /\ used = {}
  /\ root = NoNode
  /\ free = <<>>
  /\ top = 0
  /\ kv = [w \in {} |-> NoData]

\* tnode_get: a node that is not in use is as good as none.
Get(x) == IF x \in used THEN x ELSE NoNode

HasData(x) == node[x].data # NoData

\* The piece of the word in x after its character; data has taken its place.
Piece(x) == IF HasData(x) THEN <<>> ELSE node[x].str

Rest(w, i) == SubSeq(w, i, Len(w))

-----------------------------------------------------------------------------
(* trie_find.                                                              *)

\* Where a walk along w is: at node x, with w[i] the character to look for.
Place == [w : Seq(Nat), x : Link, i : Pos]

\* The walk goes down: w goes on behind the piece in x.
Down(at) ==
  /\ at.i < Len(at.w)
  /\ IsPrefix(Piece(at.x), Rest(at.w, at.i + 1))
  /\ at.i + Len(Piece(at.x)) < Len(at.w)

\* trie_find_i: the node that holds the data of w.
FindFrom[at \in Place] ==
  IF at.x = NoNode THEN NoNode
  ELSE IF at.w[at.i] # node[at.x].c
    THEN FindFrom[[at EXCEPT !.x = Get(node[at.x].next)]]
  ELSE IF at.i = Len(at.w) /\ HasData(at.x) THEN at.x
  ELSE IF Down(at)
    THEN FindFrom[[at EXCEPT !.x = Get(node[at.x].child),
                             !.i = @ + 1 + Len(Piece(at.x))]]
  ELSE NoNode

FindNode(w) == FindFrom[[w |-> w, x |-> Get(root), i |-> 1]]
Find(w)     == IF FindNode(w) = NoNode THEN NoData ELSE node[FindNode(w)].data

-----------------------------------------------------------------------------
(* trie_insert: _trie_insert_decide finds what to do, and where.           *)

\* How much of s and t agrees.
Common(s, t) == Cardinality({j \in DOMAIN s \cap DOMAIN t : IsPrefix(SubSeq(s, 1, j), t)})

Decided(act, x, prev, parent, i, n) ==
  [act |-> act, x |-> x, prev |-> prev, parent |-> parent, i |-> i, n |-> n]

\* A place, with the sibling before it and the node above.
Fork == {at \in [w : Seq(Nat), x : Link, prev : Link, parent : Link, i : Pos] :
           at.i <= Len(at.w)}

\* How much of the piece in x is what w goes on with.
Agreeing(at) == Common(Piece(at.x), Rest(at.w, at.i + 1))

\* What is decided at this place, and the places after it.
Here(at, act, j) == Decided(act, at.x, at.prev, at.parent, j, Agreeing(at))
Beside(at)       == [at EXCEPT !.x = Get(node[at.x].next), !.prev = at.x]
Below(at)        == [w |-> at.w, x |-> Get(node[at.x].child), prev |-> NoNode,
                     parent |-> at.x, i |-> at.i + Agreeing(at) + 1]

DecideFrom[at \in Fork] ==
  IF at.x = NoNode THEN Decided("FAILURE", at.x, at.prev, at.parent, at.i, 0)
  ELSE IF at.w[at.i] < node[at.x].c
    THEN Here(at, IF at.prev # NoNode THEN "PREV" ELSE "PARENT", at.i)
  ELSE IF at.w[at.i] > node[at.x].c
    THEN IF node[at.x].next # NoNode THEN DecideFrom[Beside(at)]
         ELSE Decided("PREV", at.x, at.x, at.parent, at.i, 0)
  ELSE IF at.i = Len(at.w)
    THEN Here(at, IF node[at.x].str # <<>> THEN "SPLIT_0_SET" ELSE "SET", at.i)
  ELSE IF at.i + Agreeing(at) = Len(at.w)
    THEN Here(at, "SPLIT_N_CHILD", at.i + Agreeing(at))
  ELSE IF Agreeing(at) < Len(Piece(at.x))
    THEN Here(at, "SPLIT_N_NEXT", at.i + Agreeing(at) + 1)
  ELSE IF Get(node[at.x].child) # NoNode THEN DecideFrom[Below(at)]
  ELSE Here(at, "CHILD", at.i + Agreeing(at) + 1)

\* At the first of the siblings from x on.
ForkAt(w, x) == [w |-> w, x |-> x, prev |-> NoNode, parent |-> NoNode, i |-> 1]

Decide(w) == IF root = NoNode THEN Decided("ROOT", NoNode, NoNode, NoNode, 1, 0)
                              ELSE DecideFrom[ForkAt(w, Get(root))]

\* How many characters of the rest of a word go into one node: as many as str has
\* room for after the first, but the last is left to a node that can hold the data.
Fitting(s) == IF StrMax + 1 < Len(s) THEN StrMax + 1 ELSE Len(s) - 1

\* The nodes for the rest of a word.
Pieces[s \in Seq(Nat)] ==
  IF Len(s) <= 1
    THEN [j \in DOMAIN s |-> [Cleared EXCEPT !.c = s[j]]]
    ELSE <<[Cleared EXCEPT !.c = s[1], !.str = SubSeq(s, 2, Fitting(s))]>>
           \o Pieces[Rest(s, Fitting(s) + 1)]

\* trie_calc_stride_length.
StrideLength(w, e) ==
  CASE e.act = "SPLIT_N_CHILD" -> IF e.n < Len(node[e.x].str) THEN 2 ELSE 1
    [] e.act = "SPLIT_0_SET"   -> 1
    [] e.act = "SPLIT_N_NEXT"  -> Len(Pieces[Rest(w, e.i)]) + 1
    [] e.act = "SET"           -> 0
    [] OTHER                   -> Len(Pieces[Rest(w, e.i)])

\* trie_mknode, k times: the nodes taken, first from the free list.
FromFree(k) == IF k < Len(free) THEN k ELSE Len(free)
Taken(k)    == [j \in 1 .. k |-> IF j <= Len(free) THEN free[j] ELSE top + j - Len(free)]
FreeLeft(k) == Rest(free, FromFree(k) + 1)
TopAfter(k) == top + k - FromFree(k)

\* Taking a node needs memory for a new bank.
NeedsBank(at) == at > 0 /\ at % BankSize = 0

\* The stride as a chain of nodes; the last one gets the data.
Chained(pieces, ns, d) ==
  [x \in Range(ns) |->
     LET j == CHOOSE k \in DOMAIN ns : ns[k] = x IN
     IF j = Len(ns) THEN [pieces[j] EXCEPT !.data = d]
                    ELSE [pieces[j] EXCEPT !.child = ns[j + 1]]]

\* nodes with those of chain put in.
With(nodes, chain) == [x \in Index |-> IF x \in DOMAIN chain THEN chain[x] ELSE nodes[x]]

\* Where the chain that starts with y is hung up: __trie_prev_append_child_append_tail
\* and __trie_parent_append_child_append_tail.
AfterPrev(nodes, prev, y) ==
  [nodes EXCEPT ![y].next = nodes[prev].next, ![prev].next = y]

\* Mutant of UnderParent: the new child comes second.
UnderParentSecond(nodes, parent, y) ==
  LET first == nodes[parent].child
  IN  [nodes EXCEPT ![y].next = nodes[first].next, ![first].next = y]

UnderParent(nodes, parent, y) ==
  [nodes EXCEPT ![y].next = nodes[parent].child, ![parent].child = y]

\* Mutant of SplitAt0: strlen is not reset.
SplitAt0KeepsPiece(x, y, d) ==
  LET lower == [Cleared EXCEPT !.c = node[x].str[1], !.str = Tail(node[x].str),
                               !.child = node[x].child]
  IN  [node EXCEPT ![y] = lower, ![x] = [@ EXCEPT !.child = y, !.data = d]]

\* __trie_split_0_set: the piece in x moves to y below.
SplitAt0(x, y, d) ==
  LET lower == [Cleared EXCEPT !.c = node[x].str[1], !.str = Tail(node[x].str),
                               !.child = node[x].child]
  IN  [node EXCEPT ![y] = lower, ![x] = [@ EXCEPT !.child = y, !.str = <<>>, !.data = d]]

\* __trie_split_n_child: the word ends with the n-th character of the piece in x.
SplitAtChild(x, n, ns, d) ==
  LET old   == node[x]
      whole == n = Len(old.str)
      dend  == [Cleared EXCEPT !.c = old.str[n], !.data = d,
                               !.child = IF whole THEN old.child ELSE ns[2]]
      lower == [Cleared EXCEPT !.c = old.str[n + 1], !.str = Rest(old.str, n + 2),
                               !.child = old.child]
      ends  == [node EXCEPT ![x] = [old EXCEPT !.child = ns[1], !.str = SubSeq(@, 1, n - 1)],
                            ![ns[1]] = dend]
  IN  IF whole THEN ends ELSE [ends EXCEPT ![ns[2]] = lower]

\* __trie_split_n_next: tail branches off after n characters of the piece in x.
SplitAtNext(x, n, ns, tail) ==
  LET old   == node[x]
      lower == [Cleared EXCEPT !.c = old.str[n + 1], !.str = Rest(old.str, n + 2),
                               !.child = old.child]
      upper == [old EXCEPT !.child = ns[1], !.str = SubSeq(@, 1, n)]
      split == With([node EXCEPT ![x] = upper, ![ns[1]] = lower], tail)
  IN  IF tail[ns[2]].c < lower.c THEN UnderParent(split, x, ns[2])
                                 ELSE AfterPrev(split, ns[1], ns[2])

\* The nodes and the root after the insertion that e describes, with the stride ns.
Inserted(w, d, e, ns) ==
  LET x     == e.x
      tail  == With(node, Chained(Pieces[Rest(w, e.i)], ns, d))
      Nodes(nodes) == [node |-> nodes, root |-> root]
  IN
  CASE e.act = "ROOT"   -> [node |-> tail, root |-> ns[1]]
    [] e.act = "PREV"   -> Nodes(AfterPrev(tail, e.prev, ns[1]))
    [] e.act = "PARENT" -> IF e.parent # NoNode
                             THEN Nodes(UnderParent(tail, e.parent, ns[1]))
                             ELSE [node |-> [tail EXCEPT ![ns[1]].next = root], root |-> ns[1]]
    [] e.act = "CHILD"  -> Nodes([tail EXCEPT ![x].child = ns[1]])
    [] e.act = "SET"    -> Nodes([node EXCEPT ![x].data = d])
    [] e.act = "SPLIT_0_SET" -> Nodes(SplitAt0(x, ns[1], d))
    [] e.act = "SPLIT_N_CHILD" -> Nodes(SplitAtChild(x, e.n, ns, d))
    [] e.act = "SPLIT_N_NEXT"  ->
         Nodes(SplitAtNext(x, e.n, ns, Chained(Pieces[Rest(w, e.i)], Tail(ns), d)))

\* How many nodes are got when memory for a bank fails before the next.
OutOfMemory(w, e) ==
  {k \in 0 .. StrideLength(w, e) - 1 :
     k >= Len(free) /\ NeedsBank(TopAfter(k)) /\ TopAfter(k) <= MaxNodes}

\* The stride is taken and the word put in as e says.
Put(w, d, e) ==
  LET ns  == Taken(StrideLength(w, e))
      ins == Inserted(w, d, e, ns)
  IN
  /\ TopAfter(Len(ns)) <= MaxNodes
  /\ node' = ins.node
  /\ root' = ins.root
  /\ used' = used \cup Range(ns)
  /\ free' = FreeLeft(Len(ns))
  /\ top' = TopAfter(Len(ns))

\* Mutant of StrideFails: the nodes got so far are not given back.
StrideFailsLeaks(w, e) ==
  \E k \in OutOfMemory(w, e) :
    /\ free' = FreeLeft(k)
    /\ top' = TopAfter(k)
    /\ UNCHANGED <<node, used, root>>

\* _trie_stride_alloc gets k of the nodes it needs and then no memory for another
\* bank: it gives back what it has.
StrideFails(w, e) ==
  \E k \in OutOfMemory(w, e) :
    /\ free' = Reverse(Taken(k)) \o FreeLeft(k)
    /\ top' = TopAfter(k)
    /\ UNCHANGED <<node, used, root>>

\* The word is in already, or (which never happens) there is nowhere to go on.
Refused(e, rep) == e.act = "FAILURE" \/ (e.act = "SET" /\ HasData(e.x) /\ ~rep)

Insert(w, d, rep) ==
  /\ ~Refused(Decide(w), rep)
  /\ Put(w, d, Decide(w))
  /\ kv' = [v \in DOMAIN kv \cup {w} |-> IF v = w THEN d ELSE kv[v]]

InsertFails(w, rep) ==
  /\ ~Refused(Decide(w), rep)
  /\ StrideFails(w, Decide(w))
  /\ UNCHANGED kv

-----------------------------------------------------------------------------
(* trie_delete.                                                            *)

\* An entry of the stack of trie_delete.
Step == [x : Index, prev : Link]

\* A place, with the sibling before it and the entries so far.
Trail == [w : Seq(Nat), x : Link, i : Pos, prev : Link, above : Seq(Step)]

\* The entries with that for the place itself.
Entered(at) == Append(at.above, [x |-> at.x, prev |-> at.prev])

\* The nodes from the root to the one that ends w, each with the sibling before
\* it; the empty sequence if w is not there.
PathFrom[at \in Trail] ==
  IF at.x = NoNode THEN <<>>
  ELSE IF at.w[at.i] # node[at.x].c
    THEN PathFrom[[at EXCEPT !.x = Get(node[at.x].next), !.prev = at.x]]
  ELSE IF at.i = Len(at.w) THEN IF HasData(at.x) THEN Entered(at) ELSE <<>>
  ELSE IF Down(at)
    THEN PathFrom[[at EXCEPT !.x = Get(node[at.x].child),
                             !.i = @ + 1 + Len(Piece(at.x)),
                             !.prev = NoNode, !.above = Entered(at)]]
  ELSE <<>>

Path(w) == PathFrom[[w |-> w, x |-> Get(root), i |-> 1, prev |-> NoNode, above |-> <<>>]]

\* Mutants of PruneFrom: the sibling before is not looked at; one node is removed.
PruneFromNoPrev(path) ==
  LET Branches(j) == node[path[j].x].next # NoNode
      Stays(j)    == j < Len(path) /\ HasData(path[j].x)
      stops       == {j \in DOMAIN path : Branches(j) \/ Stays(j)}
      last        == Max(stops)
  IN  IF stops = {} THEN 1 ELSE IF Stays(last) THEN last + 1 ELSE last

PruneFromEnd(path) == Len(path)

\* Where on the path the nodes begin that only lead to its end.
PruneFrom(path) ==
  LET Branches(j) == node[path[j].x].next # NoNode \/ path[j].prev # NoNode
      Stays(j)    == j < Len(path) /\ HasData(path[j].x)
      stops       == {j \in DOMAIN path : Branches(j) \/ Stays(j)}
      last        == Max(stops)
  IN  IF stops = {} THEN 1 ELSE IF Stays(last) THEN last + 1 ELSE last

\* The nodes and the root without the chain that begins at path[j].
Unlinked(path, j) ==
  LET x    == path[j].x
      prev == path[j].prev
      next == node[x].next
  IN
  IF j > 1 /\ node[path[j - 1].x].child = x
    THEN [node |-> [node EXCEPT ![path[j - 1].x].child = next], root |-> root]
  ELSE IF root = x THEN [node |-> node, root |-> next]
  ELSE IF prev # NoNode THEN [node |-> [node EXCEPT ![prev].next = next], root |-> root]
  ELSE [node |-> node, root |-> root]

\* trie_remnode of these nodes; what is in a free node is wiped when it is taken.
Wiped(nodes, gone) == [x \in Index |-> IF x \in gone THEN Cleared ELSE nodes[x]]

\* A node with children only loses its data; otherwise the nodes that lead to no
\* other word go to the free list.
Delete(w) ==
  LET path == Path(w)
      x    == path[Len(path)].x
      j    == PruneFrom(path)
      gone == [k \in 1 .. Len(path) - j + 1 |-> path[j + k - 1].x]
  IN
  /\ path # <<>>
  /\ IF node[x].child # NoNode
       THEN /\ node' = [node EXCEPT ![x].data = NoData]
            /\ UNCHANGED <<used, root, free>>
       ELSE /\ node' = Wiped(Unlinked(path, j).node, Range(gone))
            /\ root' = Unlinked(path, j).root
            /\ used' = used \ Range(gone)
            /\ free' = Reverse(gone) \o free
  /\ kv' = [v \in DOMAIN kv \ {w} |-> kv[v]]
  /\ UNCHANGED top

\* trie_clear; trie_init makes the trie usable again.
Clear ==
  /\ node' = [x \in Index |-> Cleared]
  /\ used' = {}
  /\ root' = NoNode
  /\ free' = <<>>
  /\ top' = 0
  /\ kv' = [w \in {} |-> NoData]

Next ==
  \/ Clear
  \/ \E w \in Words, d \in Data, rep \in BOOLEAN : Insert(w, d, rep)
  \/ \E w \in Words, rep \in BOOLEAN : InsertFails(w, rep)
  \/ \E w \in Words : Delete(w)

Spec == Init /\ [][Next]_vars

-----------------------------------------------------------------------------
(* The iterator.                                                           *)

\* The word along a path of nodes.
WordOf(path) == FlattenSeq([j \in DOMAIN path |-> <<node[path[j]].c>> \o Piece(path[j])])

\* trie_iter_next, until it returns 0, with the nodes of the stride in path and
\* tuple being the last of them: the words and their data.
Iterate[path \in Seq(used) \ {<<>>}] ==
  LET x     == Last(path)
      here  == IF HasData(x) THEN <<[word |-> WordOf(path), data |-> node[x].data]>> ELSE <<>>
      child == Get(node[x].child)
      more  == {j \in DOMAIN path : node[path[j]].next # NoNode}
      up    == SubSeq(path, 1, Max(more) - 1)
  IN  here \o (IF child # NoNode THEN Iterate[Append(path, child)]
               ELSE IF more = {} THEN <<>>
               ELSE Iterate[Append(up, Get(node[path[Max(more)]].next))])

Iteration == IF root = NoNode THEN <<>> ELSE Iterate[<<root>>]

-----------------------------------------------------------------------------
(* Properties.                                                             *)

Node == [c : Nat, str : Seq(Nat), data : Data \cup {NoData},
         next : Link, child : Link]

\* Types; a node's data takes the place of the piece of a word.
TypeOK ==
  /\ node \in [Index -> {n \in Node : n.data = NoData \/ n.str = <<>>}]
  /\ used \subseteq Index
  /\ root \in Link
  /\ free \in Seq(Index)
  /\ top \in 0 .. MaxNodes
  /\ DOMAIN kv \subseteq Words /\ Range(kv) \subseteq Data

\* Words to look for: the beginnings of those that may be in, some with another end.
Chars      == UNION {Range(w) : w \in Words}
Beginnings == UNION {{SubSeq(w, 1, j) : j \in 1 .. Len(w)} : w \in Words}
Probes     == Beginnings \cup {Append(v, c) : v \in Beginnings, c \in Chars}

\* A word is found, with its data, exactly while it is in, whatever insertions
\* and deletions have split and cut off meanwhile (trie_find).
FindsWhatIsIn ==
  \A w \in Probes : Find(w) = IF w \in DOMAIN kv THEN kv[w] ELSE NoData

\* Lexicographic order.
Before(v, w) ==
  LET n == Common(v, w)
  IN  n < Len(w) /\ (n = Len(v) \/ v[n + 1] < w[n + 1])

\* The iterator comes by every word that is in, once, in lexicographic order
\* (trie_iter_next).
IteratesInOrder ==
  LET it == Iteration IN
  /\ {<<e.word, e.data>> : e \in Range(it)} = {<<w, kv[w]>> : w \in DOMAIN kv}
  /\ \A j \in 1 .. Len(it) - 1 : Before(it[j].word, it[j + 1].word)

\* The nodes under x and its later siblings.
Linked[x \in Link] ==
  IF x = NoNode THEN {} ELSE {x} \cup Linked[node[x].next] \cup Linked[node[x].child]

\* A node taken from the banks is linked or on the free list, never both, once
\* only, also after an insertion that ran out of memory (trie_mknode,
\* trie_remnode, _trie_stride_alloc).
NodesAccounted ==
  /\ used = Linked[root]
  /\ used \cap Range(free) = {}
  /\ used \cup Range(free) = 1 .. top
  /\ IsInjective(free)

\* Every node leads to a word: a deletion takes along what would lead to none
\* (trie_delete), and there is always a child to go on with (_trie_insert_decide).
NoDeadEnds ==
  \A x \in used : HasData(x) \/ node[x].child # NoNode

=============================================================================

------------------------------ MODULE TrieProofs ------------------------------
(***************************************************************************)
(* Proofs about module Trie, for all words, data and sizes: whatever       *)
(* insertions split and deletions cut off, and also when an insertion runs *)
(* out of memory, the nodes in use are a tree that holds exactly the pairs *)
(* that are in, trie_find finds these and no others, the iterator comes by *)
(* them in order, and no node is lost.                                     *)
(* First come facts about such trees, what the walks of trie_find and      *)
(* _trie_insert_decide, which are recursive functions, find in a tree, and *)
(* which changes leave a tree; then the operations.                        *)
(***************************************************************************)
EXTENDS Trie, BasicProofs, FiniteSetTheorems, SequenceTheorems

-----------------------------------------------------------------------------
(* Trees of nodes.                                                         *)

\* The word that ends with x, if at[x] is the one before its character.
Word(nd, at, x) == at[x] \o <<nd[x].c>> \o nd[x].str

\* y is the next sibling of x.
NextOf(nd, at, rank, from, x, y) ==
  /\ from[y] = x /\ rank[y] < rank[x]
  /\ at[y] = at[x] /\ nd[x].c < nd[y].c

\* y is the first child of x.
ChildOf(nd, at, rank, from, x, y) ==
  /\ from[y] = x /\ rank[y] < rank[x]
  /\ at[y] = Word(nd, at, x)

\* The nodes us with the root rt are a tree: each is linked from one place
\* (from, NoNode for the root), and links go down (rank).
Shape(nd, us, rt, at, rank, from) ==
  /\ nd \in [Index -> {n \in Node : n.data = NoData \/ n.str = <<>>}]
  /\ us \subseteq Index
  /\ \A x \in Index \ us : nd[x] = Cleared
  /\ at \in [Index -> Seq(Nat)] /\ rank \in [Index -> Nat] /\ from \in [Index -> Link]
  /\ rt \in us \cup {NoNode}
  /\ rt # NoNode => at[rt] = <<>>
  /\ \A x \in us : nd[x].next # NoNode =>
       nd[x].next \in us /\ NextOf(nd, at, rank, from, x, nd[x].next)
  /\ \A x \in us : nd[x].child # NoNode =>
       nd[x].child \in us /\ ChildOf(nd, at, rank, from, x, nd[x].child)
  /\ \A y \in us :
       IF y = rt THEN from[y] = NoNode
                 ELSE from[y] \in us /\ y \in {nd[from[y]].next, nd[from[y]].child}

\* The trie holds m: the words that end with a node with data.
Holds(nd, us, at, m) ==
  /\ DOMAIN m = {Word(nd, at, x) : x \in {y \in us : nd[y].data # NoData}}
  /\ \A x \in us : nd[x].data # NoData => m[Word(nd, at, x)] = nd[x].data

\* No node is left with neither data nor a child.
Leads(nd, us) == \A x \in us : nd[x].data # NoData \/ nd[x].child # NoNode

(***************************************************************************)
(* No node is not a node.                                                  *)
(***************************************************************************)
LEMMA NoNodeIsNone == NoNode \notin Index /\ Index \subseteq Nat \ {0} /\ Link = Index \cup {NoNode}
BY DEF Index, NoNode, Link

(***************************************************************************)
(* A word in three parts.                                                  *)
(***************************************************************************)
LEMMA Parts ==
  ASSUME NEW s \in Seq(Nat), NEW c \in Nat, NEW t \in Seq(Nat)
  PROVE  /\ s \o <<c>> \o t \in Seq(Nat)
         /\ Len(s \o <<c>> \o t) = Len(s) + 1 + Len(t)
         /\ \A j \in 1 .. Len(s) : (s \o <<c>> \o t)[j] = s[j]
         /\ (s \o <<c>> \o t)[Len(s) + 1] = c
         /\ \A j \in 1 .. Len(t) : (s \o <<c>> \o t)[Len(s) + 1 + j] = t[j]
<1> DEFINE u == s \o <<c>>
<1>1. u \in Seq(Nat) /\ Len(u) = Len(s) + 1 /\ \A j \in 1 .. Len(s) : u[j] = s[j]
  BY ConcatProperties, <<c>> \in Seq(Nat)
<1>2. u[Len(s) + 1] = c
  <2>1. Len(s) + 1 \in 1 .. Len(s) + Len(<<c>>) /\ Len(s) \in Nat
    OBVIOUS
  <2> QED
    BY <2>1, ConcatProperties, <<c>> \in Seq(Nat)
<1> HIDE DEF u
<1>3. /\ u \o t \in Seq(Nat)
      /\ Len(u \o t) = Len(u) + Len(t)
      /\ \A j \in 1 .. Len(u) + Len(t) :
           (u \o t)[j] = IF j <= Len(u) THEN u[j] ELSE t[j - Len(u)]
  BY <1>1, ConcatProperties
<1>4. Len(s) \in Nat /\ Len(t) \in Nat
  OBVIOUS
<1>5. \A j \in 1 .. Len(s) : (u \o t)[j] = s[j]
  BY <1>1, <1>3, <1>4
<1>6. (u \o t)[Len(s) + 1] = c
  BY <1>1, <1>2, <1>3, <1>4
<1>7. \A j \in 1 .. Len(t) : (u \o t)[Len(s) + 1 + j] = t[j]
  <2> SUFFICES ASSUME NEW j \in 1 .. Len(t) PROVE (u \o t)[Len(s) + 1 + j] = t[j]
    OBVIOUS
  <2>1. Len(s) + 1 + j \in 1 .. Len(u) + Len(t) /\ ~(Len(s) + 1 + j <= Len(u))
        /\ Len(s) + 1 + j - Len(u) = j
    BY <1>1, <1>4
  <2> QED
    BY SMTT(30), <2>1, <1>3
<1> QED
  BY <1>1, <1>3, <1>5, <1>6, <1>7 DEF u

\* How much of a word comes before the character of x, and how much after it.
Depth(at, x) == Len(at[x])
Size(nd, x)  == Len(nd[x].str)

\* The word that ends with x, by its characters.
WordIs(nd, at, x) ==
  /\ nd[x].c \in Nat /\ Depth(at, x) \in Nat /\ Size(nd, x) \in Nat
  /\ Word(nd, at, x) \in Seq(Nat)
  /\ Len(Word(nd, at, x)) = Depth(at, x) + 1 + Size(nd, x)
  /\ \A j \in 1 .. Depth(at, x) : Word(nd, at, x)[j] = at[x][j]
  /\ Word(nd, at, x)[Depth(at, x) + 1] = nd[x].c
  /\ \A j \in 1 .. Size(nd, x) :
       Word(nd, at, x)[Depth(at, x) + 1 + j] = nd[x].str[j]

(***************************************************************************)
(* The word that ends with a node is what is before its character, that    *)
(* character, and its piece.                                               *)
(***************************************************************************)
LEMMA WordParts ==
  ASSUME NEW nd, NEW us, NEW rt, NEW at, NEW rank, NEW from,
         Shape(nd, us, rt, at, rank, from), NEW x \in Index
  PROVE  WordIs(nd, at, x)
<1>1. nd[x].c \in Nat /\ nd[x].str \in Seq(Nat) /\ at[x] \in Seq(Nat)
  BY DEF Shape, Node
<1> DEFINE s == at[x]
           c == nd[x].c
           t == nd[x].str
<1>2. s \in Seq(Nat) /\ c \in Nat /\ t \in Seq(Nat) /\ Word(nd, at, x) = s \o <<c>> \o t
  BY <1>1 DEF Word
<1>3. Depth(at, x) = Len(s) /\ Size(nd, x) = Len(t)
  BY DEF Depth, Size
<1> HIDE DEF s, c, t
<1>4. Len(s) \in Nat /\ Len(t) \in Nat
  BY <1>2
<1>5. /\ Word(nd, at, x) \in Seq(Nat)
      /\ Len(Word(nd, at, x)) = Len(s) + 1 + Len(t)
      /\ \A j \in 1 .. Len(s) : Word(nd, at, x)[j] = s[j]
      /\ Word(nd, at, x)[Len(s) + 1] = c
      /\ \A j \in 1 .. Len(t) : Word(nd, at, x)[Len(s) + 1 + j] = t[j]
  BY <1>2, Parts
<1>6. /\ Word(nd, at, x) \in Seq(Nat)
      /\ Len(Word(nd, at, x)) = Depth(at, x) + 1 + Size(nd, x)
      /\ \A j \in 1 .. Depth(at, x) : Word(nd, at, x)[j] = s[j]
      /\ Word(nd, at, x)[Depth(at, x) + 1] = c
      /\ \A j \in 1 .. Size(nd, x) : Word(nd, at, x)[Depth(at, x) + 1 + j] = t[j]
  BY <1>3, <1>5
<1> QED
  BY <1>2, <1>3, <1>4, <1>6 DEF s, c, t, WordIs

\* How far down the links of x may go.
Height(x, us, rank) == IF x = NoNode THEN 0 ELSE IF x \in us THEN rank[x] + 2 ELSE 1

(***************************************************************************)
(* Links lead to nodes in use, and down.                                   *)
(***************************************************************************)
LEMMA LinksDown ==
  ASSUME NEW nd, NEW us, NEW rt, NEW at, NEW rank, NEW from,
         Shape(nd, us, rt, at, rank, from), NEW x \in Index
  PROVE  /\ Height(x, us, rank) \in Nat
         /\ nd[x].next \in us \cup {NoNode} /\ nd[x].child \in us \cup {NoNode}
         /\ nd[x].next \in Link /\ nd[x].child \in Link
         /\ Height(nd[x].next, us, rank) < Height(x, us, rank)
         /\ Height(nd[x].child, us, rank) < Height(x, us, rank)
<1>1. CASE x \in us
  <2>1. rank[x] \in Nat /\ us \subseteq Index /\ Height(x, us, rank) = rank[x] + 2
    BY <1>1, NoNodeIsNone DEF Shape, Height
  <2>2. ASSUME NEW y \in us, rank[y] < rank[x]
        PROVE  Height(y, us, rank) < Height(x, us, rank)
    <3>1. rank[y] \in Nat /\ y # NoNode
      BY <2>1, NoNodeIsNone DEF Shape
    <3> QED
      BY <2>1, <2>2, <3>1 DEF Height
  <2>3. Height(NoNode, us, rank) < Height(x, us, rank)
    BY <2>1 DEF Height
  <2>4. nd[x].next # NoNode => nd[x].next \in us /\ rank[nd[x].next] < rank[x]
    BY <1>1 DEF Shape, NextOf
  <2>5. nd[x].child # NoNode => nd[x].child \in us /\ rank[nd[x].child] < rank[x]
    BY <1>1 DEF Shape, ChildOf
  <2>6. Height(nd[x].next, us, rank) < Height(x, us, rank)
    BY <2>2, <2>3, <2>4
  <2>7. Height(nd[x].child, us, rank) < Height(x, us, rank)
    BY <2>2, <2>3, <2>5
  <2>8. Height(x, us, rank) \in Nat
    BY <2>1
  <2> QED
    BY <2>1, <2>4, <2>5, <2>6, <2>7, <2>8, NoNodeIsNone
<1>2. CASE x \notin us
  BY <1>2, NoNodeIsNone DEF Shape, Cleared, Height
<1> QED
  BY <1>1, <1>2

-----------------------------------------------------------------------------
(* The nodes below a node.                                                 *)

\* B[x] is x, with what is below it and below its later siblings.
IsBelow(B, nd) ==
  /\ B[NoNode] = {}
  /\ \A x \in Index : B[x] = {x} \cup B[nd[x].next] \cup B[nd[x].child]

BelowBody(nd, x, f) ==
  IF x = NoNode THEN {} ELSE {x} \cup f[nd[x].next] \cup f[nd[x].child]

(***************************************************************************)
(* The recursion that tells the nodes below a node ends.                   *)
(***************************************************************************)
LEMMA BelowSolved ==
  ASSUME NEW nd, NEW us, NEW rt, NEW at, NEW rank, NEW from,
         Shape(nd, us, rt, at, rank, from)
  PROVE  \E f : f \in [Link -> SUBSET Index] /\ f = [x \in Link |-> BelowBody(nd, x, f)]
<1>1. ASSUME NEW x \in Index, NEW f \in [Link -> SUBSET Index]
      PROVE  BelowBody(nd, x, f) \in SUBSET Index
  BY LinksDown DEF BelowBody
<1>2. ASSUME NEW x \in Link PROVE Height(x, us, rank) \in Nat
  BY NoNodeIsNone, LinksDown DEF Height
<1> DEFINE m == [x \in Link |-> Height(x, us, rank)]
           F == [q \in Link \X [Link -> SUBSET Index] |-> BelowBody(nd, q[1], q[2])]
<1>3. m \in [Link -> Nat]
  BY <1>2
<1>4. F \in [Link \X [Link -> SUBSET Index] -> SUBSET Index]
  <2> SUFFICES ASSUME NEW x \in Link, NEW f \in [Link -> SUBSET Index]
               PROVE  BelowBody(nd, x, f) \in SUBSET Index
    OBVIOUS
  <2> QED
    BY <1>1, NoNodeIsNone DEF BelowBody
<1>5. LooksBelow(Link, SUBSET Index, m, F)
  <2> SUFFICES ASSUME NEW x \in Link, NEW g \in [Link -> SUBSET Index],
                      NEW h \in [Link -> SUBSET Index],
                      \A y \in Link : m[y] < m[x] => g[y] = h[y]
               PROVE  BelowBody(nd, x, g) = BelowBody(nd, x, h)
    BY DEF LooksBelow
  <2>1. ASSUME x \in Index
        PROVE  g[nd[x].next] = h[nd[x].next] /\ g[nd[x].child] = h[nd[x].child]
    BY <2>1, LinksDown
  <2> QED
    BY <2>1, NoNodeIsNone DEF BelowBody
<1>6. Solvable(Link, SUBSET Index, F)
  <2>1. SUBSET Index # {}
    OBVIOUS
  <2> HIDE DEF m, F
  <2> QED
    BY <1>3, <1>4, <1>5, <2>1, RecursionSolved, Zenon
<1>7. PICK f \in [Link -> SUBSET Index] : \A x \in Link : f[x] = F[<<x, f>>]
  BY <1>6 DEF Solvable
<1>8. f = [x \in Link |-> BelowBody(nd, x, f)]
  BY <1>7
<1> QED
  BY <1>8

(***************************************************************************)
(* What solves the recursion tells the nodes below a node.                 *)
(***************************************************************************)
LEMMA BelowExists ==
  ASSUME NEW nd, NEW us, NEW rt, NEW at, NEW rank, NEW from,
         Shape(nd, us, rt, at, rank, from)
  PROVE  \E B : IsBelow(B, nd)
<1>1. PICK f : f \in [Link -> SUBSET Index] /\ f = [x \in Link |-> BelowBody(nd, x, f)]
  BY BelowSolved
<1>2. \A x \in Link : f[x] = BelowBody(nd, x, f)
  BY <1>1
<1>3. IsBelow(f, nd)
  BY <1>1, <1>2, NoNodeIsNone DEF IsBelow, BelowBody
<1> QED
  BY <1>3

(***************************************************************************)
(* What is below a node is in use, and so are its links.                   *)
(***************************************************************************)
LEMMA BelowClosed ==
  ASSUME NEW nd, NEW us, NEW rt, NEW at, NEW rank, NEW from,
         Shape(nd, us, rt, at, rank, from), NEW B, IsBelow(B, nd), NEW x \in us
  PROVE  /\ x \in B[x] /\ B[x] \subseteq us
         /\ \A y \in B[x] : {nd[y].next, nd[y].child} \subseteq B[x] \cup {NoNode}
<1> DEFINE P(z) == /\ B[z] \subseteq us
                   /\ \A y \in B[z] : {nd[y].next, nd[y].child} \subseteq B[z] \cup {NoNode}
           T == {n \in Nat : \A z \in us : rank[z] = n => P(z)}
<1>1. us \subseteq Index /\ rank \in [Index -> Nat]
  BY DEF Shape
<1>2. ASSUME NEW z \in us PROVE z \in B[z] /\ B[z] = {z} \cup B[nd[z].next] \cup B[nd[z].child]
  BY <1>1 DEF IsBelow
<1>3. B[NoNode] = {}
  BY DEF IsBelow
<1>4. ASSUME NEW n \in Nat, \A k \in Nat : k < n => k \in T
      PROVE  n \in T
  <2> SUFFICES ASSUME NEW z \in us, rank[z] = n PROVE P(z)
    OBVIOUS
  <2>1. nd[z].next # NoNode => nd[z].next \in us /\ P(nd[z].next)
    <3>1. nd[z].next # NoNode =>
            nd[z].next \in us /\ rank[nd[z].next] \in Nat /\ rank[nd[z].next] < n
      BY <1>1 DEF Shape, NextOf
    <3> QED
      BY <3>1, <1>4
  <2>2. nd[z].child # NoNode => nd[z].child \in us /\ P(nd[z].child)
    <3>1. nd[z].child # NoNode =>
            nd[z].child \in us /\ rank[nd[z].child] \in Nat /\ rank[nd[z].child] < n
      BY <1>1 DEF Shape, ChildOf
    <3> QED
      BY <3>1, <1>4
  <2>3. B[z] \subseteq us
    BY <2>1, <2>2, <1>2, <1>3
  <2>4. nd[z].next \in B[z] \cup {NoNode} /\ nd[z].child \in B[z] \cup {NoNode}
    BY <2>1, <2>2, <1>2
  <2>5. ASSUME NEW y \in B[z]
        PROVE  {nd[y].next, nd[y].child} \subseteq B[z] \cup {NoNode}
    <3>1. CASE y = z
      BY <3>1, <2>4
    <3>2. CASE y \in B[nd[z].next]
      BY <3>2, <2>1, <1>2, <1>3
    <3>3. CASE y \in B[nd[z].child]
      BY <3>3, <2>2, <1>2, <1>3
    <3> QED
      BY <3>1, <3>2, <3>3, <1>2
  <2> QED
    BY <2>3, <2>5
<1>5. T = Nat
  <2> HIDE DEF T
  <2>1. T \in SUBSET Nat
    BY DEF T
  <2> QED
    BY <1>4, <2>1, NatInductBelow
<1>6. P(x)
  BY <1>1, <1>5
<1> QED
  BY <1>2, <1>6

(***************************************************************************)
(* A function on the nodes has a bound.                                    *)
(***************************************************************************)
LEMMA Bounded ==
  ASSUME NEW f \in [Index -> Nat]
  PROVE  \E b \in Nat : \A x \in Index : f[x] <= b
<1> DEFINE T == {n \in Nat : \E b \in Nat : \A x \in Index : x <= n => f[x] <= b}
<1>1. 0 \in T
  BY NoNodeIsNone
<1>2. ASSUME NEW n \in T PROVE n + 1 \in T
  <2>1. PICK b \in Nat : \A x \in Index : x <= n => f[x] <= b
    OBVIOUS
  <2>2. CASE n + 1 \in Index
    <3>1. f[n + 1] \in Nat
      BY <2>2
    <3>2. b + f[n + 1] \in Nat
      BY <3>1
    <3>3. ASSUME NEW x \in Index, x <= n + 1 PROVE f[x] <= b + f[n + 1]
      <4>1. x <= n \/ x = n + 1
        BY <3>3, NoNodeIsNone
      <4> QED
        BY <4>1, <2>1, <3>1
    <3> QED
      BY <3>2, <3>3
  <2>3. CASE n + 1 \notin Index
    <3>1. ASSUME NEW x \in Index, x <= n + 1 PROVE x <= n
      BY <2>3, <3>1, NoNodeIsNone
    <3> QED
      BY <2>1, <3>1
  <2> QED
    BY <2>2, <2>3
<1>3. T = Nat
  <2> HIDE DEF T
  <2>1. T \in SUBSET Nat
    BY DEF T
  <2> QED
    BY <1>1, <1>2, <2>1, NatInduct
<1>4. MaxNodes \in T
  BY <1>3, TrieAssumption
<1> QED
  BY <1>4 DEF Index

(***************************************************************************)
(* All nodes in use are below the root.                                    *)
(***************************************************************************)
LEMMA BelowAll ==
  ASSUME NEW nd, NEW us, NEW rt, NEW at, NEW rank, NEW from,
         Shape(nd, us, rt, at, rank, from), NEW B, IsBelow(B, nd)
  PROVE  B[rt] = us
<1>1. us \subseteq Index /\ rank \in [Index -> Nat]
  BY DEF Shape
<1>2. PICK b \in Nat : \A x \in Index : rank[x] <= b
  BY <1>1, Bounded
<1>3. B[rt] \subseteq us
  <2>1. rt \in us => B[rt] \subseteq us
    BY BelowClosed
  <2> QED
    BY <2>1 DEF Shape, IsBelow
<1> SUFFICES ASSUME us \ B[rt] # {} PROVE FALSE
  BY <1>3
<1> DEFINE R == {rank[y] : y \in us \ B[rt]}
<1>4. R \in SUBSET Nat /\ R # {} /\ \A n \in R : n <= b
  BY <1>1, <1>2
<1>5. PICK n \in R : \A k \in R : k <= n
  <2> HIDE DEF R
  <2> QED
    BY <1>4, GreatestNat
<1>6. PICK y \in us \ B[rt] : rank[y] = n
  OBVIOUS
<1>7. \A z \in us \ B[rt] : rank[z] <= rank[y]
  BY <1>5, <1>6
<1> HIDE DEF R
<1>8. CASE y = rt
  <2>1. rt \in us
    BY <1>8
  <2> QED
    BY <1>6, <1>8, <2>1, BelowClosed
<1>9. CASE y # rt
  <2>1. from[y] \in us /\ y \in {nd[from[y]].next, nd[from[y]].child} /\ y # NoNode
    BY <1>6, <1>9, <1>1, NoNodeIsNone DEF Shape
  <2>2. rank[y] < rank[from[y]]
    BY <2>1 DEF Shape, NextOf, ChildOf
  <2>3. rank[y] \in Nat /\ rank[from[y]] \in Nat
    BY <1>1, <1>6, <2>1
  <2>4. from[y] \in B[rt]
    BY <1>7, <2>1, <2>2, <2>3
  <2>5. rt \in us
    BY <2>4 DEF Shape, IsBelow
  <2>6. y \in B[rt] \cup {NoNode}
    BY <2>1, <2>4, <2>5, BelowClosed
  <2> QED
    BY <2>1, <2>6, <1>6
<1> QED
  BY <1>8, <1>9

\* The word that ends with y begins as those of x and its later siblings do.
WordBelow(nd, at, x, y) ==
  /\ Depth(at, x) < Len(Word(nd, at, y))
  /\ \A j \in 1 .. Depth(at, x) : Word(nd, at, y)[j] = at[x][j]
  /\ nd[x].c <= Word(nd, at, y)[Depth(at, x) + 1]

(***************************************************************************)
(* The words below a node begin as its own, and siblings ascend.           *)
(***************************************************************************)
LEMMA BelowWords ==
  ASSUME NEW nd, NEW us, NEW rt, NEW at, NEW rank, NEW from,
         Shape(nd, us, rt, at, rank, from), NEW B, IsBelow(B, nd), NEW x \in us
  PROVE  \A y \in B[x] : WordBelow(nd, at, x, y)
<1> DEFINE P(z) == \A y \in B[z] : WordBelow(nd, at, z, y)
           T == {n \in Nat : \A z \in us : rank[z] = n => P(z)}
<1>1. us \subseteq Index /\ rank \in [Index -> Nat]
  BY DEF Shape
<1>2. ASSUME NEW z \in us PROVE B[z] = {z} \cup B[nd[z].next] \cup B[nd[z].child]
  BY <1>1 DEF IsBelow
<1>3. B[NoNode] = {}
  BY DEF IsBelow
<1>4. ASSUME NEW n \in Nat, \A k \in Nat : k < n => k \in T
      PROVE  n \in T
  <2> SUFFICES ASSUME NEW z \in us, rank[z] = n, NEW y \in B[z]
               PROVE  WordBelow(nd, at, z, y)
    OBVIOUS
  <2>0. y \in us /\ WordIs(nd, at, y) /\ WordIs(nd, at, z)
    <3>1. y \in us
      BY BelowClosed
    <3> QED
      BY <3>1, <1>1, WordParts
  <2>1. CASE y = z
    BY <2>0, <2>1 DEF WordBelow, WordIs
  <2>2. CASE y \in B[nd[z].next]
    <3> DEFINE s == nd[z].next
    <3>1. s # NoNode
      BY <2>2, <1>3
    <3>2. s \in us /\ rank[s] \in Nat /\ rank[s] < n /\ at[s] = at[z] /\ nd[z].c < nd[s].c
      BY <1>1, <3>1 DEF Shape, NextOf
    <3>3. WordBelow(nd, at, s, y)
      BY <2>2, <3>2, <1>4
    <3>4. WordIs(nd, at, s)
      BY <1>1, <3>2, WordParts
    <3> HIDE DEF s
    <3>5. Depth(at, s) = Depth(at, z)
      BY <3>2 DEF Depth
    <3>6. Depth(at, z) + 1 \in 1 .. Len(Word(nd, at, y)) /\ Word(nd, at, y) \in Seq(Nat)
      <4>1. Depth(at, z) \in Nat /\ Word(nd, at, y) \in Seq(Nat)
        BY <2>0 DEF WordIs
      <4>2. Depth(at, z) < Len(Word(nd, at, y))
        BY <3>3, <3>5 DEF WordBelow
      <4>3. Len(Word(nd, at, y)) \in Nat
        BY <4>1
      <4> QED
        BY <4>1, <4>2, <4>3
    <3>7. Word(nd, at, y)[Depth(at, z) + 1] \in Nat
      BY <3>6, ElementOfSeq
    <3>8. nd[z].c <= Word(nd, at, y)[Depth(at, z) + 1]
      <4>1. nd[z].c \in Nat /\ nd[s].c \in Nat
        BY <2>0, <3>4 DEF WordIs
      <4>2. nd[s].c <= Word(nd, at, y)[Depth(at, z) + 1]
        BY <3>3, <3>5 DEF WordBelow
      <4> QED
        BY <4>1, <4>2, <3>2, <3>7
    <3> QED
      BY <3>2, <3>3, <3>5, <3>8 DEF WordBelow
  <2>3. CASE y \in B[nd[z].child]
    <3> DEFINE s == nd[z].child
    <3>1. s # NoNode
      BY <2>3, <1>3
    <3>2. s \in us /\ rank[s] \in Nat /\ rank[s] < n /\ at[s] = Word(nd, at, z)
      BY <1>1, <3>1 DEF Shape, ChildOf
    <3>3. WordBelow(nd, at, s, y)
      BY <2>3, <3>2, <1>4
    <3> HIDE DEF s
    <3>4. /\ Depth(at, z) \in Nat /\ Size(nd, z) \in Nat /\ nd[z].c \in Nat
          /\ Depth(at, s) = Depth(at, z) + 1 + Size(nd, z)
          /\ at[s][Depth(at, z) + 1] = nd[z].c
          /\ \A j \in 1 .. Depth(at, z) : at[s][j] = at[z][j]
      BY <2>0, <3>2 DEF WordIs, Depth
    <3>5. \A j \in 1 .. Depth(at, s) : Word(nd, at, y)[j] = at[s][j]
      BY <3>3 DEF WordBelow
    <3>6. Depth(at, s) < Len(Word(nd, at, y))
      BY <3>3 DEF WordBelow
    <3>7. Word(nd, at, y)[Depth(at, z) + 1] = nd[z].c
      BY <3>4, <3>5
    <3>8. \A j \in 1 .. Depth(at, z) : Word(nd, at, y)[j] = at[z][j]
      BY <3>4, <3>5
    <3>9. Len(Word(nd, at, y)) \in Nat
      BY <2>0 DEF WordIs
    <3> QED
      BY <3>4, <3>6, <3>7, <3>8, <3>9 DEF WordBelow
  <2> QED
    BY <2>1, <2>2, <2>3, <1>2
<1>5. T = Nat
  <2> HIDE DEF T
  <2>1. T \in SUBSET Nat
    BY DEF T
  <2> QED
    BY <1>4, <2>1, NatInductBelow
<1> QED
  BY <1>1, <1>5

(***************************************************************************)
(* The words below a later sibling differ from those of a node, and those  *)
(* below its children are longer.                                          *)
(***************************************************************************)
LEMMA WordsBeside ==
  ASSUME NEW nd, NEW us, NEW rt, NEW at, NEW rank, NEW from,
         Shape(nd, us, rt, at, rank, from), NEW B, IsBelow(B, nd), NEW x \in us
  PROVE  /\ \A y \in B[nd[x].next] : nd[x].c < Word(nd, at, y)[Depth(at, x) + 1]
         /\ \A y \in B[nd[x].child] :
              /\ Len(Word(nd, at, x)) < Len(Word(nd, at, y))
              /\ \A j \in 1 .. Len(Word(nd, at, x)) : Word(nd, at, y)[j] = Word(nd, at, x)[j]
<1>1. us \subseteq Index /\ B[NoNode] = {}
  BY DEF Shape, IsBelow
<1>2. ASSUME NEW y \in B[nd[x].next] PROVE nd[x].c < Word(nd, at, y)[Depth(at, x) + 1]
  <2> DEFINE s == nd[x].next
  <2>1. s \in us /\ at[s] = at[x] /\ nd[x].c < nd[s].c
    BY <1>1, <1>2 DEF Shape, NextOf
  <2>2. y \in us /\ WordBelow(nd, at, s, y)
    BY <2>1, <1>2, BelowWords, BelowClosed
  <2>3. WordIs(nd, at, x) /\ WordIs(nd, at, s) /\ WordIs(nd, at, y)
    BY <1>1, <2>1, <2>2, WordParts
  <2> HIDE DEF s
  <2>4. Depth(at, s) = Depth(at, x)
    BY <2>1 DEF Depth
  <2>5. Depth(at, x) + 1 \in 1 .. Len(Word(nd, at, y)) /\ Word(nd, at, y) \in Seq(Nat)
    <3>1. Depth(at, x) \in Nat /\ Word(nd, at, y) \in Seq(Nat)
      BY <2>3 DEF WordIs
    <3>2. Depth(at, x) < Len(Word(nd, at, y))
      BY <2>2, <2>4 DEF WordBelow
    <3>3. Len(Word(nd, at, y)) \in Nat
      BY <3>1
    <3> QED
      BY <3>1, <3>2, <3>3
  <2>6. Word(nd, at, y)[Depth(at, x) + 1] \in Nat
    BY <2>5, ElementOfSeq
  <2>7. nd[s].c <= Word(nd, at, y)[Depth(at, x) + 1]
    BY <2>2, <2>4 DEF WordBelow
  <2>8. nd[x].c \in Nat /\ nd[s].c \in Nat
    BY <2>3 DEF WordIs
  <2> QED
    BY <2>1, <2>6, <2>7, <2>8
<1>3. ASSUME NEW y \in B[nd[x].child]
      PROVE  /\ Len(Word(nd, at, x)) < Len(Word(nd, at, y))
             /\ \A j \in 1 .. Len(Word(nd, at, x)) : Word(nd, at, y)[j] = Word(nd, at, x)[j]
  <2> DEFINE s == nd[x].child
  <2>1. s \in us /\ at[s] = Word(nd, at, x)
    BY <1>1, <1>3 DEF Shape, ChildOf
  <2>2. WordBelow(nd, at, s, y)
    BY <2>1, <1>3, BelowWords
  <2> HIDE DEF s
  <2>3. Depth(at, s) = Len(Word(nd, at, x))
    BY <2>1 DEF Depth
  <2> QED
    BY <2>1, <2>2, <2>3 DEF WordBelow
<1> QED
  BY <1>2, <1>3

(***************************************************************************)
(* Different nodes end different words.                                    *)
(***************************************************************************)
LEMMA WordsDiffer ==
  ASSUME NEW nd, NEW us, NEW rt, NEW at, NEW rank, NEW from,
         Shape(nd, us, rt, at, rank, from), NEW y1 \in us, NEW y2 \in us,
         Word(nd, at, y1) = Word(nd, at, y2)
  PROVE  y1 = y2
<1>1. PICK B : IsBelow(B, nd)
  BY BelowExists
<1> DEFINE P(z) == \A v, w \in B[z] : Word(nd, at, v) = Word(nd, at, w) => v = w
           T == {n \in Nat : \A z \in us : rank[z] = n => P(z)}
<1>2. us \subseteq Index /\ rank \in [Index -> Nat]
  BY DEF Shape
<1>3. ASSUME NEW z \in us PROVE B[z] = {z} \cup B[nd[z].next] \cup B[nd[z].child]
  BY <1>1, <1>2 DEF IsBelow
<1>4. B[NoNode] = {}
  BY <1>1 DEF IsBelow
<1>5. ASSUME NEW n \in Nat, \A k \in Nat : k < n => k \in T
      PROVE  n \in T
  <2> SUFFICES ASSUME NEW z \in us, rank[z] = n PROVE P(z)
    OBVIOUS
  <2>1. P(nd[z].next)
    <3>1. CASE nd[z].next = NoNode
      BY <3>1, <1>4
    <3>2. CASE nd[z].next # NoNode
      <4>1. nd[z].next \in us /\ rank[nd[z].next] \in Nat /\ rank[nd[z].next] < n
        BY <1>2, <3>2 DEF Shape, NextOf
      <4> QED
        BY <4>1, <1>5
    <3> QED
      BY <3>1, <3>2
  <2>2. P(nd[z].child)
    <3>1. CASE nd[z].child = NoNode
      BY <3>1, <1>4
    <3>2. CASE nd[z].child # NoNode
      <4>1. nd[z].child \in us /\ rank[nd[z].child] \in Nat /\ rank[nd[z].child] < n
        BY <1>2, <3>2 DEF Shape, ChildOf
      <4> QED
        BY <4>1, <1>5
    <3> QED
      BY <3>1, <3>2
  <2>3. /\ nd[z].c \in Nat /\ Depth(at, z) \in Nat /\ Size(nd, z) \in Nat
        /\ Len(Word(nd, at, z)) = Depth(at, z) + 1 + Size(nd, z)
        /\ Word(nd, at, z)[Depth(at, z) + 1] = nd[z].c
    BY <1>2, WordParts DEF WordIs
  <2>4. \A v \in B[nd[z].next] : Word(nd, at, v)[Depth(at, z) + 1] # nd[z].c
    <3> SUFFICES ASSUME NEW v \in B[nd[z].next],
                        Word(nd, at, v)[Depth(at, z) + 1] = nd[z].c
                 PROVE  FALSE
      OBVIOUS
    <3>1. nd[z].c < nd[z].c
      BY <1>1, WordsBeside
    <3> QED
      BY <3>1, <2>3
  <2>5. \A v \in B[nd[z].child] : /\ Word(nd, at, v)[Depth(at, z) + 1] = nd[z].c
                                  /\ Word(nd, at, v) # Word(nd, at, z)
    <3> SUFFICES ASSUME NEW v \in B[nd[z].child]
                 PROVE  /\ Word(nd, at, v)[Depth(at, z) + 1] = nd[z].c
                        /\ Word(nd, at, v) # Word(nd, at, z)
      OBVIOUS
    <3>1. /\ Len(Word(nd, at, z)) < Len(Word(nd, at, v))
          /\ \A j \in 1 .. Len(Word(nd, at, z)) : Word(nd, at, v)[j] = Word(nd, at, z)[j]
      BY <1>1, WordsBeside
    <3>2. Depth(at, z) + 1 \in 1 .. Len(Word(nd, at, z))
      BY <2>3
    <3>3. Word(nd, at, v) # Word(nd, at, z)
      BY <2>3, <3>1
    <3> QED
      BY <2>3, <3>1, <3>2, <3>3
  <2>6. ASSUME NEW v \in B[z], NEW w \in B[z], Word(nd, at, v) = Word(nd, at, w)
        PROVE  v = w
    <3> DEFINE e(u) == Word(nd, at, u)[Depth(at, z) + 1]
    <3>1. e(v) = e(w)
      BY <2>6
    <3>2. v = z \/ v \in B[nd[z].next] \/ v \in B[nd[z].child]
      BY <1>3
    <3>3. w = z \/ w \in B[nd[z].next] \/ w \in B[nd[z].child]
      BY <1>3
    <3>4. CASE v \in B[nd[z].next]
      BY <3>1, <3>3, <3>4, <2>1, <2>3, <2>4, <2>5, <2>6
    <3>5. CASE v \in B[nd[z].child]
      BY <3>1, <3>3, <3>5, <2>2, <2>3, <2>4, <2>5, <2>6
    <3>6. CASE v = z
      BY <3>1, <3>3, <3>6, <2>3, <2>4, <2>5, <2>6
    <3> QED
      BY <3>2, <3>4, <3>5, <3>6
  <2> QED
    BY <2>6
<1>6. T = Nat
  <2> HIDE DEF T
  <2>1. T \in SUBSET Nat
    BY DEF T
  <2> QED
    BY <1>5, <2>1, NatInductBelow
<1>7. B[rt] = us
  BY <1>1, BelowAll
<1>8. rt \in us
  BY <1>7, <1>4 DEF Shape
<1>9. P(rt)
  BY <1>2, <1>6, <1>8
<1> QED
  BY <1>7, <1>9

(***************************************************************************)
(* Linked tells the nodes below a node of the trie, and those below the    *)
(* root are the ones in use.                                               *)
(***************************************************************************)
LEMMA LinkedIsUsed ==
  ASSUME NEW at, NEW rank, NEW from, Shape(node, used, root, at, rank, from)
  PROVE  IsBelow(Linked, node) /\ used = Linked[root]
<1>1. PICK f : f = [x \in Link |-> BelowBody(node, x, f)]
  BY BelowSolved
<1>2. Linked = CHOOSE g : g = [x \in Link |-> BelowBody(node, x, g)]
  BY DEF Linked, BelowBody
<1>3. Linked = [x \in Link |-> BelowBody(node, x, Linked)]
  BY <1>1, <1>2
<1>4. IsBelow(Linked, node)
  <2>1. \A x \in Link : Linked[x] = BelowBody(node, x, Linked)
    BY <1>3
  <2> QED
    BY <2>1, NoNodeIsNone DEF IsBelow, BelowBody
<1> QED
  BY <1>4, BelowAll

-----------------------------------------------------------------------------
(* Walks along a word.                                                     *)

\* A walk along w is at node x, and w is as the trie says up to there.
Reached(at, w, x, i) ==
  /\ i = Depth(at, x) + 1 /\ i <= Len(w)
  /\ \A j \in 1 .. Depth(at, x) : w[j] = at[x][j]

(***************************************************************************)
(* A node's piece is its str: with data it is empty.                       *)
(***************************************************************************)
LEMMA PieceIsStr ==
  ASSUME NEW at, NEW rank, NEW from, Shape(node, used, root, at, rank, from),
         NEW x \in Index
  PROVE  /\ Piece(x) = node[x].str /\ Piece(x) \in Seq(Nat)
         /\ Len(Piece(x)) = Size(node, x) /\ Size(node, x) \in Nat
         /\ HasData(x) => Size(node, x) = 0
<1>1. node[x].str \in Seq(Nat) /\ (node[x].data # NoData => node[x].str = <<>>)
  BY DEF Shape, Node
<1>2. Piece(x) = node[x].str
  BY <1>1 DEF Piece, HasData
<1>3. Len(<<>>) = 0
  OBVIOUS
<1>4. Size(node, x) = Len(Piece(x))
  BY <1>2 DEF Size
<1>5. Piece(x) \in Seq(Nat)
  BY <1>1, <1>2
<1>6. Len(Piece(x)) \in Nat
  BY <1>5
<1>7. HasData(x) => Piece(x) = <<>>
  BY <1>1, <1>2 DEF HasData
<1> QED
  BY <1>2, <1>3, <1>4, <1>5, <1>6, <1>7

(***************************************************************************)
(* The rest of a word, by its characters.                                  *)
(***************************************************************************)
LEMMA RestParts ==
  ASSUME NEW w \in Seq(Nat), NEW i \in 1 .. Len(w) + 1
  PROVE  /\ Rest(w, i) \in Seq(Nat)
         /\ Len(Rest(w, i)) = Len(w) - i + 1
         /\ \A j \in 1 .. Len(w) - i + 1 : Rest(w, i)[j] = w[i + j - 1]
<1>1. Len(w) \in Nat /\ i \in Int
  OBVIOUS
<1>2. \A k \in i .. Len(w) : w[k] \in Nat
  BY <1>1
<1> QED
  BY <1>1, <1>2, SubSeqProperties DEF Rest

(***************************************************************************)
(* When s is what a word goes on with.                                     *)
(***************************************************************************)
LEMMA PrefixOfRest ==
  ASSUME NEW s \in Seq(Nat), NEW w \in Seq(Nat), NEW i \in 1 .. Len(w)
  PROVE  IsPrefix(s, Rest(w, i + 1)) <=>
           i + Len(s) <= Len(w) /\ \A j \in 1 .. Len(s) : w[i + j] = s[j]
<1> DEFINE t == Rest(w, i + 1)
           l == Len(s)
<1>1. Len(w) \in Nat /\ l \in Nat /\ i \in Nat /\ i + 1 \in 1 .. Len(w) + 1
  OBVIOUS
<1>2. /\ t \in Seq(Nat) /\ Len(t) = Len(w) - i
      /\ \A j \in 1 .. Len(w) - i : t[j] = w[i + j]
  <2>1. /\ t \in Seq(Nat) /\ Len(t) = Len(w) - (i + 1) + 1
        /\ \A j \in 1 .. Len(w) - (i + 1) + 1 : t[j] = w[i + 1 + j - 1]
    BY <1>1, RestParts
  <2>2. Len(w) - (i + 1) + 1 = Len(w) - i
    BY <1>1
  <2>3. \A j \in Nat : i + 1 + j - 1 = i + j
    BY <1>1
  <2> QED
    BY SMTT(30), <2>1, <2>2, <2>3
<1>3. IsPrefix(s, t) <=> l <= Len(t) /\ SubSeq(s, 1, l) = SubSeq(t, 1, l)
  BY DEF IsPrefix
<1>4. SubSeq(s, 1, l) = s
  BY SubSeqFull
<1> HIDE DEF t, l
<1>5. ASSUME l <= Len(w) - i
      PROVE  s = SubSeq(t, 1, l) <=> \A j \in 1 .. l : w[i + j] = s[j]
  <2>1. \A k \in 1 .. l : t[k] \in Nat
    BY SMTT(30), <1>1, <1>2, <1>5
  <2>2. /\ SubSeq(t, 1, l) \in Seq(Nat)
        /\ Len(SubSeq(t, 1, l)) = l
        /\ \A j \in 1 .. l : SubSeq(t, 1, l)[j] = t[j]
    <3>1. /\ SubSeq(t, 1, l) \in Seq(Nat)
          /\ Len(SubSeq(t, 1, l)) = IF 1 <= l THEN l - 1 + 1 ELSE 0
          /\ \A j \in 1 .. l - 1 + 1 : SubSeq(t, 1, l)[j] = t[1 + j - 1]
      BY <1>1, <2>1, SubSeqProperties
    <3> QED
      BY <1>1, <3>1
  <2>3. \A j \in 1 .. l : t[j] = w[i + j]
    <3>1. 1 .. l \subseteq 1 .. Len(w) - i
      BY <1>1, <1>5
    <3> QED
      BY <1>2, <3>1
  <2>4. (\A j \in 1 .. l : SubSeq(t, 1, l)[j] = s[j]) => s = SubSeq(t, 1, l)
    <3>1. Len(s) = l
      BY DEF l
    <3> QED
      BY <2>2, <3>1, SeqEqual
  <2> QED
    BY <2>2, <2>3, <2>4
<1>6. i + l <= Len(w) <=> l <= Len(w) - i
  BY <1>1
<1> QED
  BY <1>2, <1>3, <1>4, <1>5, <1>6 DEF t, l

(***************************************************************************)
(* A walk that finds another character goes on at the next sibling.        *)
(***************************************************************************)
LEMMA WalkNext ==
  ASSUME NEW at, NEW rank, NEW from, Shape(node, used, root, at, rank, from),
         NEW x \in used, NEW w, NEW i, Reached(at, w, x, i),
         node[x].next # NoNode
  PROVE  /\ node[x].next \in used /\ rank[node[x].next] < rank[x]
         /\ Reached(at, w, node[x].next, i)
<1>1. node[x].next \in used /\ rank[node[x].next] < rank[x] /\ at[node[x].next] = at[x]
  BY DEF Shape, NextOf
<1>2. Depth(at, node[x].next) = Depth(at, x)
  BY <1>1 DEF Depth
<1> QED
  BY <1>1, <1>2 DEF Reached

(***************************************************************************)
(* A walk that finds the character, and the piece after it, goes down.     *)
(***************************************************************************)
LEMMA WalkDown ==
  ASSUME NEW at, NEW rank, NEW from, Shape(node, used, root, at, rank, from),
         NEW x \in used, NEW w, NEW i, Reached(at, w, x, i),
         node[x].child # NoNode, w[i] = node[x].c,
         i + Size(node, x) < Len(w),
         \A j \in 1 .. Size(node, x) : w[i + j] = node[x].str[j],
         Len(w) \in Nat
  PROVE  /\ node[x].child \in used /\ rank[node[x].child] < rank[x]
         /\ Reached(at, w, node[x].child, i + 1 + Size(node, x))
<1>1. /\ node[x].child \in used /\ rank[node[x].child] < rank[x]
      /\ at[node[x].child] = Word(node, at, x)
  BY DEF Shape, ChildOf
<1>2. x \in Index
  BY DEF Shape
<1>3. WordIs(node, at, x)
  BY <1>2, WordParts
<1> DEFINE d == Depth(at, x)
           n == Size(node, x)
           u == Word(node, at, x)
<1>4. /\ d \in Nat /\ n \in Nat /\ Len(u) = d + 1 + n /\ u[d + 1] = node[x].c
      /\ \A j \in 1 .. d : u[j] = at[x][j]
      /\ \A j \in 1 .. n : u[d + 1 + j] = node[x].str[j]
  BY <1>3 DEF WordIs
<1>5. i = d + 1 /\ \A j \in 1 .. d : w[j] = at[x][j]
  BY DEF Reached
<1>6. Depth(at, node[x].child) = d + 1 + n
  BY <1>1, <1>4 DEF Depth
<1> HIDE DEF d, n, u
<1>7. i + 1 + n = Depth(at, node[x].child) + 1 /\ i + 1 + n <= Len(w)
  BY <1>4, <1>5, <1>6 DEF n
<1>8. ASSUME NEW j \in 1 .. d + 1 + n PROVE w[j] = u[j]
  <2>1. CASE j \in 1 .. d
    BY <2>1, <1>4, <1>5
  <2>2. CASE j = d + 1
    BY <2>2, <1>4, <1>5
  <2>3. CASE j - d - 1 \in 1 .. n
    <3>1. i + (j - d - 1) = j /\ d + 1 + (j - d - 1) = j
      BY <1>4, <1>5
    <3>2. w[i + (j - d - 1)] = node[x].str[j - d - 1]
      BY <2>3 DEF n
    <3>3. u[d + 1 + (j - d - 1)] = node[x].str[j - d - 1]
      BY <2>3, <1>4
    <3> QED
      BY <3>1, <3>2, <3>3
  <2> QED
    BY <1>4, <2>1, <2>2, <2>3
<1>9. Reached(at, w, node[x].child, i + 1 + n)
  BY <1>1, <1>6, <1>7, <1>8 DEF Reached, u
<1> QED
  BY <1>1, <1>9 DEF n

-----------------------------------------------------------------------------
(* trie_find.                                                              *)

FindBody(p, f) ==
  IF p.x = NoNode THEN NoNode
  ELSE IF p.w[p.i] # node[p.x].c
    THEN f[[p EXCEPT !.x = Get(node[p.x].next)]]
  ELSE IF p.i = Len(p.w) /\ HasData(p.x) THEN p.x
  ELSE IF Down(p)
    THEN f[[p EXCEPT !.x = Get(node[p.x].child),
                     !.i = @ + 1 + Len(Piece(p.x))]]
  ELSE NoNode

(***************************************************************************)
(* A link of a node is what tnode_get makes of it.                         *)
(***************************************************************************)
LEMMA GetLinks ==
  ASSUME NEW at, NEW rank, NEW from, Shape(node, used, root, at, rank, from),
         NEW x \in Index
  PROVE  /\ Get(node[x].next) = node[x].next /\ Get(node[x].child) = node[x].child
         /\ Get(root) = root
         /\ node[x].next \in Link /\ node[x].child \in Link
         /\ Height(node[x].next, used, rank) < Height(x, used, rank)
         /\ Height(node[x].child, used, rank) < Height(x, used, rank)
<1>1. root \in used \cup {NoNode}
  BY DEF Shape
<1> QED
  BY <1>1, LinksDown DEF Get

(***************************************************************************)
(* Heights are numbers.                                                    *)
(***************************************************************************)
LEMMA HeightNat ==
  ASSUME NEW nd, NEW us, NEW rt, NEW at, NEW rank, NEW from,
         Shape(nd, us, rt, at, rank, from), NEW x \in Link
  PROVE  Height(x, us, rank) \in Nat
BY NoNodeIsNone, LinksDown DEF Height

(***************************************************************************)
(* A place behind a piece is a place.                                      *)
(***************************************************************************)
LEMMA PlaceAfter ==
  ASSUME NEW at, NEW rank, NEW from, Shape(node, used, root, at, rank, from),
         NEW x \in Index, NEW i \in Pos
  PROVE  i + 1 + Len(Piece(x)) \in Pos
<1>1. Len(Piece(x)) \in Nat
  BY PieceIsStr
<1> QED
  BY <1>1 DEF Pos

(***************************************************************************)
(* The recursion of trie_find_i ends.                                      *)
(***************************************************************************)
LEMMA FindUnfolds ==
  ASSUME NEW at, NEW rank, NEW from, Shape(node, used, root, at, rank, from)
  PROVE  FindFrom = [p \in Place |-> FindBody(p, FindFrom)]
<1>1. ASSUME NEW p \in Place, p.x # NoNode
      PROVE  /\ [p EXCEPT !.x = Get(node[p.x].next)] \in Place
             /\ [p EXCEPT !.x = Get(node[p.x].child), !.i = @ + 1 + Len(Piece(p.x))] \in Place
             /\ Height(Get(node[p.x].next), used, rank) < Height(p.x, used, rank)
             /\ Height(Get(node[p.x].child), used, rank) < Height(p.x, used, rank)
  <2>1. p.x \in Index /\ p.i \in Pos
    BY <1>1, NoNodeIsNone DEF Place
  <2>2. p.i + 1 + Len(Piece(p.x)) \in Pos
    BY <2>1, PlaceAfter
  <2>3. /\ Get(node[p.x].next) \in Link /\ Get(node[p.x].child) \in Link
        /\ Height(Get(node[p.x].next), used, rank) < Height(p.x, used, rank)
        /\ Height(Get(node[p.x].child), used, rank) < Height(p.x, used, rank)
    BY <2>1, GetLinks
  <2>4. [p EXCEPT !.x = Get(node[p.x].next)] \in Place
    BY <2>3 DEF Place
  <2>5. [p EXCEPT !.x = Get(node[p.x].child), !.i = @ + 1 + Len(Piece(p.x))] \in Place
    BY <2>2, <2>3 DEF Place
  <2> QED
    BY <2>3, <2>4, <2>5
<1> DEFINE m == [p \in Place |-> Height(p.x, used, rank)]
           F == [q \in Place \X [Place -> Link] |-> FindBody(q[1], q[2])]
<1>2. m \in [Place -> Nat]
  <2>1. ASSUME NEW p \in Place PROVE Height(p.x, used, rank) \in Nat
    BY HeightNat DEF Place
  <2> QED
    BY <2>1
<1>3. F \in [Place \X [Place -> Link] -> Link]
  <2> SUFFICES ASSUME NEW p \in Place, NEW f \in [Place -> Link]
               PROVE  FindBody(p, f) \in Link
    OBVIOUS
  <2> QED
    BY <1>1 DEF FindBody, Place, Link
<1>4. LooksBelow(Place, Link, m, F)
  <2> SUFFICES ASSUME NEW p \in Place, NEW g \in [Place -> Link], NEW h \in [Place -> Link],
                      \A q \in Place : m[q] < m[p] => g[q] = h[q]
               PROVE  FindBody(p, g) = FindBody(p, h)
    BY DEF LooksBelow
  <2>1. ASSUME p.x # NoNode
        PROVE  /\ g[[p EXCEPT !.x = Get(node[p.x].next)]]
                  = h[[p EXCEPT !.x = Get(node[p.x].next)]]
               /\ g[[p EXCEPT !.x = Get(node[p.x].child), !.i = @ + 1 + Len(Piece(p.x))]]
                  = h[[p EXCEPT !.x = Get(node[p.x].child), !.i = @ + 1 + Len(Piece(p.x))]]
    BY <1>1, <2>1 DEF Place
  <2> QED
    BY <2>1 DEF FindBody
<1>5. Solvable(Place, Link, F)
  <2>1. Link # {}
    BY DEF Link
  <2> HIDE DEF m, F
  <2> QED
    BY <1>2, <1>3, <1>4, <2>1, RecursionSolved, Zenon
<1>6. PICK f : f = [p \in Place |-> FindBody(p, f)]
  BY <1>5 DEF Solvable
<1>7. FindFrom = CHOOSE g : g = [p \in Place |-> FindBody(p, g)]
  BY DEF FindFrom, FindBody
<1> HIDE DEF m, F
<1> QED
  BY <1>6, <1>7

\* trie_find_i at x, with w[i] the character to look for.
FindAt(w, x, i) == FindFrom[[w |-> w, x |-> x, i |-> i]]

\* The piece in x is what w has behind w[i], and w is longer.
GoesOn(w, x, i) ==
  /\ i + Size(node, x) < Len(w)
  /\ \A j \in 1 .. Size(node, x) : w[i + j] = node[x].str[j]

\* What trie_find_i does at x.
FindsSo(w, x, i) ==
  /\ w[i] # node[x].c => FindAt(w, x, i) = FindAt(w, node[x].next, i)
  /\ w[i] = node[x].c /\ i = Len(w) /\ HasData(x) => FindAt(w, x, i) = x
  /\ w[i] = node[x].c /\ ~(i = Len(w) /\ HasData(x)) /\ GoesOn(w, x, i)
       => FindAt(w, x, i) = FindAt(w, node[x].child, i + 1 + Size(node, x))
  /\ w[i] = node[x].c /\ ~(i = Len(w) /\ HasData(x)) /\ ~GoesOn(w, x, i)
       => FindAt(w, x, i) = NoNode

(***************************************************************************)
(* A node that is reached, and where in the word.                          *)
(***************************************************************************)
LEMMA ReachedTypes ==
  ASSUME NEW at, NEW rank, NEW from, Shape(node, used, root, at, rank, from),
         NEW w \in Seq(Nat), NEW x \in used, NEW i, Reached(at, w, x, i)
  PROVE  /\ x \in Index /\ x # NoNode /\ rank[x] \in Nat
         /\ i \in 1 .. Len(w) /\ Len(w) \in Nat /\ i \in Nat /\ i \in Pos
<1>1. x \in Index /\ x # NoNode /\ rank[x] \in Nat
  BY NoNodeIsNone DEF Shape
<1>2. Depth(at, x) \in Nat
  BY <1>1, WordParts DEF WordIs
<1>3. Len(w) \in Nat
  OBVIOUS
<1> QED
  BY <1>1, <1>2, <1>3 DEF Reached, Pos

(***************************************************************************)
(* A place further down the same word.                                     *)
(***************************************************************************)
LEMMA PlaceMoved ==
  ASSUME NEW p \in Place, NEW x \in Link, NEW i \in Pos
  PROVE  [p EXCEPT !.x = x, !.i = i] = [w |-> p.w, x |-> x, i |-> i]
<1> DEFINE q == [p EXCEPT !.x = x, !.i = i]
<1>1. q \in Place /\ q.w = p.w /\ q.x = x /\ q.i = i
  BY DEF Place
<1> HIDE DEF q
<1>2. q = [w |-> p.w, x |-> x, i |-> i]
  BY <1>1 DEF Place
<1> QED
  BY <1>2 DEF q

(***************************************************************************)
(* When the piece in x is what a word goes on with.                        *)
(***************************************************************************)
LEMMA PieceGoesOn ==
  ASSUME NEW at, NEW rank, NEW from, Shape(node, used, root, at, rank, from),
         NEW w \in Seq(Nat), NEW x \in Index, NEW i \in 1 .. Len(w)
  PROVE  IsPrefix(Piece(x), Rest(w, i + 1)) /\ i + Len(Piece(x)) < Len(w)
           <=> GoesOn(w, x, i)
<1> DEFINE s == Piece(x)
<1>1. Len(w) \in Nat /\ i \in Nat
  OBVIOUS
<1>2. s \in Seq(Nat) /\ s = node[x].str /\ Len(s) = Size(node, x) /\ Size(node, x) \in Nat
  BY PieceIsStr
<1> HIDE DEF s
<1>3. IsPrefix(s, Rest(w, i + 1)) <=>
        i + Len(s) <= Len(w) /\ \A j \in 1 .. Len(s) : w[i + j] = s[j]
  BY <1>2, PrefixOfRest
<1> QED
  BY <1>1, <1>2, <1>3 DEF GoesOn, s

(***************************************************************************)
(* Down says that the piece is what the word goes on with.                 *)
(***************************************************************************)
LEMMA DownGoesOn ==
  ASSUME NEW at, NEW rank, NEW from, Shape(node, used, root, at, rank, from),
         NEW w \in Seq(Nat), NEW x \in Index, NEW i \in 1 .. Len(w),
         NEW p, p.w = w, p.x = x, p.i = i
  PROVE  Down(p) <=> GoesOn(w, x, i)
<1>1. Len(w) \in Nat /\ i \in Nat /\ Size(node, x) \in Nat /\ Len(Piece(x)) = Size(node, x)
  BY PieceIsStr
<1>2. Down(p) <=> i < Len(w) /\ IsPrefix(Piece(x), Rest(w, i + 1)) /\ i + Len(Piece(x)) < Len(w)
  BY DEF Down
<1>3. GoesOn(w, x, i) => i < Len(w)
  BY <1>1 DEF GoesOn
<1> QED
  BY <1>2, <1>3, PieceGoesOn

(***************************************************************************)
(* One step of trie_find_i at a node that is reached.                      *)
(***************************************************************************)
LEMMA FindStep ==
  ASSUME NEW at, NEW rank, NEW from, Shape(node, used, root, at, rank, from),
         NEW w \in Seq(Nat), NEW x \in used, NEW i, Reached(at, w, x, i)
  PROVE  FindsSo(w, x, i)
<1> DEFINE p(y, k) == [w |-> w, x |-> y, i |-> k]
<1>1. x \in Index /\ x # NoNode /\ i \in 1 .. Len(w) /\ i \in Nat /\ i \in Pos
  BY ReachedTypes
<1>2. p(x, i) \in Place
  BY <1>1 DEF Place, Link
<1>3. FindFrom[p(x, i)] = FindBody(p(x, i), FindFrom)
  BY <1>2, FindUnfolds
<1>4. /\ Get(node[x].next) = node[x].next /\ Get(node[x].child) = node[x].child
      /\ Len(Piece(x)) = Size(node, x)
  BY <1>1, GetLinks, PieceIsStr
<1>5. [p(x, i) EXCEPT !.x = Get(node[x].next)] = p(node[x].next, i)
  BY <1>4
<1>6. [p(x, i) EXCEPT !.x = Get(node[x].child), !.i = @ + 1 + Len(Piece(x))]
        = p(node[x].child, i + 1 + Size(node, x))
  <2> DEFINE q == p(x, i)
  <2>1. q \in Place /\ q.w = w /\ q.i + 1 + Len(Piece(x)) = i + 1 + Size(node, x)
    BY <1>2, <1>4
  <2>2. Get(node[x].child) \in Link /\ q.i + 1 + Len(Piece(x)) \in Pos
    BY <1>1, GetLinks, PlaceAfter
  <2> HIDE DEF q
  <2>3. [q EXCEPT !.x = Get(node[x].child), !.i = @ + 1 + Len(Piece(x))]
          = [w |-> q.w, x |-> Get(node[x].child), i |-> q.i + 1 + Len(Piece(x))]
    BY <2>1, <2>2, PlaceMoved
  <2> QED
    BY <1>4, <2>1, <2>3 DEF q
<1>7. Down(p(x, i)) <=> GoesOn(w, x, i)
  BY <1>1, DownGoesOn
<1>8. FindFrom[p(x, i)] =
        IF w[i] # node[x].c THEN FindFrom[p(node[x].next, i)]
        ELSE IF i = Len(w) /\ HasData(x) THEN x
        ELSE IF GoesOn(w, x, i) THEN FindFrom[p(node[x].child, i + 1 + Size(node, x))]
        ELSE NoNode
  BY <1>1, <1>3, <1>5, <1>6, <1>7 DEF FindBody
<1> QED
  BY <1>8 DEF FindsSo, FindAt

(***************************************************************************)
(* There is nothing to find behind the last link.                          *)
(***************************************************************************)
LEMMA FindNone ==
  ASSUME NEW at, NEW rank, NEW from, Shape(node, used, root, at, rank, from),
         NEW w \in Seq(Nat), NEW i \in Pos
  PROVE  FindAt(w, NoNode, i) = NoNode
<1>1. [w |-> w, x |-> NoNode, i |-> i] \in Place
  BY DEF Place, Link
<1> QED
  BY <1>1, FindUnfolds DEF FindBody, FindAt

(***************************************************************************)
(* What trie_find_i finds is a node with data that ends the word.          *)
(***************************************************************************)
LEMMA FindSound ==
  ASSUME NEW at, NEW rank, NEW from, Shape(node, used, root, at, rank, from),
         NEW w \in Seq(Nat), NEW x \in used, NEW i, Reached(at, w, x, i)
  PROVE  LET y == FindAt(w, x, i) IN
         y # NoNode => y \in used /\ HasData(y) /\ Word(node, at, y) = w
<1> DEFINE Right(y) == y # NoNode => y \in used /\ HasData(y) /\ Word(node, at, y) = w
           T == {n \in Nat : \A z \in used : \A k \in Nat :
                   rank[z] = n /\ Reached(at, w, z, k) => Right(FindAt(w, z, k))}
<1>1. used \subseteq Index /\ rank \in [Index -> Nat] /\ Len(w) \in Nat
  BY DEF Shape
<1>2. ASSUME NEW z \in used, NEW k, Reached(at, w, z, k)
      PROVE  k \in Pos /\ k \in Nat /\ WordIs(node, at, z) /\ Size(node, z) \in Nat
  <2>1. WordIs(node, at, z)
    BY <1>1, WordParts
  <2> QED
    BY SMTT(30), <1>2, <2>1 DEF WordIs, Reached, Pos
<1>3. ASSUME NEW n \in Nat, \A k \in Nat : k < n => k \in T
      PROVE  n \in T
  <2> SUFFICES ASSUME NEW z \in used, NEW k \in Nat, rank[z] = n, Reached(at, w, z, k)
               PROVE  Right(FindAt(w, z, k))
    OBVIOUS
  <2>0. FindsSo(w, z, k)
    BY FindStep
  <2>1. k \in Pos /\ WordIs(node, at, z) /\ Size(node, z) \in Nat
    BY <1>2
  <2>2. CASE w[k] # node[z].c
    <3>1. FindAt(w, z, k) = FindAt(w, node[z].next, k)
      BY <2>0, <2>2 DEF FindsSo
    <3>2. CASE node[z].next = NoNode
      BY <3>1, <3>2, <2>1, FindNone
    <3>3. CASE node[z].next # NoNode
      <4>1. node[z].next \in used /\ rank[node[z].next] < n /\ Reached(at, w, node[z].next, k)
        BY <3>3, WalkNext
      <4>2. rank[node[z].next] \in Nat
        BY <4>1, <1>1
      <4> QED
        BY <3>1, <4>1, <4>2, <1>3
    <3> QED
      BY <3>2, <3>3
  <2>3. CASE w[k] = node[z].c /\ k = Len(w) /\ HasData(z)
    <3>1. FindAt(w, z, k) = z
      BY <2>0, <2>3 DEF FindsSo
    <3>2. Size(node, z) = 0
      BY <1>1, <2>3, PieceIsStr
    <3>3. /\ Word(node, at, z) \in Seq(Nat) /\ Depth(at, z) \in Nat
          /\ Len(Word(node, at, z)) = Depth(at, z) + 1
          /\ \A j \in 1 .. Depth(at, z) : Word(node, at, z)[j] = at[z][j]
          /\ Word(node, at, z)[Depth(at, z) + 1] = node[z].c
      BY <2>1, <3>2 DEF WordIs
    <3>4. Len(w) = Depth(at, z) + 1 /\ \A j \in 1 .. Depth(at, z) : w[j] = at[z][j]
      BY <2>3 DEF Reached
    <3>5. ASSUME NEW j \in 1 .. Len(w) PROVE Word(node, at, z)[j] = w[j]
      <4>1. j \in 1 .. Depth(at, z) \/ j = Depth(at, z) + 1
        BY <3>3, <3>4
      <4>2. CASE j \in 1 .. Depth(at, z)
        BY <4>2, <3>3, <3>4
      <4>3. CASE j = Depth(at, z) + 1
        BY <4>3, <2>3, <3>3, <3>4
      <4> QED
        BY <4>1, <4>2, <4>3
    <3>6. Word(node, at, z) = w
      BY <3>3, <3>4, <3>5, SeqEqual
    <3> QED
      BY <2>3, <3>1, <3>6
  <2>4. CASE /\ w[k] = node[z].c /\ ~(k = Len(w) /\ HasData(z))
             /\ GoesOn(w, z, k)
    <3>1. FindAt(w, z, k) = FindAt(w, node[z].child, k + 1 + Size(node, z))
      BY <2>0, <2>4 DEF FindsSo
    <3>2. k + 1 + Size(node, z) \in Pos /\ k + 1 + Size(node, z) \in Nat
      BY <2>1 DEF Pos
    <3>3. CASE node[z].child = NoNode
      BY <3>1, <3>2, <3>3, FindNone
    <3>4. CASE node[z].child # NoNode
      <4>1. /\ node[z].child \in used /\ rank[node[z].child] < n
            /\ Reached(at, w, node[z].child, k + 1 + Size(node, z))
        BY <2>4, <3>4, <1>1, WalkDown DEF GoesOn
      <4>2. rank[node[z].child] \in Nat
        BY <4>1, <1>1
      <4> QED
        BY <3>1, <3>2, <4>1, <4>2, <1>3
    <3> QED
      BY <3>3, <3>4
  <2>5. CASE /\ w[k] = node[z].c /\ ~(k = Len(w) /\ HasData(z))
             /\ ~GoesOn(w, z, k)
    <3>1. FindAt(w, z, k) = NoNode
      BY <2>0, <2>5 DEF FindsSo
    <3> QED
      BY <3>1
  <2> QED
    BY <2>2, <2>3, <2>4, <2>5
<1>4. T = Nat
  <2> HIDE DEF T
  <2>1. T \in SUBSET Nat
    BY DEF T
  <2> QED
    BY <1>3, <2>1, NatInductBelow
<1>5. i \in Nat /\ rank[x] \in Nat
  BY <1>1, <1>2
<1> QED
  BY <1>4, <1>5

(***************************************************************************)
(* A node with data is found from every node that it is below, with the    *)
(* word that it ends.                                                      *)
(***************************************************************************)
LEMMA FindComplete ==
  ASSUME NEW at, NEW rank, NEW from, Shape(node, used, root, at, rank, from),
         NEW B, IsBelow(B, node), NEW y \in used, HasData(y),
         NEW x \in used, y \in B[x]
  PROVE  FindAt(Word(node, at, y), x, Depth(at, x) + 1) = y
<1> DEFINE w == Word(node, at, y)
           T == {n \in Nat : \A z \in used : rank[z] = n /\ y \in B[z]
                   => FindAt(w, z, Depth(at, z) + 1) = y}
<1>1. used \subseteq Index /\ rank \in [Index -> Nat] /\ B[NoNode] = {}
  BY DEF Shape, IsBelow
<1>2. WordIs(node, at, y)
  BY <1>1, WordParts
<1>3. w \in Seq(Nat) /\ Len(w) \in Nat
  BY <1>2 DEF WordIs
<1>4. ASSUME NEW n \in Nat, \A k \in Nat : k < n => k \in T
      PROVE  n \in T
  <2> SUFFICES ASSUME NEW z \in used, rank[z] = n, y \in B[z]
               PROVE  FindAt(w, z, Depth(at, z) + 1) = y
    OBVIOUS
  <2> DEFINE k == Depth(at, z) + 1
  <2>1. WordIs(node, at, z) /\ WordBelow(node, at, z, y)
    BY <1>1, WordParts, BelowWords
  <2>2. k \in Nat /\ Depth(at, z) \in Nat /\ Size(node, z) \in Nat
    BY <2>1 DEF WordIs
  <2>3. Reached(at, w, z, k)
    BY <2>1, <2>2, <1>3 DEF WordBelow, Reached
  <2>4. B[z] = {z} \cup B[node[z].next] \cup B[node[z].child]
    BY <1>1 DEF IsBelow
  <2>5. FindsSo(w, z, k)
    <3> HIDE DEF w, k
    <3> QED
      BY <1>3, <2>3, FindStep
  <2>6. CASE y = z
    <3>1. Size(node, z) = 0
      BY <1>1, <2>6, PieceIsStr
    <3>2. w[k] = node[z].c /\ Len(w) = k
      BY <2>1, <2>2, <2>6, <3>1 DEF WordIs
    <3> QED
      BY <2>5, <2>6, <3>2 DEF FindsSo
  <2>7. CASE y \in B[node[z].next]
    <3>1. node[z].c < w[k] /\ node[z].c \in Nat
      BY <2>1, <2>7, WordsBeside DEF WordIs
    <3>2. FindAt(w, z, k) = FindAt(w, node[z].next, k)
      <4>1. w[k] # node[z].c
        BY <3>1
      <4> QED
        BY <2>5, <4>1 DEF FindsSo
    <3>3. node[z].next # NoNode
      BY <2>7, <1>1
    <3>4. /\ node[z].next \in used /\ rank[node[z].next] < n
          /\ Reached(at, w, node[z].next, k)
      BY <2>3, <3>3, WalkNext
    <3>5. rank[node[z].next] \in Nat /\ k = Depth(at, node[z].next) + 1
      BY <1>1, <3>4 DEF Reached
    <3> QED
      BY <2>7, <3>2, <3>4, <3>5, <1>4
  <2>8. CASE y \in B[node[z].child]
    <3> DEFINE u == Word(node, at, z)
    <3>1. Len(u) < Len(w) /\ \A j \in 1 .. Len(u) : w[j] = u[j]
      BY <2>8, WordsBeside
    <3>2. /\ Len(u) = k + Size(node, z) /\ u[k] = node[z].c
          /\ \A j \in 1 .. Size(node, z) : u[k + j] = node[z].str[j]
      BY <2>1, <2>2 DEF WordIs
    <3> HIDE DEF u
    <3>3. k \in 1 .. Len(u) /\ \A j \in 1 .. Size(node, z) : k + j \in 1 .. Len(u)
      BY <2>2, <3>2
    <3>4. /\ w[k] = node[z].c /\ k + Size(node, z) < Len(w)
          /\ \A j \in 1 .. Size(node, z) : w[k + j] = node[z].str[j]
      BY <3>1, <3>2, <3>3
    <3>5. k # Len(w)
      BY <2>2, <3>4, <1>3
    <3>6. FindAt(w, z, k) = FindAt(w, node[z].child, k + 1 + Size(node, z))
      BY <2>5, <3>4, <3>5 DEF FindsSo, GoesOn
    <3>7. node[z].child # NoNode
      BY <2>8, <1>1
    <3>8. /\ node[z].child \in used /\ rank[node[z].child] < n
          /\ Reached(at, w, node[z].child, k + 1 + Size(node, z))
      <4> HIDE DEF w, k
      <4> QED
        BY <2>3, <3>4, <3>7, <1>3, WalkDown
    <3>9. rank[node[z].child] \in Nat
          /\ k + 1 + Size(node, z) = Depth(at, node[z].child) + 1
      BY <1>1, <3>8 DEF Reached
    <3> QED
      BY <2>8, <3>6, <3>8, <3>9, <1>4
  <2> QED
    BY <2>4, <2>6, <2>7, <2>8
<1>5. T = Nat
  <2> HIDE DEF T
  <2>1. T \in SUBSET Nat
    BY DEF T
  <2> QED
    BY <1>4, <2>1, NatInductBelow
<1> QED
  BY <1>1, <1>5

(***************************************************************************)
(* The node that is found for a word is the one with data that ends it.    *)
(***************************************************************************)
LEMMA FindNodeIs ==
  ASSUME NEW at, NEW rank, NEW from, Shape(node, used, root, at, rank, from),
         NEW w \in Seq(Nat), w # <<>>
  PROVE  /\ FindNode(w) # NoNode =>
              FindNode(w) \in used /\ HasData(FindNode(w)) /\ Word(node, at, FindNode(w)) = w
         /\ \A y \in used : HasData(y) /\ Word(node, at, y) = w => FindNode(w) = y
<1>1. used \subseteq Index /\ NoNode \notin used
  BY NoNodeIsNone DEF Shape
<1>2. FindNode(w) = FindAt(w, root, 1)
  <2>1. Get(root) = root
    BY DEF Shape, Get
  <2> QED
    BY <2>1 DEF FindNode, FindAt
<1>3. PICK B : IsBelow(B, node)
  BY BelowExists
<1>4. B[root] = used /\ B[NoNode] = {}
  BY <1>3, BelowAll DEF IsBelow
<1>5. CASE root = NoNode
  <2>1. FindNode(w) = NoNode
    BY <1>2, <1>5, FindNone DEF Pos
  <2>2. used = {}
    BY <1>4, <1>5
  <2> QED
    BY <2>1, <2>2
<1>6. CASE root \in used
  <2>1. Depth(at, root) = 0
    BY <1>1, <1>6 DEF Shape, Depth
  <2>2. Len(w) \in Nat \ {0}
    BY EmptySeq
  <2>3. Reached(at, w, root, 1)
    BY <2>1, <2>2 DEF Reached
  <2>4. FindNode(w) # NoNode =>
          /\ FindNode(w) \in used /\ HasData(FindNode(w))
          /\ Word(node, at, FindNode(w)) = w
    BY <1>2, <1>6, <2>3, FindSound
  <2>5. ASSUME NEW y \in used, HasData(y), Word(node, at, y) = w
        PROVE  FindNode(w) = y
    BY <1>2, <1>3, <1>4, <1>6, <2>1, <2>5, FindComplete
  <2> QED
    BY <2>4, <2>5
<1> QED
  BY <1>5, <1>6 DEF Shape

(***************************************************************************)
(* A trie finds exactly what it holds.                                     *)
(***************************************************************************)
LEMMA FindsHeld ==
  ASSUME NEW at, NEW rank, NEW from, Shape(node, used, root, at, rank, from),
         Holds(node, used, at, kv), NEW w \in Seq(Nat), w # <<>>
  PROVE  Find(w) = IF w \in DOMAIN kv THEN kv[w] ELSE NoData
<1>1. NoNode \notin used
  BY NoNodeIsNone DEF Shape
<1>2. FindNode(w) # NoNode =>
        FindNode(w) \in used /\ HasData(FindNode(w)) /\ Word(node, at, FindNode(w)) = w
  BY FindNodeIs
<1>3. ASSUME NEW y \in used, HasData(y), Word(node, at, y) = w PROVE FindNode(w) = y
  BY <1>3, FindNodeIs
<1>4. CASE w \in DOMAIN kv
  <2>1. PICK y \in used : HasData(y) /\ Word(node, at, y) = w
    BY <1>4 DEF Holds, HasData
  <2>2. FindNode(w) = y
    BY <1>3, <2>1
  <2> QED
    BY <1>1, <1>4, <2>1, <2>2 DEF Find, Holds, HasData
<1>5. CASE w \notin DOMAIN kv
  <2>1. FindNode(w) = NoNode
    BY <1>2, <1>5 DEF Holds, HasData
  <2> QED
    BY <1>5, <2>1 DEF Find
<1> QED
  BY <1>4, <1>5

-----------------------------------------------------------------------------
(* _trie_insert_decide.                                                    *)

\* s and t agree on their first n characters, and no further.
Agree(s, t, n) ==
  /\ n \in Nat /\ n <= Len(s) /\ n <= Len(t)
  /\ \A j \in 1 .. n : s[j] = t[j]
  /\ n < Len(s) /\ n < Len(t) => s[n + 1] # t[n + 1]

(***************************************************************************)
(* When the beginning of a sequence is that of another one.                *)
(***************************************************************************)
LEMMA PrefixOfBoth ==
  ASSUME NEW s \in Seq(Nat), NEW t \in Seq(Nat), NEW j \in 1 .. Len(s)
  PROVE  IsPrefix(SubSeq(s, 1, j), t) <=> j <= Len(t) /\ \A k \in 1 .. j : s[k] = t[k]
<1>1. Len(s) \in Nat /\ Len(t) \in Nat /\ j \in Nat
  OBVIOUS
<1> DEFINE u == SubSeq(s, 1, j)
<1>2. u \in Seq(Nat) /\ Len(u) = j /\ \A k \in 1 .. j : u[k] = s[k]
  <2>1. \A k \in 1 .. j : s[k] \in Nat
    BY <1>1
  <2>2. /\ u \in Seq(Nat)
        /\ Len(u) = IF 1 <= j THEN j - 1 + 1 ELSE 0
        /\ \A k \in 1 .. j - 1 + 1 : u[k] = s[1 + k - 1]
    BY <1>1, <2>1, SubSeqProperties
  <2> QED
    BY <1>1, <2>2
<1> HIDE DEF u
<1>3. IsPrefix(u, t) <=> j <= Len(t) /\ SubSeq(u, 1, j) = SubSeq(t, 1, j)
  BY <1>2 DEF IsPrefix
<1>4. SubSeq(u, 1, j) = u
  BY <1>2, SubSeqFull
<1>5. ASSUME j <= Len(t)
      PROVE  u = SubSeq(t, 1, j) <=> \A k \in 1 .. j : s[k] = t[k]
  <2>1. \A k \in 1 .. j : t[k] \in Nat
    BY <1>1, <1>5
  <2>2. /\ SubSeq(t, 1, j) \in Seq(Nat) /\ Len(SubSeq(t, 1, j)) = j
        /\ \A k \in 1 .. j : SubSeq(t, 1, j)[k] = t[k]
    <3>1. /\ SubSeq(t, 1, j) \in Seq(Nat)
          /\ Len(SubSeq(t, 1, j)) = IF 1 <= j THEN j - 1 + 1 ELSE 0
          /\ \A k \in 1 .. j - 1 + 1 : SubSeq(t, 1, j)[k] = t[1 + k - 1]
      BY <1>1, <2>1, SubSeqProperties
    <3> QED
      BY <1>1, <3>1
  <2>3. (\A k \in 1 .. j : SubSeq(t, 1, j)[k] = u[k]) => u = SubSeq(t, 1, j)
    BY <1>2, <2>2, SeqEqual
  <2> QED
    BY <1>2, <2>2, <2>3
<1> QED
  BY <1>3, <1>4, <1>5 DEF u

(***************************************************************************)
(* Common counts the characters on which two sequences agree.              *)
(***************************************************************************)
LEMMA CommonAgrees ==
  ASSUME NEW s \in Seq(Nat), NEW t \in Seq(Nat)
  PROVE  Agree(s, t, Common(s, t))
<1>1. Len(s) \in Nat /\ Len(t) \in Nat /\ DOMAIN s = 1 .. Len(s) /\ DOMAIN t = 1 .. Len(t)
  OBVIOUS
<1> DEFINE J == {j \in DOMAIN s \cap DOMAIN t : IsPrefix(SubSeq(s, 1, j), t)}
           M == J \cup {0}
<1>2. \A j \in J : j \in 1 .. Len(s) /\ j \in 1 .. Len(t) /\ \A k \in 1 .. j : s[k] = t[k]
  <2> SUFFICES ASSUME NEW j \in J
               PROVE  j \in 1 .. Len(s) /\ j \in 1 .. Len(t) /\ \A k \in 1 .. j : s[k] = t[k]
    OBVIOUS
  <2>1. j \in 1 .. Len(s) /\ j \in 1 .. Len(t) /\ IsPrefix(SubSeq(s, 1, j), t)
    BY <1>1
  <2> QED
    BY <2>1, PrefixOfBoth
<1>3. \A j \in 1 .. Len(s) : j <= Len(t) /\ (\A k \in 1 .. j : s[k] = t[k]) => j \in J
  <2> SUFFICES ASSUME NEW j \in 1 .. Len(s), j <= Len(t), \A k \in 1 .. j : s[k] = t[k]
               PROVE  j \in J
    OBVIOUS
  <2>1. j \in DOMAIN s \cap DOMAIN t
    BY <1>1
  <2>2. IsPrefix(SubSeq(s, 1, j), t)
    BY PrefixOfBoth
  <2> QED
    BY <2>1, <2>2
<1>4. Common(s, t) = Cardinality(J)
  BY DEF Common
<1> HIDE DEF J
<1>5. M \in SUBSET Nat /\ M # {} /\ \A n \in M : n <= Len(s)
  BY <1>1, <1>2
<1>6. PICK m \in M : \A n \in M : n <= m
  <2> HIDE DEF M
  <2> QED
    BY <1>1, <1>5, GreatestNat
<1>7. m \in Nat /\ m <= Len(s) /\ m <= Len(t) /\ \A k \in 1 .. m : s[k] = t[k]
  BY <1>1, <1>2, <1>6
<1>8. J = 1 .. m
  <2>1. \A j \in J : j \in 1 .. m
    BY <1>2, <1>6, <1>7, <1>1
  <2>2. \A j \in 1 .. m : j \in J
    BY <1>1, <1>3, <1>7
  <2> QED
    BY <2>1, <2>2
<1>9. Cardinality(1 .. m) = m
  <2>1. Cardinality(1 .. m) = IF 1 > m THEN 0 ELSE m - 1 + 1
    BY <1>7, FS_Interval
  <2> QED
    BY <1>7, <2>1
<1>10. ASSUME m < Len(s), m < Len(t), s[m + 1] = t[m + 1] PROVE FALSE
  <2>1. m + 1 \in 1 .. Len(s) /\ m + 1 <= Len(t)
    BY <1>1, <1>7, <1>10
  <2>2. ASSUME NEW k \in 1 .. m + 1 PROVE s[k] = t[k]
    <3>1. k \in 1 .. m \/ k = m + 1
      BY <1>7
    <3> QED
      BY <3>1, <1>7, <1>10
  <2>3. m + 1 \in J
    BY <1>3, <2>1, <2>2
  <2> QED
    BY <1>7, <1>8, <2>3
<1> QED
  BY <1>4, <1>7, <1>8, <1>9, <1>10 DEF Agree

\* The link of p that f names; without p, the root.
LinkAt(nd, rt, p, f) ==
  IF p = NoNode THEN rt ELSE IF f = "next" THEN nd[p].next ELSE nd[p].child

\* The word that comes before the nodes at this link.
BaseAt(nd, at, p, f) ==
  IF p = NoNode THEN <<>> ELSE IF f = "next" THEN at[p] ELSE Word(nd, at, p)

\* A node with the character w[i] belongs at this link.
Fits(nd, us, rt, at, w, i, p, f) ==
  /\ p \in us \cup {NoNode}
  /\ BaseAt(nd, at, p, f) \in Seq(Nat)
  /\ i = Len(BaseAt(nd, at, p, f)) + 1 /\ i <= Len(w)
  /\ \A j \in 1 .. Len(BaseAt(nd, at, p, f)) : w[j] = BaseAt(nd, at, p, f)[j]
  /\ p # NoNode /\ f = "next" => nd[p].c < w[i]
  /\ LinkAt(nd, rt, p, f) # NoNode => w[i] < nd[LinkAt(nd, rt, p, f)].c

\* x is reached on the way along w at i, and n characters of its piece agree with w.
AgreesUpTo(at, w, x, i, n) ==
  /\ x \in used /\ Reached(at, w, x, i) /\ w[i] = node[x].c
  /\ n \in 0 .. Size(node, x)
  /\ \A j \in 1 .. n : w[i + j] = node[x].str[j]

\* e is the right thing to do to insert w.
RightDecision(at, w, e) ==
  \/ e.act = "PREV" /\ e.prev # NoNode /\ Fits(node, used, root, at, w, e.i, e.prev, "next")
  \/ e.act = "PARENT" /\ Fits(node, used, root, at, w, e.i, e.parent, "child")
  \/ /\ e.act = "CHILD" /\ e.x # NoNode /\ node[e.x].child = NoNode
     /\ Fits(node, used, root, at, w, e.i, e.x, "child")
  \/ /\ e.act = "SET" /\ e.x \in used /\ node[e.x].str = <<>>
     /\ Word(node, at, e.x) = w
  \/ /\ e.act = "SPLIT_0_SET" /\ Size(node, e.x) > 0
     /\ AgreesUpTo(at, w, e.x, Len(w), 0)
  \/ /\ e.act = "SPLIT_N_CHILD" /\ e.n > 0
     /\ \E i \in Nat : AgreesUpTo(at, w, e.x, i, e.n) /\ i + e.n = Len(w)
  \/ /\ e.act = "SPLIT_N_NEXT" /\ e.n < Size(node, e.x)
     /\ \E i \in Nat : /\ AgreesUpTo(at, w, e.x, i, e.n)
                       /\ e.i = i + e.n + 1 /\ e.i <= Len(w)
                       /\ w[e.i] # node[e.x].str[e.n + 1]

DecideBody(at, f) ==
  IF at.x = NoNode THEN Decided("FAILURE", at.x, at.prev, at.parent, at.i, 0)
  ELSE IF at.w[at.i] < node[at.x].c
    THEN Here(at, IF at.prev # NoNode THEN "PREV" ELSE "PARENT", at.i)
  ELSE IF at.w[at.i] > node[at.x].c
    THEN IF node[at.x].next # NoNode THEN f[Beside(at)]
         ELSE Decided("PREV", at.x, at.x, at.parent, at.i, 0)
  ELSE IF at.i = Len(at.w)
    THEN Here(at, IF node[at.x].str # <<>> THEN "SPLIT_0_SET" ELSE "SET", at.i)
  ELSE IF at.i + Agreeing(at) = Len(at.w)
    THEN Here(at, "SPLIT_N_CHILD", at.i + Agreeing(at))
  ELSE IF Agreeing(at) < Len(Piece(at.x))
    THEN Here(at, "SPLIT_N_NEXT", at.i + Agreeing(at) + 1)
  ELSE IF Get(node[at.x].child) # NoNode THEN f[Below(at)]
  ELSE Here(at, "CHILD", at.i + Agreeing(at) + 1)

\* The decisions that there are.
Decisions ==
  [act : {"ROOT", "PREV", "PARENT", "CHILD", "SET", "SPLIT_0_SET", "SPLIT_N_CHILD",
          "SPLIT_N_NEXT", "FAILURE"},
   x : Link, prev : Link, parent : Link, i : Nat, n : Nat]

\* n characters of the piece of x, and no more, are what w has behind w[i].
AgreeingIs(w, x, i, n) ==
  /\ n \in Nat /\ n <= Size(node, x) /\ i + n <= Len(w)
  /\ \A j \in 1 .. n : w[i + j] = node[x].str[j]
  /\ n < Size(node, x) /\ i + n < Len(w) => w[i + n + 1] # node[x].str[n + 1]

(***************************************************************************)
(* What agrees lies within the piece and within the word.                  *)
(***************************************************************************)
LEMMA AgreeingParts ==
  ASSUME NEW at, NEW rank, NEW from, Shape(node, used, root, at, rank, from),
         NEW x \in Index, NEW w \in Seq(Nat), NEW i \in 1 .. Len(w),
         NEW p, p.w = w, p.x = x, p.i = i
  PROVE  AgreeingIs(w, x, i, Agreeing(p))
<1> DEFINE n == Agreeing(p)
           s == Piece(x)
           t == Rest(w, i + 1)
<1>1. Len(w) \in Nat /\ i \in Nat /\ i + 1 \in 1 .. Len(w) + 1
  OBVIOUS
<1>2. s \in Seq(Nat) /\ s = node[x].str /\ Len(s) = Size(node, x) /\ Size(node, x) \in Nat
  BY PieceIsStr
<1>3. /\ t \in Seq(Nat) /\ Len(t) = Len(w) - (i + 1) + 1
      /\ \A j \in 1 .. Len(w) - (i + 1) + 1 : t[j] = w[i + 1 + j - 1]
  BY <1>1, RestParts
<1>4. n = Common(s, t)
  BY DEF Agreeing
<1> HIDE DEF n, s, t
<1>5. Agree(s, t, n)
  BY <1>2, <1>3, <1>4, CommonAgrees
<1>6. n \in Nat /\ n <= Size(node, x) /\ n <= Len(w) - i
  BY <1>1, <1>2, <1>3, <1>5 DEF Agree
<1>7. \A j \in Nat : j >= 1 /\ j <= Len(w) - i => t[j] = w[i + j]
  <2> SUFFICES ASSUME NEW j \in Nat, j >= 1, j <= Len(w) - i PROVE t[j] = w[i + j]
    OBVIOUS
  <2>1. j \in 1 .. Len(w) - (i + 1) + 1 /\ i + 1 + j - 1 = i + j
    BY <1>1
  <2> QED
    BY <1>3, <2>1
<1>8. ASSUME NEW j \in 1 .. n PROVE w[i + j] = node[x].str[j]
  <2>1. s[j] = t[j]
    BY <1>5 DEF Agree
  <2>2. t[j] = w[i + j]
    BY <1>1, <1>6, <1>7
  <2> QED
    BY <1>2, <2>1, <2>2
<1>9. ASSUME n < Size(node, x), i + n < Len(w) PROVE w[i + n + 1] # node[x].str[n + 1]
  <2>1. s[n + 1] # t[n + 1]
    BY <1>1, <1>2, <1>3, <1>5, <1>6, <1>9 DEF Agree
  <2>2. n + 1 \in Nat /\ n + 1 >= 1 /\ n + 1 <= Len(w) - i /\ i + (n + 1) = i + n + 1
    BY <1>1, <1>6, <1>9
  <2>3. t[n + 1] = w[i + (n + 1)]
    BY <1>7, <2>2
  <2> QED
    BY <1>2, <2>1, <2>2, <2>3
<1>10. i + n <= Len(w)
  BY <1>1, <1>6
<1> QED
  BY <1>6, <1>8, <1>9, <1>10 DEF n, AgreeingIs

(***************************************************************************)
(* The same fork at the next sibling.                                      *)
(***************************************************************************)
LEMMA ForkMoved ==
  ASSUME NEW p \in Fork, NEW x \in Link, NEW y \in Link
  PROVE  /\ [p EXCEPT !.x = x, !.prev = y]
              = [w |-> p.w, x |-> x, prev |-> y, parent |-> p.parent, i |-> p.i]
         /\ [p EXCEPT !.x = x, !.prev = y] \in Fork
<1> DEFINE q == [p EXCEPT !.x = x, !.prev = y]
           F == [w : Seq(Nat), x : Link, prev : Link, parent : Link, i : Pos]
<1>1. p \in F /\ p.i <= Len(p.w)
  BY DEF Fork
<1>2. q \in F /\ q.w = p.w /\ q.x = x /\ q.prev = y /\ q.parent = p.parent /\ q.i = p.i
  BY <1>1
<1> HIDE DEF q
<1>3. q = [w |-> p.w, x |-> x, prev |-> y, parent |-> p.parent, i |-> p.i]
  BY <1>2
<1>4. q \in Fork
  BY <1>1, <1>2 DEF Fork
<1> QED
  BY <1>3, <1>4 DEF q

(***************************************************************************)
(* The forks after a fork are forks, further down.                         *)
(***************************************************************************)
LEMMA ForksAfter ==
  ASSUME NEW at, NEW rank, NEW from, Shape(node, used, root, at, rank, from),
         NEW p \in Fork, p.x # NoNode
  PROVE  /\ Beside(p) \in Fork
         /\ Height(Beside(p).x, used, rank) < Height(p.x, used, rank)
         /\ p.i + Agreeing(p) # Len(p.w) => Below(p) \in Fork
         /\ Height(Below(p).x, used, rank) < Height(p.x, used, rank)
         /\ node[p.x].c \in Nat /\ p.w[p.i] \in Nat
         /\ Agreeing(p) \in Nat /\ p.i + Agreeing(p) <= Len(p.w)
<1>1. /\ p.x \in Index /\ p.i \in 1 .. Len(p.w) /\ p.w \in Seq(Nat) /\ p.i \in Nat
      /\ Len(p.w) \in Nat /\ p.x \in Link
  BY NoNodeIsNone DEF Fork, Pos
<1>2. /\ Get(node[p.x].next) \in Link /\ Get(node[p.x].child) \in Link
      /\ Height(Get(node[p.x].next), used, rank) < Height(p.x, used, rank)
      /\ Height(Get(node[p.x].child), used, rank) < Height(p.x, used, rank)
  BY <1>1, GetLinks
<1>3. Beside(p) \in Fork /\ Beside(p).x = Get(node[p.x].next)
  <2> DEFINE y == Get(node[p.x].next)
             z == p.x
  <2>1. y \in Link /\ z \in Link
    BY <1>1, <1>2
  <2> HIDE DEF y, z
  <2> DEFINE q == [p EXCEPT !.x = y, !.prev = z]
  <2>2. q \in Fork /\ q.x = y
    <3>1. q = [w |-> p.w, x |-> y, prev |-> z, parent |-> p.parent, i |-> p.i]
      BY <2>1, ForkMoved
    <3>2. q \in Fork
      BY <2>1, ForkMoved
    <3> HIDE DEF q
    <3>3. q.x = y
      BY <3>1
    <3> QED
      BY <3>2, <3>3
  <2> QED
    BY <2>2 DEF Beside, y, z
<1>4. Agreeing(p) \in Nat /\ p.i + Agreeing(p) <= Len(p.w)
  <2>1. AgreeingIs(p.w, p.x, p.i, Agreeing(p))
    BY <1>1, AgreeingParts
  <2> QED
    BY <2>1 DEF AgreeingIs
<1>5. ASSUME p.i + Agreeing(p) # Len(p.w) PROVE Below(p) \in Fork
  <2> DEFINE l == Len(p.w)
             n == Agreeing(p)
             i == p.i
  <2>1. l \in Nat /\ n \in Nat /\ i \in Nat /\ i + n <= l /\ i + n # l
    BY <1>1, <1>4, <1>5
  <2> HIDE DEF l, n, i
  <2>2. i + n + 1 \in Pos /\ i + n + 1 <= l
    BY <2>1 DEF Pos
  <2>3. NoNode \in Link
    BY DEF Link
  <2>4. Below(p) = [w |-> p.w, x |-> Get(node[p.x].child), prev |-> NoNode, parent |-> p.x,
                    i |-> i + n + 1]
    BY DEF Below, i, n
  <2> QED
    BY <1>1, <1>2, <2>2, <2>3, <2>4 DEF Fork, l
<1>6. Below(p).x = Get(node[p.x].child)
  BY DEF Below
<1>7. node[p.x].c \in Nat /\ p.w[p.i] \in Nat
  BY <1>1, ElementOfSeq DEF Shape, Node
<1> QED
  BY <1>2, <1>3, <1>4, <1>5, <1>6, <1>7

(***************************************************************************)
(* The recursion of _trie_insert_decide ends.                              *)
(***************************************************************************)
LEMMA DecideUnfolds ==
  ASSUME NEW at, NEW rank, NEW from, Shape(node, used, root, at, rank, from)
  PROVE  DecideFrom = [p \in Fork |-> DecideBody(p, DecideFrom)]
<1> DEFINE m == [p \in Fork |-> Height(p.x, used, rank)]
           F == [q \in Fork \X [Fork -> Decisions] |-> DecideBody(q[1], q[2])]
<1>1. m \in [Fork -> Nat]
  <2>1. ASSUME NEW p \in Fork PROVE Height(p.x, used, rank) \in Nat
    BY HeightNat DEF Fork
  <2> QED
    BY <2>1
<1>2. ASSUME NEW p \in Fork, NEW f, p.x = NoNode
      PROVE  DecideBody(p, f) = Decided("FAILURE", p.x, p.prev, p.parent, p.i, 0)
  BY <1>2 DEF DecideBody
<1>3. F \in [Fork \X [Fork -> Decisions] -> Decisions]
  <2> SUFFICES ASSUME NEW p \in Fork, NEW f \in [Fork -> Decisions]
               PROVE  DecideBody(p, f) \in Decisions
    OBVIOUS
  <2>1. ASSUME NEW act \in {"ROOT", "PREV", "PARENT", "CHILD", "SET", "SPLIT_0_SET",
                            "SPLIT_N_CHILD", "SPLIT_N_NEXT", "FAILURE"},
               NEW x \in Link, NEW prev \in Link, NEW parent \in Link,
               NEW i \in Nat, NEW n \in Nat
        PROVE  Decided(act, x, prev, parent, i, n) \in Decisions
    BY DEF Decided, Decisions
  <2>2. p.x \in Link /\ p.prev \in Link /\ p.parent \in Link /\ p.i \in Nat
    BY DEF Fork, Pos
  <2>3. CASE p.x = NoNode
    BY <1>2, <2>1, <2>2, <2>3
  <2>4. CASE p.x # NoNode
    <3>1. /\ Agreeing(p) \in Nat /\ node[p.x].c \in Nat /\ p.w[p.i] \in Nat
          /\ Beside(p) \in Fork /\ (p.i + Agreeing(p) # Len(p.w) => Below(p) \in Fork)
      BY <2>4, ForksAfter
    <3>2. p.i + Agreeing(p) \in Nat /\ p.i + Agreeing(p) + 1 \in Nat
      BY <2>2, <3>1
    <3>3. \A act \in {"ROOT", "PREV", "PARENT", "CHILD", "SET", "SPLIT_0_SET",
                      "SPLIT_N_CHILD", "SPLIT_N_NEXT", "FAILURE"}, i \in Nat :
            Here(p, act, i) \in Decisions
      BY <2>1, <2>2, <3>1 DEF Here
    <3>4. /\ f[Beside(p)] \in Decisions
          /\ p.i + Agreeing(p) # Len(p.w) => f[Below(p)] \in Decisions
      BY <3>1
    <3> QED
      BY <2>1, <2>2, <2>4, <3>2, <3>3, <3>4 DEF DecideBody
  <2> QED
    BY <2>3, <2>4
<1>4. LooksBelow(Fork, Decisions, m, F)
  <2> SUFFICES ASSUME NEW p \in Fork, NEW g \in [Fork -> Decisions],
                      NEW h \in [Fork -> Decisions],
                      \A q \in Fork : m[q] < m[p] => g[q] = h[q]
               PROVE  DecideBody(p, g) = DecideBody(p, h)
    BY DEF LooksBelow
  <2>1. CASE p.x = NoNode
    BY <1>2, <2>1
  <2>2. CASE p.x # NoNode
    <3>1. node[p.x].c \in Nat /\ p.w[p.i] \in Nat
      BY <2>2, ForksAfter
    <3>2. g[Beside(p)] = h[Beside(p)]
      BY <2>2, ForksAfter
    <3>3. p.i + Agreeing(p) # Len(p.w) => g[Below(p)] = h[Below(p)]
      BY <2>2, ForksAfter
    <3> QED
      BY <2>2, <3>2, <3>3 DEF DecideBody
  <2> QED
    BY <2>1, <2>2
<1>5. Solvable(Fork, Decisions, F)
  <2>1. Decisions # {}
    <3>1. [act |-> "ROOT", x |-> NoNode, prev |-> NoNode, parent |-> NoNode, i |-> 0, n |-> 0]
            \in Decisions
      BY DEF Decisions, Link
    <3> QED
      BY <3>1
  <2> HIDE DEF m, F
  <2> QED
    BY <1>1, <1>3, <1>4, <2>1, RecursionSolved, Zenon
<1>6. PICK f : f = [p \in Fork |-> DecideBody(p, f)]
  BY <1>5 DEF Solvable
<1>7. DecideFrom = CHOOSE g : g = [p \in Fork |-> DecideBody(p, g)]
  BY DEF DecideFrom, DecideBody
<1> HIDE DEF m, F
<1> QED
  BY <1>6, <1>7

(***************************************************************************)
(* Before the next sibling of x is where a greater character belongs.      *)
(***************************************************************************)
LEMMA FitsNext ==
  ASSUME NEW at, NEW rank, NEW from, Shape(node, used, root, at, rank, from),
         NEW w \in Seq(Nat), NEW x \in used, NEW i, Reached(at, w, x, i),
         node[x].c < w[i], node[x].next # NoNode => w[i] < node[node[x].next].c
  PROVE  Fits(node, used, root, at, w, i, x, "next")
<1>1. x # NoNode /\ x \in Index
  BY ReachedTypes
<1>2. BaseAt(node, at, x, "next") = at[x] /\ LinkAt(node, root, x, "next") = node[x].next
  BY <1>1 DEF BaseAt, LinkAt
<1> DEFINE b == BaseAt(node, at, x, "next")
<1>3. b \in Seq(Nat) /\ Len(b) = Depth(at, x) /\ \A j \in 1 .. Depth(at, x) : at[x][j] = b[j]
  BY <1>1, <1>2 DEF Shape, Depth
<1> HIDE DEF b
<1>4. i = Len(b) + 1 /\ i <= Len(w) /\ \A j \in 1 .. Len(b) : w[j] = b[j]
  BY <1>3 DEF Reached
<1> QED
  BY <1>1, <1>2, <1>3, <1>4 DEF Fits, b

(***************************************************************************)
(* Before the first of the siblings is where a smaller character belongs.  *)
(***************************************************************************)
LEMMA FitsFirst ==
  ASSUME NEW at, NEW rank, NEW from, Shape(node, used, root, at, rank, from),
         NEW w \in Seq(Nat), NEW x \in used, NEW i, Reached(at, w, x, i),
         NEW p \in used \cup {NoNode}, w[i] < node[x].c,
         IF p = NoNode THEN x = root ELSE node[p].child = x
  PROVE  Fits(node, used, root, at, w, i, p, "child")
<1>1. x # NoNode /\ x \in Index
  BY ReachedTypes
<1>2. BaseAt(node, at, p, "child") = at[x] /\ LinkAt(node, root, p, "child") = x
  BY <1>1 DEF BaseAt, LinkAt, Shape, ChildOf
<1> DEFINE b == BaseAt(node, at, p, "child")
<1>3. b \in Seq(Nat) /\ Len(b) = Depth(at, x) /\ \A j \in 1 .. Depth(at, x) : at[x][j] = b[j]
  BY <1>1, <1>2 DEF Shape, Depth
<1> HIDE DEF b
<1>4. i = Len(b) + 1 /\ i <= Len(w) /\ \A j \in 1 .. Len(b) : w[j] = b[j]
  BY <1>3 DEF Reached
<1> QED
  BY <1>1, <1>2, <1>3, <1>4 DEF Fits, b

\* The word that ends with x is the beginning of w before i.
WordUpTo(at, w, x, i) ==
  /\ i = Len(Word(node, at, x)) + 1
  /\ \A j \in 1 .. Len(Word(node, at, x)) : w[j] = Word(node, at, x)[j]

(***************************************************************************)
(* What is before a piece, with the piece, is the word of a node.          *)
(***************************************************************************)
LEMMA WholePiece ==
  ASSUME NEW at, NEW rank, NEW from, Shape(node, used, root, at, rank, from),
         NEW w \in Seq(Nat), NEW x, NEW i, AgreesUpTo(at, w, x, i, Size(node, x))
  PROVE  WordUpTo(at, w, x, i + Size(node, x) + 1)
<1>1. x \in used /\ x \in Index /\ WordIs(node, at, x)
  <2>1. x \in used
    BY DEF AgreesUpTo
  <2>2. x \in Index
    BY <2>1 DEF Shape
  <2> QED
    BY <2>1, <2>2, WordParts
<1> DEFINE u == Word(node, at, x)
           d == Depth(at, x)
           n == Size(node, x)
<1>2. /\ d \in Nat /\ n \in Nat /\ Len(u) = d + 1 + n /\ u[d + 1] = node[x].c
      /\ \A j \in 1 .. d : u[j] = at[x][j]
      /\ \A j \in 1 .. n : u[d + 1 + j] = node[x].str[j]
  BY <1>1 DEF WordIs
<1>3. i = d + 1 /\ (\A j \in 1 .. d : w[j] = at[x][j]) /\ w[i] = node[x].c
      /\ \A j \in 1 .. n : w[i + j] = node[x].str[j]
  BY DEF AgreesUpTo, Reached
<1> HIDE DEF u, d, n
<1>4. ASSUME NEW j \in 1 .. Len(u) PROVE w[j] = u[j]
  <2>1. CASE j \in 1 .. d
    BY <2>1, <1>2, <1>3
  <2>2. CASE j = d + 1
    BY <2>2, <1>2, <1>3
  <2>3. CASE j - d - 1 \in 1 .. n
    <3>1. i + (j - d - 1) = j /\ d + 1 + (j - d - 1) = j
      BY <1>2, <1>3
    <3>2. w[i + (j - d - 1)] = node[x].str[j - d - 1]
      BY <2>3, <1>3
    <3>3. u[d + 1 + (j - d - 1)] = node[x].str[j - d - 1]
      BY <2>3, <1>2
    <3> QED
      BY <3>1, <3>2, <3>3
  <2> QED
    BY <1>2, <2>1, <2>2, <2>3
<1>5. i + n + 1 = Len(u) + 1
  BY <1>2, <1>3
<1> QED
  BY <1>4, <1>5 DEF WordUpTo, u, n

(***************************************************************************)
(* Below a node without a child is where the rest of a word belongs.       *)
(***************************************************************************)
LEMMA FitsBelow ==
  ASSUME NEW at, NEW rank, NEW from, Shape(node, used, root, at, rank, from),
         NEW w \in Seq(Nat), NEW x \in used, NEW i, WordUpTo(at, w, x, i), i <= Len(w),
         node[x].child = NoNode
  PROVE  Fits(node, used, root, at, w, i, x, "child")
<1>1. x # NoNode /\ x \in Index
  BY NoNodeIsNone DEF Shape
<1>2. /\ BaseAt(node, at, x, "child") = Word(node, at, x)
      /\ LinkAt(node, root, x, "child") = NoNode
  BY <1>1 DEF BaseAt, LinkAt
<1>3. Word(node, at, x) \in Seq(Nat)
  BY <1>1, WordParts DEF WordIs
<1> QED
  BY <1>1, <1>2, <1>3 DEF Fits, WordUpTo

\* The fork p is on the way along w; what is before a node with the next character
\* of w does not matter.
ForkIs(at, w, p) ==
  /\ p.w = w /\ p.x \in used /\ Reached(at, w, p.x, p.i)
  /\ p.prev # NoNode => /\ p.prev \in used /\ node[p.prev].next = p.x
                        /\ node[p.prev].c < w[p.i]
  /\ p.prev = NoNode /\ w[p.i] # node[p.x].c =>
       /\ p.parent \in used \cup {NoNode}
       /\ IF p.parent = NoNode THEN p.x = root ELSE node[p.parent].child = p.x

(***************************************************************************)
(* One step of _trie_insert_decide decides what is right, or goes on.      *)
(***************************************************************************)
LEMMA DecideStep ==
  ASSUME NEW at, NEW rank, NEW from, Shape(node, used, root, at, rank, from),
         NEW w \in Seq(Nat), NEW p \in Fork, ForkIs(at, w, p)
  PROVE  \/ RightDecision(at, w, DecideFrom[p])
         \/ \E q \in Fork : /\ ForkIs(at, w, q) /\ rank[q.x] < rank[p.x]
                            /\ DecideFrom[p] = DecideFrom[q]
<1> DEFINE x == p.x
           i == p.i
           n == Agreeing(p)
<1>1. /\ x \in used /\ x \in Index /\ x # NoNode /\ i \in 1 .. Len(w) /\ Len(w) \in Nat
      /\ i \in Nat /\ Reached(at, w, x, i) /\ p.w = w
  BY ReachedTypes DEF ForkIs
<1>2. DecideFrom[p] = DecideBody(p, DecideFrom)
  BY DecideUnfolds
<1>3. /\ node[x].c \in Nat /\ w[i] \in Nat /\ n \in Nat /\ i + n <= Len(w)
      /\ Beside(p) \in Fork /\ (i + n # Len(w) => Below(p) \in Fork)
  BY <1>1, ForksAfter
<1>4. /\ n <= Size(node, x) /\ Size(node, x) \in Nat
      /\ Piece(x) = node[x].str /\ Len(Piece(x)) = Size(node, x)
      /\ \A j \in 1 .. n : w[i + j] = node[x].str[j]
      /\ n < Size(node, x) /\ i + n < Len(w) => w[i + n + 1] # node[x].str[n + 1]
  <2>1. /\ n <= Size(node, x)
        /\ \A j \in 1 .. n : w[i + j] = node[x].str[j]
        /\ n < Size(node, x) /\ i + n < Len(w) => w[i + n + 1] # node[x].str[n + 1]
    <3>1. AgreeingIs(w, x, i, n)
      BY <1>1, AgreeingParts
    <3> QED
      BY <3>1 DEF AgreeingIs
  <2>2. Size(node, x) \in Nat /\ Piece(x) = node[x].str /\ Len(Piece(x)) = Size(node, x)
    BY <1>1, PieceIsStr
  <2> QED
    BY <2>1, <2>2
<1>5. /\ Get(node[x].next) = node[x].next /\ Get(node[x].child) = node[x].child
  BY <1>1, GetLinks
<1> HIDE DEF x, i, n
<1>6. \A act, j : Here(p, act, j) = Decided(act, x, p.prev, p.parent, j, n)
  BY DEF Here, x, n
<1>7. DecideFrom[p] =
        IF w[i] < node[x].c
          THEN Decided(IF p.prev # NoNode THEN "PREV" ELSE "PARENT", x, p.prev, p.parent, i, n)
        ELSE IF w[i] > node[x].c
          THEN IF node[x].next # NoNode THEN DecideFrom[Beside(p)]
               ELSE Decided("PREV", x, x, p.parent, i, 0)
        ELSE IF i = Len(w)
          THEN Decided(IF node[x].str # <<>> THEN "SPLIT_0_SET" ELSE "SET", x, p.prev,
                       p.parent, i, n)
        ELSE IF i + n = Len(w)
          THEN Decided("SPLIT_N_CHILD", x, p.prev, p.parent, i + n, n)
        ELSE IF n < Size(node, x)
          THEN Decided("SPLIT_N_NEXT", x, p.prev, p.parent, i + n + 1, n)
        ELSE IF node[x].child # NoNode THEN DecideFrom[Below(p)]
        ELSE Decided("CHILD", x, p.prev, p.parent, i + n + 1, n)
  BY <1>1, <1>2, <1>4, <1>5, <1>6 DEF DecideBody, x, i, n
<1>8. /\ p.prev # NoNode => /\ p.prev \in used /\ node[p.prev].next = x
                            /\ node[p.prev].c < w[i]
      /\ p.prev = NoNode /\ w[i] # node[x].c =>
           /\ p.parent \in used \cup {NoNode}
           /\ IF p.parent = NoNode THEN x = root ELSE node[p.parent].child = x
  BY DEF ForkIs, x, i
<1>9. CASE w[i] < node[x].c
  <2>1. CASE p.prev # NoNode
    <3>1. Reached(at, w, p.prev, i)
      <4>1. at[p.prev] = at[x]
        BY <1>1, <1>8, <2>1 DEF Shape, NextOf
      <4>2. Depth(at, p.prev) = Depth(at, x)
        BY <4>1 DEF Depth
      <4> QED
        BY <1>1, <4>1, <4>2 DEF Reached
    <3>2. Fits(node, used, root, at, w, i, p.prev, "next")
      BY <1>8, <1>9, <2>1, <3>1, FitsNext
    <3>3. DecideFrom[p] = Decided("PREV", x, p.prev, p.parent, i, n)
      BY <1>7, <1>9, <2>1
    <3> QED
      BY <2>1, <3>2, <3>3 DEF RightDecision, Decided
  <2>2. CASE p.prev = NoNode
    <3>0. w[i] # node[x].c
      BY <1>3, <1>9
    <3>1. Fits(node, used, root, at, w, i, p.parent, "child")
      BY <1>1, <1>8, <1>9, <2>2, <3>0, FitsFirst
    <3>2. DecideFrom[p] = Decided("PARENT", x, p.prev, p.parent, i, n)
      BY <1>7, <1>9, <2>2
    <3> QED
      BY <3>1, <3>2 DEF RightDecision, Decided
  <2> QED
    BY <2>1, <2>2
<1>10. CASE w[i] > node[x].c
  <2>0. node[x].c < w[i] /\ ~(w[i] < node[x].c)
    BY <1>3, <1>10
  <2>1. CASE node[x].next = NoNode
    <3>1. Fits(node, used, root, at, w, i, x, "next")
      BY <1>1, <2>0, <2>1, FitsNext
    <3>2. DecideFrom[p] = Decided("PREV", x, x, p.parent, i, 0)
      BY <1>7, <1>10, <2>0, <2>1
    <3> QED
      BY <1>1, <3>1, <3>2 DEF RightDecision, Decided
  <2>2. CASE node[x].next # NoNode
    <3> DEFINE q == Beside(p)
    <3>1. q = [w |-> p.w, x |-> node[x].next, prev |-> x, parent |-> p.parent, i |-> p.i]
      <4> DEFINE y == node[x].next
      <4>1. y \in Link /\ x \in Link
        BY <1>1, GetLinks, NoNodeIsNone
      <4>2. Beside(p) = [p EXCEPT !.x = y, !.prev = x]
        BY <1>5 DEF Beside, x
      <4> HIDE DEF y
      <4> QED
        BY <4>1, <4>2, ForkMoved DEF y
    <3>2. /\ node[x].next \in used /\ rank[node[x].next] < rank[x]
          /\ Reached(at, w, node[x].next, i)
      BY <1>1, <2>2, WalkNext
    <3>3. ForkIs(at, w, q)
      BY <1>1, <2>0, <3>1, <3>2 DEF ForkIs, i
    <3>4. DecideFrom[p] = DecideFrom[q]
      BY <1>7, <1>10, <2>0, <2>2
    <3>5. q \in Fork /\ q.x = node[x].next
      BY <1>3, <3>1
    <3> HIDE DEF q
    <3> QED
      BY <3>2, <3>3, <3>4, <3>5 DEF x
  <2> QED
    BY <2>1, <2>2
<1>11. CASE w[i] = node[x].c
  <2>0. ~(w[i] < node[x].c) /\ ~(w[i] > node[x].c)
    BY <1>3, <1>11
  <2>1. AgreesUpTo(at, w, x, i, 0) /\ AgreesUpTo(at, w, x, i, n)
    BY <1>1, <1>3, <1>4, <1>11 DEF AgreesUpTo
  <2>2. CASE i = Len(w) /\ node[x].str # <<>>
    <3>1. DecideFrom[p] = Decided("SPLIT_0_SET", x, p.prev, p.parent, i, n)
      BY <1>7, <2>0, <2>2
    <3>2. Size(node, x) > 0
      <4> DEFINE s == Piece(x)
      <4>1. s \in Seq(Nat) /\ s # <<>> /\ Len(s) = Size(node, x)
        BY <1>1, <1>4, <2>2, PieceIsStr
      <4> HIDE DEF s
      <4> QED
        BY <1>4, <4>1, EmptySeq
    <3> QED
      BY <2>1, <2>2, <3>1, <3>2 DEF RightDecision, Decided
  <2>3. CASE i = Len(w) /\ node[x].str = <<>>
    <3>1. DecideFrom[p] = Decided("SET", x, p.prev, p.parent, i, n)
      BY <1>7, <2>0, <2>3
    <3>2. Size(node, x) = 0
      BY <2>3 DEF Size
    <3>3. WordUpTo(at, w, x, i + Size(node, x) + 1)
      BY <2>1, <3>2, WholePiece
    <3>4. Word(node, at, x) \in Seq(Nat)
      BY <1>1, WordParts DEF WordIs
    <3> DEFINE u == Word(node, at, x)
    <3>5. u \in Seq(Nat) /\ i + 1 = Len(u) + 1 /\ \A j \in 1 .. Len(u) : w[j] = u[j]
      BY <3>2, <3>3, <3>4, <1>1 DEF WordUpTo
    <3> HIDE DEF u
    <3>6. Len(u) = Len(w)
      BY <2>3, <3>5, <1>1
    <3>7. u = w
      BY <3>5, <3>6, SeqEqual
    <3> QED
      BY <1>1, <2>3, <3>1, <3>7 DEF RightDecision, Decided, u
  <2>4. CASE i # Len(w) /\ i + n = Len(w)
    <3>1. DecideFrom[p] = Decided("SPLIT_N_CHILD", x, p.prev, p.parent, i + n, n)
      BY <1>7, <2>0, <2>4
    <3>2. n > 0
      BY <1>1, <1>3, <2>4
    <3> QED
      BY <1>1, <2>1, <2>4, <3>1, <3>2 DEF RightDecision, Decided
  <2>5. CASE i # Len(w) /\ i + n # Len(w) /\ n < Size(node, x)
    <3>1. DecideFrom[p] = Decided("SPLIT_N_NEXT", x, p.prev, p.parent, i + n + 1, n)
      BY <1>7, <2>0, <2>5
    <3>2. i + n < Len(w) /\ i + n + 1 <= Len(w)
      <4> DEFINE l == Len(w)
      <4>1. i \in Nat /\ n \in Nat /\ l \in Nat /\ i + n <= l /\ i + n # l
        BY <1>1, <1>3, <2>5
      <4> HIDE DEF l
      <4>2. i + n < l /\ i + n + 1 <= l
        BY <4>1
      <4> QED
        BY <4>2 DEF l
    <3>3. w[i + n + 1] # node[x].str[n + 1]
      BY <1>4, <2>5, <3>2
    <3> QED
      BY <1>1, <2>1, <2>5, <3>1, <3>2, <3>3 DEF RightDecision, Decided
  <2>6. CASE i # Len(w) /\ i + n # Len(w) /\ ~(n < Size(node, x))
    <3>1. n = Size(node, x)
      BY <1>3, <1>4, <2>6
    <3>2. i + n < Len(w) /\ i + n + 1 <= Len(w)
      BY <1>1, <1>3, <2>6
    <3>3. CASE node[x].child = NoNode
      <4>1. DecideFrom[p] = Decided("CHILD", x, p.prev, p.parent, i + n + 1, n)
        BY <1>7, <2>0, <2>6, <3>3
      <4>2. WordUpTo(at, w, x, i + n + 1)
        BY <2>1, <3>1, WholePiece
      <4>3. Fits(node, used, root, at, w, i + n + 1, x, "child")
        BY <1>1, <3>2, <3>3, <4>2, FitsBelow
      <4> QED
        BY <1>1, <3>3, <4>1, <4>3 DEF RightDecision, Decided
    <3>4. CASE node[x].child # NoNode
      <4> DEFINE q == Below(p)
      <4>1. q = [w |-> w, x |-> node[x].child, prev |-> NoNode, parent |-> x, i |-> i + n + 1]
        BY <1>1, <1>5 DEF Below, x, i, n
      <4>2. /\ node[x].child \in used /\ rank[node[x].child] < rank[x]
            /\ Reached(at, w, node[x].child, i + 1 + Size(node, x))
        BY <1>1, <1>4, <1>11, <3>1, <3>2, <3>4, WalkDown
      <4>3. i + 1 + Size(node, x) = i + n + 1
        BY <1>1, <1>3, <3>1
      <4>4. ForkIs(at, w, q)
        BY <1>1, <4>1, <4>2, <4>3 DEF ForkIs
      <4>5. DecideFrom[p] = DecideFrom[q]
        BY <1>7, <2>0, <2>6, <3>4
      <4>6. q \in Fork /\ q.x = node[x].child
        BY <1>3, <2>6, <4>1
      <4> HIDE DEF q
      <4> QED
        BY <4>2, <4>4, <4>5, <4>6 DEF x
    <3> QED
      BY <3>3, <3>4
  <2> QED
    BY <2>2, <2>3, <2>4, <2>5, <2>6
<1> QED
  BY <1>3, <1>9, <1>10, <1>11

(***************************************************************************)
(* _trie_insert_decide decides what is right.                              *)
(***************************************************************************)
LEMMA DecideForkRight ==
  ASSUME NEW at, NEW rank, NEW from, Shape(node, used, root, at, rank, from),
         NEW w \in Seq(Nat), NEW p \in Fork, ForkIs(at, w, p)
  PROVE  RightDecision(at, w, DecideFrom[p])
<1> DEFINE T == {n \in Nat : \A q \in Fork : ForkIs(at, w, q) /\ rank[q.x] = n
                               => RightDecision(at, w, DecideFrom[q])}
<1>1. ASSUME NEW q, ForkIs(at, w, q) PROVE rank[q.x] \in Nat
  BY <1>1 DEF ForkIs, Shape
<1>2. ASSUME NEW n \in Nat, \A k \in Nat : k < n => k \in T
      PROVE  n \in T
  <2> SUFFICES ASSUME NEW q \in Fork, ForkIs(at, w, q), rank[q.x] = n,
                      ~RightDecision(at, w, DecideFrom[q])
               PROVE  FALSE
    OBVIOUS
  <2>1. PICK r \in Fork : /\ ForkIs(at, w, r) /\ rank[r.x] < rank[q.x]
                          /\ DecideFrom[q] = DecideFrom[r]
    BY DecideStep
  <2>2. rank[r.x] \in Nat
    BY <1>1, <2>1
  <2> QED
    BY <1>2, <2>1, <2>2
<1>3. T = Nat
  <2> HIDE DEF T
  <2>1. T \in SUBSET Nat
    BY DEF T
  <2> QED
    BY <1>2, <2>1, NatInductBelow
<1>4. rank[p.x] \in Nat
  BY <1>1
<1> QED
  BY <1>3, <1>4

(***************************************************************************)
(* The decision for a word is right; without a root, a new root is.        *)
(***************************************************************************)
LEMMA DecideRight ==
  ASSUME NEW at, NEW rank, NEW from, Shape(node, used, root, at, rank, from),
         NEW w \in Seq(Nat), w # <<>>
  PROVE  \/ /\ Decide(w) = Decided("ROOT", NoNode, NoNode, NoNode, 1, 0)
            /\ root = NoNode
            /\ Fits(node, used, root, at, w, 1, NoNode, "child")
         \/ RightDecision(at, w, Decide(w))
<1>1. Len(w) \in Nat \ {0}
  BY EmptySeq
<1>2. CASE root = NoNode
  <2>1. BaseAt(node, at, NoNode, "child") = <<>> /\ LinkAt(node, root, NoNode, "child") = NoNode
    BY <1>2 DEF BaseAt, LinkAt
  <2>2. <<>> \in Seq(Nat) /\ Len(<<>>) = 0
    OBVIOUS
  <2>3. Fits(node, used, root, at, w, 1, NoNode, "child")
    <3> DEFINE b == BaseAt(node, at, NoNode, "child")
    <3>1. b \in Seq(Nat) /\ Len(b) = 0
      BY <2>1, <2>2
    <3> HIDE DEF b
    <3>2. 1 = Len(b) + 1 /\ 1 <= Len(w) /\ \A j \in 1 .. Len(b) : w[j] = b[j]
      BY <1>1, <3>1
    <3> QED
      BY <2>1, <3>1, <3>2 DEF Fits, b
  <2> QED
    BY <1>2, <2>3 DEF Decide
<1>3. CASE root # NoNode
  <2>1. root \in used /\ root \in Index /\ at[root] = <<>> /\ Get(root) = root
    BY <1>3 DEF Shape, Get
  <2>2. Reached(at, w, root, 1)
    <3>1. Depth(at, root) = 0
      BY <2>1 DEF Depth
    <3> QED
      BY <1>1, <3>1 DEF Reached
  <2> DEFINE p == ForkAt(w, root)
  <2>3. p \in Fork
    BY <1>1, <2>1 DEF ForkAt, Fork, Link, Pos
  <2>4. ForkIs(at, w, p)
    BY <2>1, <2>2 DEF ForkAt, ForkIs
  <2>5. Decide(w) = DecideFrom[p]
    BY <1>3, <2>1 DEF Decide
  <2> HIDE DEF p
  <2> QED
    BY <2>3, <2>4, <2>5, DecideForkRight
<1> QED
  BY <1>2, <1>3

-----------------------------------------------------------------------------
(* Changes of a tree.                                                      *)

\* The values that node takes.
Nodes == [Index -> {n \in Node : n.data = NoData \/ n.str = <<>>}]

(***************************************************************************)
(* The next sibling of a node is no first child.                           *)
(***************************************************************************)
LEMMA NextIsNoChild ==
  ASSUME NEW nd, NEW us, NEW rt, NEW at, NEW rank, NEW from,
         Shape(nd, us, rt, at, rank, from),
         NEW x \in us, NEW z \in us, nd[z].next # NoNode
  PROVE  nd[z].next # nd[x].child
<1> SUFFICES ASSUME nd[z].next = nd[x].child PROVE FALSE
  OBVIOUS
<1>1. z = x /\ at[nd[z].next] = at[x] /\ at[nd[z].next] = Word(nd, at, x)
  BY DEF Shape, NextOf, ChildOf
<1>2. x \in Index
  BY DEF Shape
<1>3. /\ Depth(at, x) \in Nat /\ Size(nd, x) \in Nat
      /\ Len(Word(nd, at, x)) = Depth(at, x) + 1 + Size(nd, x)
  BY <1>2, WordParts DEF WordIs
<1>4. Len(Word(nd, at, x)) = Depth(at, x)
  BY <1>1 DEF Depth
<1> QED
  BY <1>3, <1>4

(***************************************************************************)
(* A node with the same words as before holds the same.                    *)
(***************************************************************************)
LEMMA HoldsSame ==
  ASSUME NEW nd, NEW us, NEW at, NEW nd2, NEW us2, NEW at2, NEW m, Holds(nd, us, at, m),
         \A z \in us2 : nd2[z].data # NoData <=> z \in us /\ nd[z].data # NoData,
         us \subseteq us2,
         \A z \in us : nd[z].data # NoData =>
           nd2[z].data = nd[z].data /\ Word(nd2, at2, z) = Word(nd, at, z)
  PROVE  Holds(nd2, us2, at2, m)
<1> DEFINE A == {z \in us : nd[z].data # NoData}
           B == {z \in us2 : nd2[z].data # NoData}
<1>1. A = B
  OBVIOUS
<1>2. \A z \in A : Word(nd2, at2, z) = Word(nd, at, z) /\ nd2[z].data = nd[z].data
  OBVIOUS
<1>3. {Word(nd, at, z) : z \in A} = {Word(nd2, at2, z) : z \in B}
  <2> HIDE DEF A, B
  <2> QED
    BY <1>1, <1>2
<1>4. \A z \in B : m[Word(nd2, at2, z)] = nd2[z].data
  <2>1. \A z \in A : m[Word(nd, at, z)] = nd[z].data
    BY DEF Holds
  <2> HIDE DEF A, B
  <2> QED
    BY <1>1, <1>2, <2>1
<1> QED
  BY <1>3, <1>4 DEF Holds

\* m with d for w.
Also(m, w, d) == [v \in DOMAIN m \cup {w} |-> IF v = w THEN d ELSE m[v]]

(***************************************************************************)
(* With one node more that has data, the trie holds one word more, or      *)
(* other data for it.                                                      *)
(***************************************************************************)
LEMMA HoldsAlso ==
  ASSUME NEW nd, NEW us, NEW at, NEW m, Holds(nd, us, at, m),
         NEW nd2, NEW us2, NEW rt2, NEW at2, NEW rank2, NEW from2,
         Shape(nd2, us2, rt2, at2, rank2, from2),
         NEW x \in us2, nd2[x].data # NoData,
         us \subseteq us2,
         \A z \in us2 \ {x} : nd2[z].data # NoData <=> z \in us /\ nd[z].data # NoData,
         \A z \in us \ {x} : nd[z].data # NoData =>
           nd2[z].data = nd[z].data /\ Word(nd2, at2, z) = Word(nd, at, z),
         x \in us /\ nd[x].data # NoData => Word(nd2, at2, x) = Word(nd, at, x)
  PROVE  Holds(nd2, us2, at2, Also(m, Word(nd2, at2, x), nd2[x].data))
<1> DEFINE w == Word(nd2, at2, x)
           d == nd2[x].data
           m2 == Also(m, w, d)
           A == {z \in us : nd[z].data # NoData}
           B == {z \in us2 : nd2[z].data # NoData}
           old(z) == Word(nd, at, z)
           new(z) == Word(nd2, at2, z)
<1>1. B = A \cup {x}
  OBVIOUS
<1>2. \A z \in A : new(z) = old(z) /\ (z # x => nd2[z].data = nd[z].data)
  OBVIOUS
<1>3. DOMAIN m = {old(z) : z \in A} /\ \A z \in A : m[old(z)] = nd[z].data
  BY DEF Holds
<1>4. \A z \in B : new(z) = w => z = x
  BY WordsDiffer
<1>5. DOMAIN m2 = DOMAIN m \cup {w} /\ m2[w] = d
      /\ \A v \in DOMAIN m : v # w => m2[v] = m[v]
  BY DEF Also
<1>6. w = new(x) /\ d = nd2[x].data
  OBVIOUS
<1> HIDE DEF A, B, old, new, w, m2, d
<1>7. DOMAIN m2 = {new(z) : z \in B}
  BY <1>1, <1>2, <1>3, <1>5, <1>6
<1>8. ASSUME NEW z \in B PROVE m2[new(z)] = nd2[z].data
  <2>1. CASE z = x
    BY <1>5, <1>6, <2>1
  <2>2. CASE z # x
    <3>1. z \in A /\ new(z) # w /\ new(z) \in DOMAIN m
      BY <1>1, <1>2, <1>3, <1>4, <2>2
    <3> QED
      BY <1>2, <1>3, <1>5, <2>2, <3>1
  <2> QED
    BY <2>1, <2>2
<1> QED
  BY <1>7, <1>8 DEF Holds, A, B, new, m2, w, d

\* m without w.
Without(m, w) == [v \in DOMAIN m \ {w} |-> m[v]]

(***************************************************************************)
(* With one node less that has data, the trie holds one word less.         *)
(***************************************************************************)
LEMMA HoldsWithout ==
  ASSUME NEW nd, NEW us, NEW rt, NEW at, NEW rank, NEW from,
         Shape(nd, us, rt, at, rank, from), NEW m, Holds(nd, us, at, m),
         NEW x \in us, nd[x].data # NoData,
         NEW nd2, NEW us2, NEW at2,
         \A z \in us2 : nd2[z].data # NoData <=> z \in us \ {x} /\ nd[z].data # NoData,
         \A z \in us \ {x} : nd[z].data # NoData =>
           z \in us2 /\ nd2[z].data = nd[z].data /\ Word(nd2, at2, z) = Word(nd, at, z)
  PROVE  Holds(nd2, us2, at2, Without(m, Word(nd, at, x)))
<1> DEFINE w == Word(nd, at, x)
           m2 == Without(m, w)
           A == {z \in us : nd[z].data # NoData}
           B == {z \in us2 : nd2[z].data # NoData}
           old(z) == Word(nd, at, z)
           new(z) == Word(nd2, at2, z)
<1>1. B = A \ {x} /\ x \in A
  OBVIOUS
<1>2. \A z \in B : new(z) = old(z) /\ nd2[z].data = nd[z].data
  OBVIOUS
<1>3. DOMAIN m = {old(z) : z \in A} /\ \A z \in A : m[old(z)] = nd[z].data
  BY DEF Holds
<1>4. \A z \in A : old(z) = w => z = x
  BY WordsDiffer
<1>5. DOMAIN m2 = DOMAIN m \ {w} /\ \A v \in DOMAIN m : v # w => m2[v] = m[v]
  BY DEF Without
<1>6. w = old(x)
  OBVIOUS
<1> HIDE DEF A, B, old, new, w, m2
<1>7. DOMAIN m2 = {new(z) : z \in B}
  BY <1>1, <1>2, <1>3, <1>4, <1>5, <1>6
<1>8. ASSUME NEW z \in B PROVE m2[new(z)] = nd2[z].data
  <2>1. z \in A /\ old(z) # w /\ old(z) \in DOMAIN m
    BY <1>1, <1>3, <1>4
  <2> QED
    BY <1>2, <1>3, <1>5, <2>1
<1> QED
  BY <1>7, <1>8 DEF Holds, A, B, new, m2, w

\* nd2 is nd with the data d in x.
SetIs(nd, nd2, x, d) ==
  /\ nd2 \in Nodes
  /\ \A z \in Index \ {x} : nd2[z] = nd[z]
  /\ nd2[x].c = nd[x].c /\ nd2[x].str = nd[x].str
  /\ nd2[x].next = nd[x].next /\ nd2[x].child = nd[x].child
  /\ nd2[x].data = d

(***************************************************************************)
(* Data does not change a tree.                                            *)
(***************************************************************************)
LEMMA ShapeSet ==
  ASSUME NEW nd, NEW us, NEW rt, NEW at, NEW rank, NEW from,
         Shape(nd, us, rt, at, rank, from), NEW x \in us, NEW d, NEW nd2, SetIs(nd, nd2, x, d)
  PROVE  /\ Shape(nd2, us, rt, at, rank, from)
         /\ \A z \in us : Word(nd2, at, z) = Word(nd, at, z)
<1>1. us \subseteq Index /\ nd2 \in Nodes
  BY DEF Shape, SetIs
<1>2. \A z \in Index : /\ nd2[z].c = nd[z].c /\ nd2[z].str = nd[z].str
                       /\ nd2[z].next = nd[z].next /\ nd2[z].child = nd[z].child
  BY DEF SetIs
<1>3. \A z \in Index \ us : nd2[z] = nd[z]
  BY DEF SetIs
<1>4. \A z \in us : Word(nd2, at, z) = Word(nd, at, z)
  BY <1>1, <1>2 DEF Word
<1>5. \A y, z \in us : NextOf(nd2, at, rank, from, y, z) <=> NextOf(nd, at, rank, from, y, z)
  BY <1>1, <1>2 DEF NextOf
<1>6. \A y, z \in us : ChildOf(nd2, at, rank, from, y, z) <=> ChildOf(nd, at, rank, from, y, z)
  BY <1>4 DEF ChildOf
<1>7. \A z \in us : nd2[z].next # NoNode =>
        nd2[z].next \in us /\ NextOf(nd2, at, rank, from, z, nd2[z].next)
  BY <1>1, <1>2, <1>5 DEF Shape
<1>8. \A z \in us : nd2[z].child # NoNode =>
        nd2[z].child \in us /\ ChildOf(nd2, at, rank, from, z, nd2[z].child)
  BY <1>1, <1>2, <1>6 DEF Shape
<1>9. \A y \in us :
        IF y = rt THEN from[y] = NoNode
                  ELSE from[y] \in us /\ y \in {nd2[from[y]].next, nd2[from[y]].child}
  BY <1>1, <1>2 DEF Shape
<1>10. \A z \in Index \ us : nd2[z] = Cleared
  BY <1>3 DEF Shape
<1> QED
  BY <1>1, <1>4, <1>7, <1>8, <1>9, <1>10 DEF Shape, Nodes

\* u is s, then c, then t.
Joined(u, s, c, t) ==
  /\ u \in Seq(Nat) /\ Len(u) = Len(s) + 1 + Len(t)
  /\ \A j \in 1 .. Len(s) : u[j] = s[j]
  /\ u[Len(s) + 1] = c
  /\ \A j \in 1 .. Len(t) : u[Len(s) + 1 + j] = t[j]

(***************************************************************************)
(* A word in three parts is those parts, one after the other.              *)
(***************************************************************************)
LEMMA PartsJoined ==
  ASSUME NEW s \in Seq(Nat), NEW c \in Nat, NEW t \in Seq(Nat)
  PROVE  Joined(s \o <<c>> \o t, s, c, t)
<1> DEFINE u == s \o <<c>> \o t
<1>1. /\ u \in Seq(Nat) /\ Len(u) = Len(s) + 1 + Len(t)
      /\ \A j \in 1 .. Len(s) : u[j] = s[j]
      /\ u[Len(s) + 1] = c
      /\ \A j \in 1 .. Len(t) : u[Len(s) + 1 + j] = t[j]
  BY Parts
<1> HIDE DEF u
<1>2. Joined(u, s, c, t)
  BY <1>1 DEF Joined
<1> QED
  BY <1>2 DEF u

\* A word is cut behind n characters of its last part t.
CutAfter(s, c, t, n) ==
  /\ SubSeq(t, 1, n) \in Seq(Nat) /\ t[n + 1] \in Nat /\ Rest(t, n + 2) \in Seq(Nat)
  /\ Len(SubSeq(t, 1, n)) = n /\ \A j \in 1 .. n : SubSeq(t, 1, n)[j] = t[j]
  /\ (s \o <<c>> \o SubSeq(t, 1, n)) \o <<t[n + 1]>> \o Rest(t, n + 2) = s \o <<c>> \o t

(***************************************************************************)
(* A word cut in the middle of its last part.                              *)
(***************************************************************************)
LEMMA CutWord ==
  ASSUME NEW s \in Seq(Nat), NEW c \in Nat, NEW t \in Seq(Nat), NEW n \in 0 .. Len(t) - 1
  PROVE  CutAfter(s, c, t, n)
<1> DEFINE t1 == SubSeq(t, 1, n)
           t2 == Rest(t, n + 2)
           e == t[n + 1]
           a == s \o <<c>> \o t1
           v == a \o <<e>> \o t2
           u == s \o <<c>> \o t
<1>1. Len(t) \in Nat /\ n \in Nat /\ n + 1 \in 1 .. Len(t) /\ n + 2 \in 1 .. Len(t) + 1
  OBVIOUS
<1>2. t1 \in Seq(Nat) /\ Len(t1) = n /\ \A j \in 1 .. n : t1[j] = t[j]
  <2>1. \A k \in 1 .. n : t[k] \in Nat
    BY <1>1
  <2>2. /\ t1 \in Seq(Nat)
        /\ Len(t1) = IF 1 <= n THEN n - 1 + 1 ELSE 0
        /\ \A k \in 1 .. n - 1 + 1 : t1[k] = t[1 + k - 1]
    BY <1>1, <2>1, SubSeqProperties
  <2> QED
    BY <1>1, <2>2
<1>3. /\ t2 \in Seq(Nat) /\ Len(t2) = Len(t) - (n + 2) + 1
      /\ \A j \in 1 .. Len(t) - (n + 2) + 1 : t2[j] = t[n + 2 + j - 1]
  BY <1>1, RestParts
<1>4. e \in Nat
  BY <1>1
<1> HIDE DEF t1, t2
<1>5. Joined(a, s, c, t1) /\ Joined(u, s, c, t)
  BY <1>2, PartsJoined
<1> HIDE DEF a, u, e
<1>6. a \in Seq(Nat) /\ u \in Seq(Nat)
  BY <1>5 DEF Joined
<1>7. Joined(v, a, e, t2)
  BY <1>3, <1>4, <1>6, PartsJoined
<1> HIDE DEF v
<1> DEFINE l == Len(s)
<1>8. l \in Nat /\ Len(a) = l + 1 + n /\ Len(u) = l + 1 + Len(t) /\ Len(v) = Len(u)
      /\ Len(t2) = Len(t) - n - 1
  BY <1>1, <1>2, <1>3, <1>5, <1>6, <1>7 DEF Joined
<1>9. /\ \A j \in 1 .. l : a[j] = s[j] /\ u[j] = s[j]
      /\ a[l + 1] = c /\ u[l + 1] = c
      /\ \A j \in 1 .. n : a[l + 1 + j] = t[j]
      /\ \A j \in 1 .. Len(t) : u[l + 1 + j] = t[j]
  BY <1>1, <1>2, <1>5 DEF Joined
<1> HIDE DEF l
<1>10. ASSUME NEW j \in 1 .. Len(u) PROVE v[j] = u[j]
  <2>1. CASE j \in 1 .. l
    <3>1. j \in 1 .. Len(a)
      BY <1>1, <1>8, <2>1
    <3> QED
      BY <2>1, <3>1, <1>7, <1>9 DEF Joined
  <2>2. CASE j = l + 1
    <3>1. j \in 1 .. Len(a)
      BY <1>1, <1>8, <2>2
    <3> QED
      BY <2>2, <3>1, <1>7, <1>9 DEF Joined
  <2>3. CASE j - l - 1 \in 1 .. n
    <3>1. j \in 1 .. Len(a) /\ j = l + 1 + (j - l - 1) /\ j - l - 1 \in 1 .. Len(t)
      BY <1>1, <1>8, <2>3
    <3>2. a[j] = t[j - l - 1] /\ u[j] = t[j - l - 1]
      BY <2>3, <3>1, <1>9
    <3> QED
      BY <3>1, <3>2, <1>7 DEF Joined
  <2>4. CASE j - l - 1 = n + 1
    <3>1. j = Len(a) + 1 /\ j = l + 1 + (n + 1)
      BY <1>1, <1>8, <2>4
    <3>2. u[j] = t[n + 1]
      BY <1>1, <1>9, <3>1
    <3> QED
      BY <3>1, <3>2, <1>7 DEF e, Joined
  <2>5. CASE j - l - 1 - n - 1 \in 1 .. Len(t) - n - 1
    <3> DEFINE k == j - l - 1 - n - 1
    <3>1. k \in 1 .. Len(t2) /\ j = Len(a) + 1 + k /\ j = l + 1 + (n + 1 + k)
          /\ n + 1 + k \in 1 .. Len(t) /\ n + 2 + k - 1 = n + 1 + k
          /\ k \in 1 .. Len(t) - (n + 2) + 1
      BY <1>1, <1>8, <2>5
    <3> HIDE DEF k
    <3>2. v[j] = t2[k] /\ u[j] = t[n + 1 + k] /\ t2[k] = t[n + 1 + k]
      BY <3>1, <1>3, <1>7, <1>9 DEF Joined
    <3> QED
      BY <3>2
  <2> QED
    BY <1>1, <1>8, <2>1, <2>2, <2>3, <2>4, <2>5
<1>11. v = u
  BY <1>6, <1>7, <1>8, <1>10, SeqEqual DEF Joined
<1> QED
  BY <1>2, <1>3, <1>4, <1>11 DEF CutAfter, v, u, a, e, t1, t2

\* nd2 is nd with x split: n characters of its piece stay, y below it takes the rest.
SplitIs(nd, nd2, x, n, y) ==
  /\ nd2 \in Nodes
  /\ \A z \in Index \ {x, y} : nd2[z] = nd[z]
  /\ nd2[x].c = nd[x].c /\ nd2[x].str = SubSeq(nd[x].str, 1, n)
  /\ nd2[x].data = nd[x].data /\ nd2[x].next = nd[x].next /\ nd2[x].child = y
  /\ nd2[y].c = nd[x].str[n + 1] /\ nd2[y].str = Rest(nd[x].str, n + 2)
  /\ nd2[y].data = NoData /\ nd2[y].next = NoNode /\ nd2[y].child = nd[x].child

\* What a split changes in the description of the tree.
SplitAts(nd2, at, x, y)  == [at EXCEPT ![y] = Word(nd2, at, x)]
SplitRanks(rank, x, y)   == [z \in Index |-> IF z = y THEN 2 * rank[x] ELSE 2 * rank[z] + 1]
SplitFroms(nd, from, x, y) ==
  [z \in Index |-> IF z = y THEN x
                   ELSE IF z = nd[x].child THEN y ELSE from[z]]

\* The words after x is split: y ends with the word that x had.
SplitWords(nd, nd2, at, at2, us, x, n, y) ==
  /\ at2 \in [Index -> Seq(Nat)]
  /\ \A z \in us : at2[z] = at[z]
  /\ at2[y] = Word(nd2, at2, x)
  /\ Word(nd2, at2, y) = Word(nd, at, x)
  /\ \A z \in us \ {x} : Word(nd2, at2, z) = Word(nd, at, z)
  /\ nd2[x].str \in Seq(Nat) /\ Len(nd2[x].str) = n
  /\ \A j \in 1 .. n : nd2[x].str[j] = nd[x].str[j]

(***************************************************************************)
(* After a split y ends with the word that x had.                          *)
(***************************************************************************)
LEMMA WordsSplit ==
  ASSUME NEW nd, NEW us, NEW rt, NEW at, NEW rank, NEW from,
         Shape(nd, us, rt, at, rank, from), NEW x \in us,
         NEW n \in Nat, n < Size(nd, x), NEW y \in Index \ us, NEW nd2, SplitIs(nd, nd2, x, n, y)
  PROVE  SplitWords(nd, nd2, at, SplitAts(nd2, at, x, y), us, x, n, y)
<1> DEFINE at2 == SplitAts(nd2, at, x, y)
           s == at[x]
           c == nd[x].c
           t == nd[x].str
<1>1. us \subseteq Index /\ x \in Index /\ x # y
  BY DEF Shape
<1>2. s \in Seq(Nat) /\ c \in Nat /\ t \in Seq(Nat) /\ Len(t) = Size(nd, x)
  BY <1>1 DEF Shape, Node, Size
<1>3. n \in 0 .. Len(t) - 1
  BY <1>2
<1>4. CutAfter(s, c, t, n)
  <2> HIDE DEF s, c, t
  <2> QED
    BY <1>2, <1>3, CutWord
<1>5. Word(nd2, at, x) = s \o <<c>> \o SubSeq(t, 1, n)
  BY DEF SplitIs, Word
<1>6. Word(nd2, at, x) \in Seq(Nat)
  <2> HIDE DEF s, c, t
  <2> QED
    BY <1>2, <1>4, <1>5, Parts DEF CutAfter
<1>7. at \in [Index -> Seq(Nat)]
  BY DEF Shape
<1>8. at2 \in [Index -> Seq(Nat)] /\ (\A z \in us : at2[z] = at[z]) /\ at2[y] = Word(nd2, at, x)
  BY <1>1, <1>6, <1>7 DEF SplitAts
<1>9. Word(nd2, at2, x) = Word(nd2, at, x)
  BY <1>8 DEF Word
<1>10. Word(nd2, at2, y) = Word(nd, at, x)
  <2>1. Word(nd2, at2, y) = (s \o <<c>> \o SubSeq(t, 1, n)) \o <<t[n + 1]>> \o Rest(t, n + 2)
    BY <1>5, <1>8 DEF SplitIs, Word
  <2> QED
    BY <1>4, <2>1 DEF Word, CutAfter
<1>11. \A z \in us \ {x} : Word(nd2, at2, z) = Word(nd, at, z)
  BY <1>1, <1>8 DEF Word, SplitIs
<1> QED
  BY <1>4, <1>8, <1>9, <1>10, <1>11 DEF SplitWords, SplitIs, CutAfter

(***************************************************************************)
(* A tree with a node split is a tree.                                     *)
(***************************************************************************)
LEMMA ShapeSplit ==
  ASSUME NEW nd, NEW us, NEW rt, NEW at, NEW rank, NEW from,
         Shape(nd, us, rt, at, rank, from), NEW x \in us,
         NEW n \in Nat, n < Size(nd, x), NEW y \in Index \ us, NEW nd2, SplitIs(nd, nd2, x, n, y)
  PROVE  Shape(nd2, us \cup {y}, rt, SplitAts(nd2, at, x, y), SplitRanks(rank, x, y),
               SplitFroms(nd, from, x, y))
<1> DEFINE us2 == us \cup {y}
           at2 == SplitAts(nd2, at, x, y)
           rank2 == SplitRanks(rank, x, y)
           from2 == SplitFroms(nd, from, x, y)
<1>1. us \subseteq Index /\ x \in Index /\ x # y /\ rank \in [Index -> Nat]
      /\ from \in [Index -> Link] /\ rt \in us \cup {NoNode} /\ y # NoNode
  BY NoNodeIsNone DEF Shape
<1>2. SplitWords(nd, nd2, at, at2, us, x, n, y)
  BY WordsSplit
<1>3. rank2 \in [Index -> Nat] /\ rank2[y] = 2 * rank[x]
      /\ \A z \in us : rank2[z] = 2 * rank[z] + 1
  BY <1>1 DEF SplitRanks
<1>4. from2 \in [Index -> Link] /\ from2[y] = x
      /\ \A z \in us : from2[z] = IF z = nd[x].child THEN y ELSE from[z]
  BY <1>1, NoNodeIsNone DEF SplitFroms
<1>5. \A z \in us \ {x} : nd2[z] = nd[z]
  BY <1>1 DEF SplitIs
<1>6. \A z \in us : nd2[z].c = nd[z].c /\ nd2[z].next = nd[z].next
  BY <1>5 DEF SplitIs
<1>7. nd2 \in Nodes /\ us2 \subseteq Index /\ (\A z \in Index \ us2 : nd2[z] = Cleared)
  BY <1>1 DEF SplitIs, Shape
<1>8. at2 \in [Index -> Seq(Nat)] /\ rt \in us2 \cup {NoNode} /\ (rt # NoNode => at2[rt] = <<>>)
  BY <1>1, <1>2 DEF SplitWords, Shape
<1> HIDE DEF at2, rank2, from2
<1>9. ASSUME NEW z \in us2, nd2[z].next # NoNode
      PROVE  nd2[z].next \in us2 /\ NextOf(nd2, at2, rank2, from2, z, nd2[z].next)
  <2>1. z \in us /\ nd2[z].next = nd[z].next
    BY <1>6, <1>9 DEF SplitIs
  <2> DEFINE v == nd[z].next
  <2>2. v \in us /\ NextOf(nd, at, rank, from, z, v)
    BY <1>9, <2>1 DEF Shape
  <2>3. v # nd[x].child
    BY <1>9, <2>1, NextIsNoChild
  <2> HIDE DEF v
  <2>4. from2[v] = z /\ at2[v] = at2[z] /\ nd2[z].c < nd2[v].c
    BY <1>2, <1>4, <1>6, <2>1, <2>2, <2>3 DEF NextOf, SplitWords
  <2>5. rank2[v] < rank2[z]
    BY <1>1, <1>3, <2>1, <2>2 DEF NextOf
  <2> QED
    BY <2>1, <2>2, <2>4, <2>5 DEF NextOf, v
<1>10. ASSUME NEW z \in us2, nd2[z].child # NoNode
       PROVE  nd2[z].child \in us2 /\ ChildOf(nd2, at2, rank2, from2, z, nd2[z].child)
  <2>1. CASE z = y
    <3> DEFINE v == nd[x].child
    <3>1. v \in us /\ ChildOf(nd, at, rank, from, x, v) /\ nd2[y].child = v
      BY <1>10, <2>1 DEF Shape, SplitIs
    <3> HIDE DEF v
    <3>2. from2[v] = y
      BY <1>4, <3>1 DEF v
    <3>3. rank2[v] < rank2[y]
      BY <1>1, <1>3, <3>1 DEF ChildOf
    <3>4. at2[v] = Word(nd2, at2, y)
      BY <1>2, <3>1 DEF SplitWords, ChildOf
    <3> QED
      BY <2>1, <3>1, <3>2, <3>3, <3>4 DEF ChildOf
  <2>2. CASE z = x
    <3>1. nd2[x].child = y
      BY DEF SplitIs
    <3>2. rank2[y] < rank2[x]
      BY <1>1, <1>3
    <3> QED
      BY <1>2, <1>4, <2>2, <3>1, <3>2 DEF ChildOf, SplitWords
  <2>3. CASE z \in us \ {x}
    <3> DEFINE v == nd[z].child
    <3>1. v \in us /\ ChildOf(nd, at, rank, from, z, v) /\ nd2[z].child = v
      BY <1>5, <1>10, <2>3 DEF Shape
    <3>2. v # nd[x].child
      <4>1. from[v] = z /\ v # NoNode
        BY <1>1, <3>1, NoNodeIsNone DEF ChildOf
      <4>2. nd[x].child # NoNode => from[nd[x].child] = x
        BY DEF Shape, ChildOf
      <4> HIDE DEF v
      <4> QED
        BY <2>3, <4>1, <4>2
    <3> HIDE DEF v
    <3>3. from2[v] = z
      BY <1>4, <3>1, <3>2 DEF ChildOf
    <3>4. rank2[v] < rank2[z]
      BY <1>1, <1>3, <2>3, <3>1 DEF ChildOf
    <3>5. at2[v] = Word(nd2, at2, z)
      BY <1>2, <2>3, <3>1 DEF SplitWords, ChildOf
    <3> QED
      BY <3>1, <3>3, <3>4, <3>5 DEF ChildOf
  <2> QED
    BY <2>1, <2>2, <2>3
<1>11. ASSUME NEW v \in us2
       PROVE  IF v = rt THEN from2[v] = NoNode
                        ELSE from2[v] \in us2 /\ v \in {nd2[from2[v]].next, nd2[from2[v]].child}
  <2>1. CASE v = y
    BY <1>1, <1>4, <2>1 DEF SplitIs
  <2>2. CASE v = rt
    <3>1. v \in us /\ from[v] = NoNode
      BY <1>1, <1>11, <2>2, NoNodeIsNone DEF Shape
    <3>2. v # nd[x].child
      <4>1. v # NoNode /\ x # NoNode
        BY <1>1, <3>1, NoNodeIsNone
      <4>2. nd[x].child # NoNode => from[nd[x].child] = x
        BY DEF Shape, ChildOf
      <4> QED
        BY <3>1, <4>1, <4>2
    <3> QED
      BY <1>4, <2>2, <3>1, <3>2
  <2>3. CASE v \in us /\ v # rt /\ v = nd[x].child
    BY <1>4, <2>3 DEF SplitIs
  <2>4. CASE v \in us /\ v # rt /\ v # nd[x].child
    <3>1. from[v] \in us /\ v \in {nd[from[v]].next, nd[from[v]].child} /\ from2[v] = from[v]
      BY <1>4, <2>4 DEF Shape
    <3> DEFINE u == from[v]
    <3>2. u \in us /\ v \in {nd[u].next, nd[u].child}
      BY <3>1
    <3> HIDE DEF u
    <3>3. v \in {nd2[u].next, nd2[u].child}
      BY <1>5, <1>6, <2>4, <3>2
    <3> QED
      BY <2>4, <3>1, <3>3 DEF u
  <2> QED
    BY <2>1, <2>2, <2>3, <2>4
<1> QED
  BY <1>3, <1>4, <1>7, <1>8, <1>9, <1>10, <1>11 DEF Shape, Nodes, at2, rank2, from2

\* The nodes that end words still end them afterwards.
Keeps(nd, us, at, nd2, us2, at2) ==
  \A z \in us : nd[z].data # NoData =>
    z \in us2 /\ nd2[z].data # NoData /\ Word(nd2, at2, z) = Word(nd, at, z)

(***************************************************************************)
(* A split changes neither what a trie holds nor that its nodes lead       *)
(* somewhere, nor the words that they end.                                 *)
(***************************************************************************)
LEMMA HoldsSplit ==
  ASSUME NEW nd, NEW us, NEW rt, NEW at, NEW rank, NEW from,
         Shape(nd, us, rt, at, rank, from), Leads(nd, us), NEW m, Holds(nd, us, at, m),
         NEW x \in us,
         NEW n \in Nat, n < Size(nd, x), NEW y \in Index \ us, NEW nd2, SplitIs(nd, nd2, x, n, y)
  PROVE  /\ Holds(nd2, us \cup {y}, SplitAts(nd2, at, x, y), m)
         /\ Leads(nd2, us \cup {y})
         /\ Keeps(nd, us, at, nd2, us \cup {y}, SplitAts(nd2, at, x, y))
         /\ nd[x].data = NoData
<1> DEFINE at2 == SplitAts(nd2, at, x, y)
<1>1. us \subseteq Index /\ x \in Index /\ x # y /\ y # NoNode
  BY NoNodeIsNone DEF Shape
<1>2. nd[x].data = NoData
  <2>1. nd[x].data = NoData \/ nd[x].str = <<>>
    BY <1>1 DEF Shape
  <2>2. nd[x].str = <<>> => Size(nd, x) = 0
    BY DEF Size
  <2> QED
    BY <2>1, <2>2
<1>3. SplitWords(nd, nd2, at, at2, us, x, n, y)
  BY WordsSplit
<1> HIDE DEF at2
<1>4. Leads(nd2, us \cup {y})
  BY <1>1, <1>2 DEF Leads, SplitIs
<1>5. \A z \in us \cup {y} : nd2[z].data # NoData <=> z \in us /\ nd[z].data # NoData
  BY <1>1, <1>2 DEF SplitIs
<1>6. \A z \in us : nd[z].data # NoData =>
        nd2[z].data = nd[z].data /\ Word(nd2, at2, z) = Word(nd, at, z)
  BY <1>1, <1>2, <1>3 DEF SplitIs, SplitWords
<1>7. Holds(nd2, us \cup {y}, at2, m)
  BY <1>5, <1>6, HoldsSame
<1>8. Keeps(nd, us, at, nd2, us \cup {y}, at2)
  BY <1>5, <1>6 DEF Keeps
<1> QED
  BY <1>2, <1>4, <1>7, <1>8 DEF at2

-----------------------------------------------------------------------------
(* A chain of nodes is hung up.                                            *)

\* ps are the nodes for the word s, which begin at the offsets off in it.
PiecesOf(ps, s, off) ==
  /\ ps \in Seq(Node) /\ Len(ps) > 0
  /\ off \in [1 .. Len(ps) -> Nat] /\ off[1] = 0 /\ off[Len(ps)] + 1 = Len(s)
  /\ \A j \in 1 .. Len(ps) :
       /\ off[j] < Len(s) /\ ps[j].c = s[off[j] + 1]
       /\ ps[j].data = NoData /\ ps[j].next = NoNode /\ ps[j].child = NoNode
  /\ \A j \in 1 .. Len(ps) - 1 :
       /\ Size(ps, j) = off[j + 1] - off[j] - 1
       /\ \A q \in 1 .. Size(ps, j) : ps[j].str[q] = s[off[j] + 1 + q]
  /\ ps[Len(ps)].str = <<>>

\* nd2 is nd with the chain ns of nodes, made of ps, put in at the link f of p; its last
\* node has the data d, and the root is now rt2.
HangIs(nd, nd2, rt, rt2, p, f, ns, ps, d) ==
  /\ nd2 \in Nodes
  /\ \A z \in Index \ (Range(ns) \cup {p}) : nd2[z] = nd[z]
  /\ \A j \in 1 .. Len(ns) :
       /\ nd2[ns[j]].c = ps[j].c /\ nd2[ns[j]].str = ps[j].str
       /\ nd2[ns[j]].data = IF j = Len(ns) THEN d ELSE NoData
       /\ nd2[ns[j]].next = IF j = 1 THEN LinkAt(nd, rt, p, f) ELSE NoNode
       /\ nd2[ns[j]].child = IF j = Len(ns) THEN NoNode ELSE ns[j + 1]
  /\ IF p = NoNode THEN rt2 = ns[1]
     ELSE /\ rt2 = rt
          /\ nd2[p].c = nd[p].c /\ nd2[p].str = nd[p].str /\ nd2[p].data = nd[p].data
          /\ nd2[p].next = IF f = "next" THEN ns[1] ELSE nd[p].next
          /\ nd2[p].child = IF f = "next" THEN nd[p].child ELSE ns[1]

\* What hanging up a chain changes in the description of the tree; r is the rank of p.
PlaceIn(ns, z)             == CHOOSE j \in 1 .. Len(ns) : ns[j] = z
HangAts(at, ns, w, i, off) ==
  [z \in Index |-> IF z \in Range(ns) THEN SubSeq(w, 1, i - 1 + off[PlaceIn(ns, z)]) ELSE at[z]]
HangRanks(rank, ns, r)     ==
  [z \in Index |-> IF z \in Range(ns) THEN r + Len(ns) - PlaceIn(ns, z)
                   ELSE IF rank[z] >= r THEN rank[z] + Len(ns) ELSE rank[z]]
HangFroms(from, ns, p, o)  ==
  [z \in Index |-> IF z \in Range(ns)
                     THEN IF PlaceIn(ns, z) = 1 THEN p ELSE ns[PlaceIn(ns, z) - 1]
                   ELSE IF z = o THEN ns[1] ELSE from[z]]

\* What these say of the nodes before, and of those of the chain.
Hung(at, rank, from, at2, rank2, from2, us, ns, w, i, off, r, p, o) ==
  /\ at2 \in [Index -> Seq(Nat)] /\ rank2 \in [Index -> Nat] /\ from2 \in [Index -> Link]
  /\ \A z \in us : /\ at2[z] = at[z]
                   /\ rank2[z] = IF rank[z] >= r THEN rank[z] + Len(ns) ELSE rank[z]
                   /\ from2[z] = IF z = o THEN ns[1] ELSE from[z]
  /\ \A j \in 1 .. Len(ns) : /\ at2[ns[j]] = SubSeq(w, 1, i - 1 + off[j])
                             /\ rank2[ns[j]] = r + Len(ns) - j
                             /\ from2[ns[j]] = IF j = 1 THEN p ELSE ns[j - 1]

(***************************************************************************)
(* A beginning of a word.                                                  *)
(***************************************************************************)
LEMMA Beginning ==
  ASSUME NEW w \in Seq(Nat), NEW n \in 0 .. Len(w)
  PROVE  /\ SubSeq(w, 1, n) \in Seq(Nat) /\ Len(SubSeq(w, 1, n)) = n
         /\ \A j \in 1 .. n : SubSeq(w, 1, n)[j] = w[j]
<1>1. Len(w) \in Nat /\ n \in Nat
  OBVIOUS
<1>2. \A k \in 1 .. n : w[k] \in Nat
  BY <1>1
<1>3. /\ SubSeq(w, 1, n) \in Seq(Nat)
      /\ Len(SubSeq(w, 1, n)) = IF 1 <= n THEN n - 1 + 1 ELSE 0
      /\ \A k \in 1 .. n - 1 + 1 : SubSeq(w, 1, n)[k] = w[1 + k - 1]
  BY <1>1, <1>2, SubSeqProperties
<1> QED
  BY <1>1, <1>3

(***************************************************************************)
(* A beginning of a word that goes on with a character and a piece.        *)
(***************************************************************************)
LEMMA LongerBeginning ==
  ASSUME NEW w \in Seq(Nat), NEW a \in Nat, NEW t \in Seq(Nat), a + 1 + Len(t) <= Len(w),
         \A q \in 1 .. Len(t) : t[q] = w[a + 1 + q]
  PROVE  SubSeq(w, 1, a) \o <<w[a + 1]>> \o t = SubSeq(w, 1, a + 1 + Len(t))
<1> DEFINE n == a + 1 + Len(t)
           b == SubSeq(w, 1, a)
           c == w[a + 1]
           v == SubSeq(w, 1, n)
           u == b \o <<c>> \o t
<1>1. Len(w) \in Nat /\ Len(t) \in Nat /\ n \in 0 .. Len(w) /\ a \in 0 .. Len(w)
      /\ a + 1 \in 1 .. Len(w)
  OBVIOUS
<1>2. c \in Nat
  BY <1>1
<1> HIDE DEF n
<1>3. b \in Seq(Nat) /\ Len(b) = a /\ \A j \in 1 .. a : b[j] = w[j]
  BY <1>1, Beginning
<1>4. v \in Seq(Nat) /\ Len(v) = n /\ \A j \in 1 .. n : v[j] = w[j]
  BY <1>1, Beginning
<1> HIDE DEF b, c, v
<1>5. Joined(u, b, c, t)
  BY <1>2, <1>3, PartsJoined
<1> HIDE DEF u
<1>6. n = a + 1 + Len(t)
  BY DEF n
<1>7. ASSUME NEW j \in 1 .. n PROVE u[j] = w[j]
  <2>1. CASE j \in 1 .. a
    BY <2>1, <1>3, <1>5 DEF Joined
  <2>2. CASE j = a + 1
    BY <2>2, <1>3, <1>5 DEF Joined, c
  <2>3. CASE j - a - 1 \in 1 .. Len(t)
    <3>1. j = a + 1 + (j - a - 1)
      BY <1>6
    <3>2. u[j] = t[j - a - 1]
      BY <2>3, <3>1, <1>3, <1>5 DEF Joined
    <3> QED
      BY <2>3, <3>1, <3>2
  <2>4. j \in 1 .. a \/ j = a + 1 \/ j - a - 1 \in 1 .. Len(t)
    <3> DEFINE l == Len(t)
    <3>1. l \in Nat /\ n = a + 1 + l
      BY <1>1, <1>6
    <3> HIDE DEF l
    <3>2. j \in 1 .. a \/ j = a + 1 \/ j - a - 1 \in 1 .. l
      BY <3>1
    <3> QED
      BY <3>2 DEF l
  <2> QED
    BY <2>1, <2>2, <2>3, <2>4
<1>8. u \in Seq(Nat) /\ Len(u) = n
  BY <1>3, <1>5, <1>6 DEF Joined
<1>9. u = v
  BY <1>4, <1>7, <1>8, SeqEqual
<1> QED
  BY <1>9 DEF u, v, b, c, n

(***************************************************************************)
(* The place of a node in a chain.                                         *)
(***************************************************************************)
LEMMA PlaceInChain ==
  ASSUME NEW ns \in Seq(Index), IsInjective(ns), NEW j \in 1 .. Len(ns)
  PROVE  PlaceIn(ns, ns[j]) = j /\ ns[j] \in Range(ns)
<1>1. \A q \in 1 .. Len(ns) : ns[q] = ns[j] => q = j
  BY DEF IsInjective
<1>2. ns[j] \in Range(ns)
  BY DEF Range
<1>3. PlaceIn(ns, ns[j]) \in 1 .. Len(ns) /\ ns[PlaceIn(ns, ns[j])] = ns[j]
  BY DEF PlaceIn
<1> QED
  BY <1>1, <1>2, <1>3

(***************************************************************************)
(* What the description says of the nodes, old and new.                    *)
(***************************************************************************)
LEMMA HungSo ==
  ASSUME NEW at \in [Index -> Seq(Nat)], NEW rank \in [Index -> Nat],
         NEW from \in [Index -> Link], NEW us \in SUBSET Index,
         NEW ns \in Seq(Index), IsInjective(ns), Range(ns) \cap us = {}, Len(ns) > 0,
         NEW w \in Seq(Nat), NEW i \in 1 .. Len(w), NEW off \in [1 .. Len(ns) -> Nat],
         \A j \in 1 .. Len(ns) : i + off[j] <= Len(w),
         NEW r \in Nat, NEW p \in Link, NEW o
  PROVE  Hung(at, rank, from, HangAts(at, ns, w, i, off), HangRanks(rank, ns, r),
              HangFroms(from, ns, p, o), us, ns, w, i, off, r, p, o)
<1>1. Len(ns) \in Nat /\ 1 \in 1 .. Len(ns) /\ Len(w) \in Nat /\ i \in Nat
  OBVIOUS
<1>2. \A z \in Range(ns) : \E j \in 1 .. Len(ns) : ns[j] = z
  BY DEF Range
<1>3. \A j \in 1 .. Len(ns) : ns[j] \in Index /\ PlaceIn(ns, ns[j]) = j /\ ns[j] \in Range(ns)
  BY PlaceInChain
<1>4. \A z \in Range(ns) : PlaceIn(ns, z) \in 1 .. Len(ns)
  BY ZenonT(30), <1>2, <1>3
<1>5. HangAts(at, ns, w, i, off) \in [Index -> Seq(Nat)]
  <2>1. ASSUME NEW j \in 1 .. Len(ns) PROVE SubSeq(w, 1, i - 1 + off[j]) \in Seq(Nat)
    <3>1. i - 1 + off[j] \in 0 .. Len(w)
      <4> DEFINE a == off[j]
                 l == Len(w)
      <4>1. a \in Nat
        OBVIOUS
      <4>2. i + a <= l
        OBVIOUS
      <4>3. i >= 1 /\ l \in Nat /\ i \in Nat
        BY <1>1
      <4> HIDE DEF a, l
      <4>4. i - 1 + a \in 0 .. l
        BY <4>1, <4>2, <4>3
      <4> QED
        BY <4>4 DEF a, l
    <3> QED
      BY <3>1, Beginning
  <2> QED
    BY <1>4, <2>1 DEF HangAts
<1>6. HangRanks(rank, ns, r) \in [Index -> Nat]
  <2>1. ASSUME NEW j \in 1 .. Len(ns) PROVE r + Len(ns) - j \in Nat
    BY <1>1
  <2>2. ASSUME NEW z \in Index PROVE rank[z] + Len(ns) \in Nat /\ rank[z] \in Nat
    BY <1>1
  <2> QED
    BY <1>4, <2>1, <2>2 DEF HangRanks
<1>7. HangFroms(from, ns, p, o) \in [Index -> Link]
  <2>1. ASSUME NEW j \in 1 .. Len(ns), j # 1 PROVE ns[j - 1] \in Link
    <3>1. j - 1 \in 1 .. Len(ns)
      BY <1>1, <2>1
    <3> QED
      BY <1>3, <3>1, NoNodeIsNone
  <2>2. ns[1] \in Link
    BY <1>1, <1>3, NoNodeIsNone
  <2> QED
    BY <1>4, <2>1, <2>2 DEF HangFroms
<1>8. \A z \in us : z \in Index /\ z \notin Range(ns)
  OBVIOUS
<1>9. ASSUME NEW z \in us
      PROVE  /\ HangAts(at, ns, w, i, off)[z] = at[z]
             /\ HangRanks(rank, ns, r)[z]
                  = IF rank[z] >= r THEN rank[z] + Len(ns) ELSE rank[z]
             /\ HangFroms(from, ns, p, o)[z] = IF z = o THEN ns[1] ELSE from[z]
  BY <1>8 DEF HangAts, HangRanks, HangFroms
<1>10. ASSUME NEW j \in 1 .. Len(ns)
       PROVE  /\ HangAts(at, ns, w, i, off)[ns[j]] = SubSeq(w, 1, i - 1 + off[j])
              /\ HangRanks(rank, ns, r)[ns[j]] = r + Len(ns) - j
              /\ HangFroms(from, ns, p, o)[ns[j]] = IF j = 1 THEN p ELSE ns[j - 1]
  BY <1>3 DEF HangAts, HangRanks, HangFroms
<1> QED
  BY <1>5, <1>6, <1>7, <1>9, <1>10 DEF Hung

\* The words after a chain is hung up: each node of the chain ends with the one before the
\* next, the last one with w.
HungWords(nd, nd2, at, at2, us, ns, w, i) ==
  /\ \A z \in us : Word(nd2, at2, z) = Word(nd, at, z) /\ nd2[z].c = nd[z].c
  /\ at2[ns[1]] = SubSeq(w, 1, i - 1) /\ nd2[ns[1]].c = w[i]
  /\ \A j \in 1 .. Len(ns) - 1 : at2[ns[j + 1]] = Word(nd2, at2, ns[j])
  /\ Word(nd2, at2, ns[Len(ns)]) = w

(***************************************************************************)
(* The nodes of a chain end with the beginnings of the word.               *)
(***************************************************************************)
LEMMA WordsHung ==
  ASSUME NEW nd, NEW us, NEW rt, NEW at, NEW rank, NEW from,
         Shape(nd, us, rt, at, rank, from),
         NEW w \in Seq(Nat), NEW i \in 1 .. Len(w),
         NEW ps, NEW off, PiecesOf(ps, Rest(w, i), off),
         NEW ns \in Seq(Index), Len(ns) = Len(ps), IsInjective(ns), Range(ns) \cap us = {},
         NEW p \in us \cup {NoNode}, NEW f, NEW d, NEW nd2, NEW rt2,
         HangIs(nd, nd2, rt, rt2, p, f, ns, ps, d),
         NEW at2, NEW rank2, NEW from2, NEW r, NEW o,
         Hung(at, rank, from, at2, rank2, from2, us, ns, w, i, off, r, p, o)
  PROVE  HungWords(nd, nd2, at, at2, us, ns, w, i)
<1> DEFINE s == Rest(w, i)
           k == Len(ns)
<1>1. k \in Nat /\ k > 0 /\ Len(ps) = k /\ Len(w) \in Nat /\ i \in Nat
  BY DEF PiecesOf
<1>2. /\ s \in Seq(Nat) /\ Len(s) = Len(w) - i + 1
      /\ \A q \in 1 .. Len(w) - i + 1 : s[q] = w[i + q - 1]
  BY <1>1, RestParts
<1> HIDE DEF s, k
<1>3. /\ off \in [1 .. k -> Nat] /\ off[1] = 0 /\ off[k] + 1 = Len(s)
      /\ \A j \in 1 .. k : off[j] < Len(s) /\ ps[j].c = s[off[j] + 1]
      /\ \A j \in 1 .. k - 1 :
           /\ Size(ps, j) = off[j + 1] - off[j] - 1
           /\ \A q \in 1 .. Size(ps, j) : ps[j].str[q] = s[off[j] + 1 + q]
      /\ ps[k].str = <<>> /\ ps \in Seq(Node)
  BY <1>1 DEF PiecesOf, s
<1>4. \A j \in 1 .. k : off[j] \in Nat
  BY <1>3
<1> DEFINE l == Len(s)
           lw == Len(w)
<1>5. /\ l \in Nat /\ lw \in Nat /\ i \in Nat /\ i >= 1 /\ k \in Nat /\ k > 0
      /\ l = lw - i + 1 /\ off[k] + 1 = l
      /\ (\A q \in 1 .. l : s[q] = w[i + q - 1])
      /\ (\A j \in 1 .. k : off[j] < l)
  BY SMTT(30), <1>1, <1>2, <1>3
<1>6. \A j \in 1 .. k : ps[j].str \in Seq(Nat)
  <2> SUFFICES ASSUME NEW j \in 1 .. k PROVE ps[j].str \in Seq(Nat)
    OBVIOUS
  <2>1. j \in 1 .. Len(ps)
    BY <1>1
  <2>2. ps[j] \in Node
    BY <1>3, <2>1, ElementOfSeq
  <2> QED
    BY <2>2 DEF Node
<1>7. \A j \in 1 .. k : /\ nd2[ns[j]].c = ps[j].c /\ nd2[ns[j]].str = ps[j].str
                        /\ at2[ns[j]] = SubSeq(w, 1, i - 1 + off[j])
                        /\ ps[j].c = s[off[j] + 1]
  BY <1>3 DEF HangIs, Hung, k
<1> HIDE DEF l, lw
<1>8. ASSUME NEW j \in 1 .. k PROVE nd2[ns[j]].c = w[i + off[j]]
  <2> DEFINE a == off[j]
  <2>1. a \in Nat /\ a < l
    BY <1>4, <1>5
  <2>2. nd2[ns[j]].c = s[a + 1]
    BY <1>7
  <2> HIDE DEF a
  <2>3. a + 1 \in 1 .. l /\ i + (a + 1) - 1 = i + a
    BY <1>5, <2>1
  <2>4. s[a + 1] = w[i + a]
    BY <1>5, <2>3
  <2> QED
    BY <2>2, <2>4 DEF a
<1>9. ASSUME NEW j \in 1 .. k - 1 PROVE at2[ns[j + 1]] = Word(nd2, at2, ns[j])
  <2> DEFINE b == off[j]
             e == off[j + 1]
             a == i - 1 + b
             t == ps[j].str
             n == Size(ps, j)
  <2>1. j \in 1 .. k /\ j + 1 \in 1 .. k
    BY <1>5
  <2>2. b \in Nat /\ e \in Nat /\ e < l /\ t \in Seq(Nat) /\ n = Len(t)
    BY <1>4, <1>5, <1>6, <2>1 DEF Size
  <2>3. n = e - b - 1 /\ \A q \in 1 .. n : t[q] = s[b + 1 + q]
    BY <1>3
  <2>4. nd2[ns[j]].c = w[i + b] /\ nd2[ns[j]].str = t /\ at2[ns[j]] = SubSeq(w, 1, a)
        /\ at2[ns[j + 1]] = SubSeq(w, 1, i - 1 + e)
    BY <1>7, <1>8, <2>1
  <2> HIDE DEF b, e, t, n
  <2>5. n \in Nat
    BY <2>2
  <2>6. a \in Nat /\ i + b = a + 1 /\ a + 1 + n = i - 1 + e /\ i - 1 + e <= lw
    BY <1>5, <2>2, <2>3, <2>5
  <2>7. ASSUME NEW q \in 1 .. n PROVE t[q] = w[a + 1 + q]
    <3>1. b + 1 + q \in 1 .. l /\ i + (b + 1 + q) - 1 = a + 1 + q
      BY <1>5, <2>2, <2>3, <2>5
    <3> QED
      BY <1>5, <2>3, <3>1
  <2>8. a + 1 + n <= Len(w)
    BY <2>6 DEF lw
  <2> HIDE DEF a
  <2>9. SubSeq(w, 1, a) \o <<w[a + 1]>> \o t = SubSeq(w, 1, a + 1 + Len(t))
    BY <2>2, <2>6, <2>7, <2>8, LongerBeginning
  <2> QED
    BY <2>2, <2>4, <2>6, <2>9 DEF Word
<1>10. Word(nd2, at2, ns[k]) = w
  <2> DEFINE b == off[k]
             a == i - 1 + b
  <2>1. k \in 1 .. k
    BY <1>5
  <2>2. b \in Nat /\ b + 1 = l
    BY <1>4, <1>5, <2>1
  <2>3. nd2[ns[k]].c = w[i + b] /\ nd2[ns[k]].str = <<>> /\ at2[ns[k]] = SubSeq(w, 1, a)
    BY <1>3, <1>7, <1>8, <2>1
  <2> HIDE DEF b
  <2>4. a \in Nat /\ i + b = a + 1 /\ a + 1 = lw
    <3>1. l \in Nat /\ lw \in Nat /\ i \in Nat /\ i >= 1 /\ l = lw - i + 1
      BY <1>5
    <3>2. a = i - 1 + b
      OBVIOUS
    <3> HIDE DEF a
    <3> QED
      BY <2>2, <3>1, <3>2
  <2> HIDE DEF a
  <2>5. SubSeq(w, 1, a) \o <<w[a + 1]>> \o <<>> = SubSeq(w, 1, a + 1 + 0)
    <3> DEFINE t == <<>>
    <3>1. t \in Seq(Nat) /\ Len(t) = 0 /\ a + 1 + Len(t) <= Len(w)
          /\ \A q \in 1 .. Len(t) : t[q] = w[a + 1 + q]
      BY <1>5, <2>4 DEF lw
    <3> HIDE DEF t
    <3>2. SubSeq(w, 1, a) \o <<w[a + 1]>> \o t = SubSeq(w, 1, a + 1 + Len(t))
      BY <2>4, <3>1, LongerBeginning
    <3> QED
      BY <3>1, <3>2 DEF t
  <2>6. SubSeq(w, 1, a + 1 + 0) = w
    <3>1. a + 1 + 0 = Len(w)
      BY <2>4 DEF lw
    <3> QED
      BY <3>1, SubSeqFull
  <2> QED
    BY <2>3, <2>4, <2>5, <2>6 DEF Word
<1>11. \A z \in us : Word(nd2, at2, z) = Word(nd, at, z) /\ nd2[z].c = nd[z].c
  <2> SUFFICES ASSUME NEW z \in us
               PROVE  Word(nd2, at2, z) = Word(nd, at, z) /\ nd2[z].c = nd[z].c
    OBVIOUS
  <2>1. z \in Index /\ z \notin Range(ns) /\ z # NoNode
    BY NoNodeIsNone DEF Shape
  <2>2. nd2[z].c = nd[z].c /\ nd2[z].str = nd[z].str
    <3>1. CASE z = p
      BY <2>1, <3>1 DEF HangIs
    <3>2. CASE z # p
      BY <2>1, <3>2 DEF HangIs
    <3> QED
      BY <3>1, <3>2
  <2>3. at2[z] = at[z]
    BY DEF Hung
  <2> QED
    BY <2>2, <2>3 DEF Word
<1>12. at2[ns[1]] = SubSeq(w, 1, i - 1) /\ nd2[ns[1]].c = w[i]
  <2>1. 1 \in 1 .. k /\ i - 1 + off[1] = i - 1 /\ i + off[1] = i
    BY <1>3, <1>5
  <2> QED
    BY <1>7, <1>8, <2>1
<1> QED
  BY <1>9, <1>10, <1>11, <1>12 DEF HungWords, k

(***************************************************************************)
(* The link at which a node belongs leads to one of the siblings that are  *)
(* to come after it.                                                       *)
(***************************************************************************)
LEMMA LinkIs ==
  ASSUME NEW nd, NEW us, NEW rt, NEW at, NEW rank, NEW from,
         Shape(nd, us, rt, at, rank, from),
         NEW p \in us \cup {NoNode}, NEW f \in {"next", "child"},
         NEW o, o = LinkAt(nd, rt, p, f), o # NoNode
  PROVE  /\ o \in us /\ at[o] = BaseAt(nd, at, p, f) /\ from[o] = p
         /\ (p = NoNode <=> o = rt)
         /\ p # NoNode => rank[o] < rank[p]
<1>1. p # NoNode <=> p \in us
  BY NoNodeIsNone DEF Shape
<1>2. CASE p = NoNode
  <2>1. o = rt /\ rt \in us
    BY <1>2 DEF LinkAt, Shape
  <2>2. from[rt] = NoNode /\ at[rt] = <<>>
    BY <2>1, <1>2 DEF Shape
  <2> QED
    BY <1>2, <2>1, <2>2 DEF BaseAt
<1>3. CASE p \in us /\ f = "next"
  <2>1. o = nd[p].next
    BY <1>1, <1>3 DEF LinkAt
  <2>2. o \in us /\ NextOf(nd, at, rank, from, p, o)
    BY <1>3, <2>1 DEF Shape
  <2>3. o # rt
    BY <1>1, <1>3, <2>2 DEF Shape, NextOf
  <2> QED
    BY <1>1, <1>3, <2>2, <2>3 DEF NextOf, BaseAt
<1>4. CASE p \in us /\ f = "child"
  <2>1. o = nd[p].child
    BY <1>1, <1>4 DEF LinkAt
  <2>2. o \in us /\ ChildOf(nd, at, rank, from, p, o)
    BY <1>4, <2>1 DEF Shape
  <2>3. o # rt
    BY <1>1, <1>4, <2>2 DEF Shape, ChildOf
  <2> QED
    BY <1>1, <1>4, <2>2, <2>3 DEF ChildOf, BaseAt
<1> QED
  BY <1>1, <1>2, <1>3, <1>4

(***************************************************************************)
(* A beginning of a word as long as a sequence that it begins with is that *)
(* sequence.                                                               *)
(***************************************************************************)
LEMMA BaseIs ==
  ASSUME NEW w \in Seq(Nat), NEW b \in Seq(Nat), NEW i, i = Len(b) + 1, i <= Len(w),
         \A j \in 1 .. Len(b) : w[j] = b[j]
  PROVE  SubSeq(w, 1, i - 1) = b
<1>1. Len(b) \in Nat /\ Len(w) \in Nat /\ i - 1 = Len(b) /\ i - 1 \in 0 .. Len(w)
  OBVIOUS
<1> DEFINE v == SubSeq(w, 1, i - 1)
<1>2. v \in Seq(Nat) /\ Len(v) = i - 1 /\ \A j \in 1 .. i - 1 : v[j] = w[j]
  BY <1>1, Beginning
<1> HIDE DEF v
<1>3. v = b
  BY <1>1, <1>2, SeqEqual
<1> QED
  BY <1>3 DEF v

(***************************************************************************)
(* A tree with a chain hung up where its first node belongs is a tree.     *)
(***************************************************************************)
LEMMA ShapeHung ==
  ASSUME NEW nd, NEW us, NEW rt, NEW at, NEW rank, NEW from,
         Shape(nd, us, rt, at, rank, from),
         NEW w \in Seq(Nat), NEW i \in 1 .. Len(w),
         NEW ps, NEW off,
         NEW ns \in Seq(Index), Len(ns) > 0, IsInjective(ns), Range(ns) \cap us = {},
         NEW p, NEW f \in {"next", "child"}, Fits(nd, us, rt, at, w, i, p, f),
         NEW d, NEW nd2, NEW rt2, HangIs(nd, nd2, rt, rt2, p, f, ns, ps, d),
         NEW o, o = LinkAt(nd, rt, p, f),
         NEW r \in Nat, p # NoNode => r <= rank[p], o # NoNode => rank[o] < r,
         NEW at2, NEW rank2, NEW from2,
         Hung(at, rank, from, at2, rank2, from2, us, ns, w, i, off, r, p, o),
         HungWords(nd, nd2, at, at2, us, ns, w, i)
  PROVE  Shape(nd2, us \cup Range(ns), rt2, at2, rank2, from2)
<1> DEFINE us2 == us \cup Range(ns)
           k == Len(ns)
           y == ns[1]
           base == BaseAt(nd, at, p, f)
<1>1. /\ us \subseteq Index /\ rank \in [Index -> Nat] /\ from \in [Index -> Link]
      /\ rt \in us \cup {NoNode} /\ p \in us \cup {NoNode} /\ NoNode \notin Index
      /\ \A z \in us : z # NoNode /\ z \notin Range(ns)
      /\ k \in Nat /\ k > 0
  BY NoNodeIsNone DEF Shape, Fits
<1>2. /\ \A j \in 1 .. k : ns[j] \in Range(ns) /\ ns[j] \in Index /\ ns[j] # NoNode
      /\ \A z \in Range(ns) : \E j \in 1 .. k : z = ns[j]
      /\ \A j, q \in 1 .. k : ns[j] = ns[q] => j = q
      /\ 1 \in 1 .. k /\ y \in Range(ns) /\ Range(ns) \subseteq Index
  BY SMTT(30), <1>1 DEF Range, IsInjective
<1>3. /\ nd2 \in Nodes
      /\ \A z \in Index \ (Range(ns) \cup {p}) : nd2[z] = nd[z]
      /\ nd2[y].next = o
      /\ \A j \in 1 .. k : j # 1 => nd2[ns[j]].next = NoNode
      /\ \A j \in 1 .. k : j # k => nd2[ns[j]].child = ns[j + 1]
      /\ nd2[ns[k]].child = NoNode
      /\ p = NoNode => rt2 = y
      /\ p # NoNode => /\ rt2 = rt
                       /\ nd2[p].next = IF f = "next" THEN y ELSE nd[p].next
                       /\ nd2[p].child = IF f = "next" THEN nd[p].child ELSE y
  <2>1. /\ nd2 \in Nodes
        /\ \A z \in Index \ (Range(ns) \cup {p}) : nd2[z] = nd[z]
        /\ p = NoNode => rt2 = y
    BY DEF HangIs
  <2>2. \A j \in 1 .. k :
          /\ nd2[ns[j]].next = IF j = 1 THEN LinkAt(nd, rt, p, f) ELSE NoNode
          /\ nd2[ns[j]].child = IF j = k THEN NoNode ELSE ns[j + 1]
    BY DEF HangIs
  <2>3. p # NoNode => /\ rt2 = rt
                      /\ nd2[p].next = IF f = "next" THEN y ELSE nd[p].next
                      /\ nd2[p].child = IF f = "next" THEN nd[p].child ELSE y
    BY DEF HangIs
  <2>4. 1 \in 1 .. k /\ k \in 1 .. k
    BY <1>1
  <2> HIDE DEF k
  <2>5. nd2[y].next = o /\ nd2[ns[k]].child = NoNode
    BY <2>2, <2>4
  <2> QED
    BY <2>1, <2>2, <2>3, <2>5
<1>4. /\ at2 \in [Index -> Seq(Nat)] /\ rank2 \in [Index -> Nat] /\ from2 \in [Index -> Link]
      /\ \A z \in us : /\ at2[z] = at[z]
                       /\ rank2[z] = IF rank[z] >= r THEN rank[z] + k ELSE rank[z]
                       /\ from2[z] = IF z = o THEN y ELSE from[z]
      /\ \A j \in 1 .. k : /\ rank2[ns[j]] = r + k - j
                           /\ from2[ns[j]] = IF j = 1 THEN p ELSE ns[j - 1]
  BY DEF Hung
<1>5. /\ \A z \in us : Word(nd2, at2, z) = Word(nd, at, z) /\ nd2[z].c = nd[z].c
      /\ at2[y] = SubSeq(w, 1, i - 1) /\ nd2[y].c = w[i]
      /\ \A j \in 1 .. k - 1 : at2[ns[j + 1]] = Word(nd2, at2, ns[j])
  BY DEF HungWords
<1>6. at2[y] = base
  BY <1>5, BaseIs DEF Fits
<1>7. o # NoNode => /\ o \in us /\ at[o] = base /\ from[o] = p
                    /\ (p = NoNode <=> o = rt)
  BY <1>1, LinkIs
<1>8. /\ p # NoNode /\ f = "next" => nd[p].c < w[i] /\ base = at[p]
      /\ o # NoNode => w[i] < nd[o].c
      /\ p # NoNode /\ f = "child" => base = Word(nd, at, p)
      /\ p = NoNode => base = <<>> /\ o = rt
      /\ p # NoNode => o = IF f = "next" THEN nd[p].next ELSE nd[p].child
  BY DEF Fits, BaseAt, LinkAt
<1> HIDE DEF k, y, base
<1>9. \A u, v \in us : rank[v] < rank[u] => rank2[v] < rank2[u]
  <2> SUFFICES ASSUME NEW u \in us, NEW v \in us, rank[v] < rank[u] PROVE rank2[v] < rank2[u]
    OBVIOUS
  <2>1. rank[u] \in Nat /\ rank[v] \in Nat
    BY <1>1
  <2>2. rank2[u] = IF rank[u] >= r THEN rank[u] + k ELSE rank[u]
    BY <1>4
  <2>3. rank2[v] = IF rank[v] >= r THEN rank[v] + k ELSE rank[v]
    BY <1>4
  <2> DEFINE a == rank[u]
             b == rank[v]
  <2>4. a \in Nat /\ b \in Nat /\ b < a
    BY <2>1
  <2> HIDE DEF a, b
  <2>5. (IF b >= r THEN b + k ELSE b) < (IF a >= r THEN a + k ELSE a)
    BY <1>1, <2>4
  <2> QED
    BY <2>2, <2>3, <2>5 DEF a, b
<1>10. rank2[y] = r + k - 1
  BY <1>2, <1>4 DEF y
<1>11. o # NoNode => rank2[o] < rank2[y]
  <2> SUFFICES ASSUME o # NoNode PROVE rank2[o] < rank2[y]
    OBVIOUS
  <2>1. rank[o] \in Nat /\ rank[o] < r
    BY <1>1, <1>7
  <2>2. rank2[o] = rank[o]
    BY <1>4, <1>7, <2>1
  <2> QED
    BY <1>1, <1>10, <2>1, <2>2
<1>12. p # NoNode => rank2[y] < rank2[p]
  <2> SUFFICES ASSUME p # NoNode PROVE rank2[y] < rank2[p]
    OBVIOUS
  <2>1. rank[p] \in Nat /\ rank[p] >= r
    BY <1>1
  <2>2. rank2[p] = rank[p] + k
    BY <1>1, <1>4, <2>1
  <2> QED
    BY <1>1, <1>10, <2>1, <2>2
<1>13. ASSUME NEW z \in us2, nd2[z].next # NoNode
       PROVE  nd2[z].next \in us2 /\ NextOf(nd2, at2, rank2, from2, z, nd2[z].next)
  <2>1. CASE z = y
    <3>1. nd2[z].next = o /\ o \in us
      BY <1>3, <1>7, <1>13, <2>1
    <3>2. from2[o] = y /\ rank2[o] < rank2[y]
      BY <1>4, <1>7, <1>11, <1>13, <3>1
    <3>3. at2[o] = at2[y]
      BY <1>1, <1>4, <1>6, <1>7, <3>1
    <3>4. nd2[y].c < nd2[o].c
      BY <1>1, <1>5, <1>8, <3>1
    <3> QED
      BY <2>1, <3>1, <3>2, <3>3, <3>4 DEF NextOf
  <2>2. CASE z \in Range(ns) \ {y}
    <3>1. PICK j \in 1 .. k : z = ns[j]
      BY <1>2, <2>2
    <3>2. j # 1
      BY <2>2, <3>1 DEF y
    <3> QED
      BY <1>3, <1>13, <3>1, <3>2
  <2>3. CASE z = p /\ z \in us /\ f = "next"
    <3>1. nd2[z].next = y
      BY <1>1, <1>3, <2>3
    <3>2. from2[y] = z
      BY <1>2, <1>4, <2>3 DEF y
    <3>3. at2[y] = at2[z]
      BY <1>1, <1>4, <1>6, <1>8, <2>3
    <3>4. nd2[z].c < nd2[y].c
      BY <1>1, <1>5, <1>8, <2>3
    <3>5. rank2[y] < rank2[z]
      BY <1>1, <1>12, <2>3
    <3> QED
      BY <1>2, <3>1, <3>2, <3>3, <3>4, <3>5 DEF NextOf
  <2>4. CASE z \in us /\ (z = p => f = "child")
    <3> DEFINE v == nd[z].next
    <3>1. nd2[z].next = v
      <4>1. CASE z = p
        BY <1>1, <1>3, <2>4, <4>1
      <4>2. CASE z # p
        BY <1>1, <1>3, <2>4, <4>2
      <4> QED
        BY <4>1, <4>2
    <3>2. v \in us /\ NextOf(nd, at, rank, from, z, v)
      BY <1>13, <2>4, <3>1 DEF Shape
    <3>3. v # o
      <4> SUFFICES ASSUME v = o PROVE FALSE
        OBVIOUS
      <4>1. z = p
        BY <1>1, <1>7, <3>2 DEF NextOf
      <4>2. nd[z].next = nd[z].child
        BY <1>1, <1>8, <2>4, <4>1
      <4>3. nd[z].next # NoNode
        BY <1>13, <3>1
      <4> QED
        BY <2>4, <4>2, <4>3, NextIsNoChild
    <3> HIDE DEF v
    <3>4. rank2[v] < rank2[z]
      BY <1>9, <2>4, <3>2 DEF NextOf
    <3>5. from2[v] = z /\ at2[v] = at2[z] /\ nd2[z].c < nd2[v].c
      BY <1>4, <1>5, <2>4, <3>2, <3>3 DEF NextOf
    <3> QED
      BY <3>1, <3>2, <3>4, <3>5 DEF NextOf
  <2> QED
    BY <2>1, <2>2, <2>3, <2>4
<1>14. ASSUME NEW z \in us2, nd2[z].child # NoNode
       PROVE  nd2[z].child \in us2 /\ ChildOf(nd2, at2, rank2, from2, z, nd2[z].child)
  <2>1. CASE z \in Range(ns)
    <3>1. PICK j \in 1 .. k : z = ns[j]
      BY <1>2, <2>1
    <3>2. j # k
      BY <1>3, <1>14, <3>1
    <3>3. j \in 1 .. k - 1 /\ j + 1 \in 1 .. k /\ j + 1 # 1 /\ (j + 1) - 1 = j
      BY <1>1, <3>2
    <3> DEFINE q == j + 1
    <3> HIDE DEF q
    <3>4. q \in 1 .. k /\ q # 1 /\ q - 1 = j
      BY <3>3 DEF q
    <3>5. nd2[z].child = ns[q] /\ at2[ns[q]] = Word(nd2, at2, z)
      BY <1>3, <1>5, <3>1, <3>2, <3>3 DEF q
    <3>6. from2[ns[q]] = z
      BY <1>4, <3>1, <3>4
    <3>7. rank2[ns[q]] = r + k - q /\ rank2[z] = r + k - j
      BY <1>4, <3>1, <3>4
    <3>8. rank2[ns[q]] < rank2[z]
      <4>1. r + k - q < r + k - j
        BY <1>1, <3>3, <3>4
      <4> QED
        BY <3>7, <4>1
    <3> QED
      BY <1>2, <3>4, <3>5, <3>6, <3>8 DEF ChildOf
  <2>2. CASE z = p /\ z \in us /\ f = "child"
    <3>1. nd2[z].child = y
      BY <1>1, <1>3, <2>2
    <3>2. from2[y] = z
      BY <1>2, <1>4, <2>2 DEF y
    <3>3. at2[y] = Word(nd2, at2, z)
      BY <1>1, <1>5, <1>6, <1>8, <2>2
    <3>4. rank2[y] < rank2[z]
      BY <1>1, <1>12, <2>2
    <3> QED
      BY <1>2, <3>1, <3>2, <3>3, <3>4 DEF ChildOf
  <2>3. CASE z \in us /\ (z = p => f = "next")
    <3> DEFINE v == nd[z].child
    <3>1. nd2[z].child = v
      <4>1. CASE z = p
        BY <1>1, <1>3, <2>3, <4>1
      <4>2. CASE z # p
        BY <1>1, <1>3, <2>3, <4>2
      <4> QED
        BY <4>1, <4>2
    <3>2. v \in us /\ ChildOf(nd, at, rank, from, z, v)
      BY <1>14, <2>3, <3>1 DEF Shape
    <3>3. v # o
      <4> SUFFICES ASSUME v = o PROVE FALSE
        OBVIOUS
      <4>1. z = p
        BY <1>1, <1>7, <3>2 DEF ChildOf
      <4>2. nd[z].next = nd[z].child
        BY <1>1, <1>8, <2>3, <4>1
      <4>3. nd[z].next # NoNode
        BY <1>14, <3>1, <4>2
      <4> QED
        BY <2>3, <4>2, <4>3, NextIsNoChild
    <3> HIDE DEF v
    <3>4. rank2[v] < rank2[z]
      BY <1>9, <2>3, <3>2 DEF ChildOf
    <3>5. from2[v] = z /\ at2[v] = Word(nd2, at2, z)
      BY <1>4, <1>5, <2>3, <3>2, <3>3 DEF ChildOf
    <3> QED
      BY <3>1, <3>2, <3>4, <3>5 DEF ChildOf
  <2> QED
    BY <2>1, <2>2, <2>3
<1>15. ASSUME NEW v \in us2
       PROVE  IF v = rt2 THEN from2[v] = NoNode
                         ELSE from2[v] \in us2 /\ v \in {nd2[from2[v]].next, nd2[from2[v]].child}
  <2>1. CASE v = y
    <3>1. from2[v] = p
      BY <1>2, <1>4, <2>1 DEF y
    <3>2. ASSUME p # NoNode
          PROVE  rt2 # v /\ p \in us /\ y \in {nd2[p].next, nd2[p].child}
      <4>1. y \notin us \cup {NoNode}
        BY <1>1, <1>2
      <4>2. rt2 # v
        BY <1>1, <1>3, <2>1, <3>2, <4>1
      <4>3. p \in us
        BY <1>1, <3>2
      <4>4. y \in {nd2[p].next, nd2[p].child}
        <5>1. CASE f = "next"
          BY <1>3, <3>2, <5>1
        <5>2. CASE f # "next"
          BY <1>3, <3>2, <5>2
        <5> QED
          BY <5>1, <5>2
      <4> QED
        BY <4>2, <4>3, <4>4
    <3> QED
      BY <1>3, <2>1, <3>1, <3>2
  <2>2. CASE v \in Range(ns) \ {y}
    <3>1. PICK j \in 1 .. k : v = ns[j]
      BY <1>2, <2>2
    <3>2. j # 1
      BY <2>2, <3>1 DEF y
    <3> DEFINE q == j - 1
    <3>3. q \in 1 .. k /\ q # k /\ q + 1 = j
      BY <1>1, <3>2
    <3>4. from2[v] = ns[q]
      BY <1>4, <3>1, <3>2
    <3> HIDE DEF q
    <3>5. nd2[ns[q]].child = v
      BY <1>3, <3>1, <3>3
    <3>6. v # rt2
      <4>1. v \notin us \cup {NoNode} /\ v # y
        BY <1>1, <1>2, <2>2
      <4>2. rt2 = y \/ rt2 = rt
        BY <1>3
      <4> QED
        BY <1>1, <4>1, <4>2
    <3> QED
      BY <1>2, <3>3, <3>4, <3>5, <3>6
  <2>3. CASE v \in us /\ v = o
    <3>1. from2[v] = y
      BY <1>4, <2>3
    <3>2. v # NoNode
      BY <1>1, <2>3
    <3>3. v # rt2
      BY <1>1, <1>2, <1>3, <1>7, <2>3, <3>2
    <3> QED
      BY <1>2, <1>3, <2>3, <3>1, <3>3
  <2>4. CASE v \in us /\ v # o
    <3>1. from2[v] = from[v]
      BY <1>4, <2>4
    <3>2. v = rt2 <=> v = rt
      BY <1>1, <1>2, <1>3, <1>8, <2>4
    <3>3. ASSUME v # rt
          PROVE  from[v] \in us /\ v \in {nd2[from[v]].next, nd2[from[v]].child}
      <4> DEFINE u == from[v]
      <4>1. u \in us /\ v \in {nd[u].next, nd[u].child}
        BY <2>4, <3>3 DEF Shape
      <4> HIDE DEF u
      <4>2. v \in {nd2[u].next, nd2[u].child}
        <5>1. CASE u = p
          BY <1>1, <1>3, <1>8, <2>4, <4>1, <5>1
        <5>2. CASE u # p
          <6>1. nd2[u] = nd[u]
            BY <1>1, <1>3, <4>1, <5>2
          <6> QED
            BY <4>1, <6>1
        <5> QED
          BY <5>1, <5>2
      <4> QED
        BY <4>1, <4>2 DEF u
    <3>4. v = rt => from[v] = NoNode
      BY <1>1, <2>4 DEF Shape
    <3> QED
      BY <3>1, <3>2, <3>3, <3>4
  <2> QED
    BY <2>1, <2>2, <2>3, <2>4
<1>16. us2 \subseteq Index /\ \A z \in Index \ us2 : nd2[z] = Cleared
  <2>1. \A z \in Index \ us2 : nd2[z] = nd[z] /\ nd[z] = Cleared
    BY <1>1, <1>3 DEF Shape
  <2> QED
    BY <1>1, <1>2, <2>1
<1>17. rt2 \in us2 \cup {NoNode} /\ (rt2 # NoNode => at2[rt2] = <<>>)
  <2>1. CASE p = NoNode
    BY <1>2, <1>3, <1>6, <1>8, <2>1
  <2>2. CASE p # NoNode
    <3>1. rt2 = rt /\ (rt # NoNode => rt \in us /\ at[rt] = <<>>)
      BY <1>1, <1>3, <2>2 DEF Shape
    <3> QED
      BY <1>4, <3>1
  <2> QED
    BY <2>1, <2>2
<1> QED
  BY <1>3, <1>4, <1>13, <1>14, <1>15, <1>16, <1>17 DEF Shape, Nodes

\* The trie holds m in a tree of nodes that all lead to a word.
Tree(nd, us, rt, m) ==
  /\ Leads(nd, us)
  /\ \E at, rank, from : Shape(nd, us, rt, at, rank, from) /\ Holds(nd, us, at, m)

\* A tree that holds m, in which x ends w, and the nodes that ended words in
\* another still do.
Grown(nd, us, at, nd2, us2, rt2, m, x, w) ==
  /\ Leads(nd2, us2)
  /\ \E at2, rank2, from2 :
       /\ Shape(nd2, us2, rt2, at2, rank2, from2) /\ Holds(nd2, us2, at2, m)
       /\ Keeps(nd, us, at, nd2, us2, at2)
       /\ x \in us2 /\ nd2[x].data # NoData /\ Word(nd2, at2, x) = w

(***************************************************************************)
(* What has grown is a tree, also from what was there before.              *)
(***************************************************************************)
LEMMA GrownTree ==
  ASSUME NEW nd, NEW us, NEW at, NEW nd2, NEW us2, NEW rt2, NEW m, NEW x, NEW w,
         Grown(nd, us, at, nd2, us2, rt2, m, x, w)
  PROVE  /\ Tree(nd2, us2, rt2, m)
         /\ \A nd0, us0, at0 : Keeps(nd0, us0, at0, nd, us, at) =>
              Grown(nd0, us0, at0, nd2, us2, rt2, m, x, w)
<1>1. PICK at2, rank2, from2 :
        /\ Shape(nd2, us2, rt2, at2, rank2, from2) /\ Holds(nd2, us2, at2, m)
        /\ Keeps(nd, us, at, nd2, us2, at2)
        /\ x \in us2 /\ nd2[x].data # NoData /\ Word(nd2, at2, x) = w
  BY DEF Grown
<1>2. Leads(nd2, us2)
  BY DEF Grown
<1>3. ASSUME NEW nd0, NEW us0, NEW at0, Keeps(nd0, us0, at0, nd, us, at)
      PROVE  Keeps(nd0, us0, at0, nd2, us2, at2)
  BY <1>1, <1>3 DEF Keeps
<1>4. ASSUME NEW nd0, NEW us0, NEW at0, Keeps(nd0, us0, at0, nd, us, at)
      PROVE  Grown(nd0, us0, at0, nd2, us2, rt2, m, x, w)
  <2>1. Keeps(nd0, us0, at0, nd2, us2, at2)
    BY <1>3, <1>4
  <2> QED
    BY <1>1, <1>2, <2>1 DEF Grown
<1>5. Tree(nd2, us2, rt2, m)
  BY <1>1, <1>2 DEF Tree
<1> QED
  BY <1>4, <1>5

\* A chain of nodes for the rest of w from its i-th character on, free so far.
ChainFor(us, w, i, ns, ps) ==
  /\ ns \in Seq(Index) /\ IsInjective(ns) /\ Range(ns) \cap us = {}
  /\ Len(ns) = Len(ps) /\ \E off : PiecesOf(ps, Rest(w, i), off)

(***************************************************************************)
(* With a chain for w hung up where it belongs, w is in with its data, at  *)
(* the end of the chain.                                                   *)
(***************************************************************************)
LEMMA HoldsHung ==
  ASSUME NEW nd, NEW us, NEW rt, NEW at, NEW rank, NEW from,
         Shape(nd, us, rt, at, rank, from), Leads(nd, us), NEW m, Holds(nd, us, at, m),
         NEW w \in Seq(Nat), NEW i \in 1 .. Len(w), NEW ns, NEW ps, ChainFor(us, w, i, ns, ps),
         NEW p, NEW f \in {"next", "child"}, Fits(nd, us, rt, at, w, i, p, f),
         NEW d, d # NoData, NEW nd2, NEW rt2, HangIs(nd, nd2, rt, rt2, p, f, ns, ps, d)
  PROVE  Grown(nd, us, at, nd2, us \cup Range(ns), rt2, Also(m, w, d), ns[Len(ns)], w)
<1> DEFINE us2 == us \cup Range(ns)
           o == LinkAt(nd, rt, p, f)
           r == IF p # NoNode THEN rank[p] ELSE IF o # NoNode THEN rank[o] + 1 ELSE 0
           k == Len(ns)
<1>1. PICK off : PiecesOf(ps, Rest(w, i), off)
  BY DEF ChainFor
<1>2. /\ ns \in Seq(Index) /\ IsInjective(ns) /\ Range(ns) \cap us = {} /\ Len(ns) = Len(ps)
      /\ Len(ns) > 0 /\ k \in Nat
  BY <1>1 DEF ChainFor, PiecesOf
<1>3. /\ us \subseteq Index /\ at \in [Index -> Seq(Nat)] /\ rank \in [Index -> Nat]
      /\ from \in [Index -> Link] /\ p \in us \cup {NoNode} /\ NoNode \notin Index
      /\ p \in Link
  BY NoNodeIsNone DEF Shape, Fits
<1>4. o # NoNode => o \in us /\ (p # NoNode => rank[o] < rank[p])
  BY <1>3, LinkIs
<1>5. r \in Nat /\ (p # NoNode => r <= rank[p]) /\ (o # NoNode => rank[o] < r)
  <2>1. CASE p # NoNode
    <3>1. rank[p] \in Nat /\ r = rank[p]
      BY <1>3, <2>1
    <3> QED
      BY <1>4, <2>1, <3>1
  <2>2. CASE p = NoNode /\ o # NoNode
    <3>1. rank[o] \in Nat /\ r = rank[o] + 1
      BY <1>3, <1>4, <2>2
    <3> QED
      BY <2>2, <3>1
  <2>3. CASE p = NoNode /\ o = NoNode
    BY <2>3
  <2> QED
    BY <2>1, <2>2, <2>3
<1> DEFINE at2 == HangAts(at, ns, w, i, off)
           rank2 == HangRanks(rank, ns, r)
           from2 == HangFroms(from, ns, p, o)
<1>6. /\ off \in [1 .. Len(ns) -> Nat]
      /\ \A j \in 1 .. Len(ns) : i + off[j] <= Len(w)
  <2> DEFINE s == Rest(w, i)
             l == Len(s)
             lw == Len(w)
  <2>1. off \in [1 .. k -> Nat] /\ \A j \in 1 .. k : off[j] < l
    BY <1>1, <1>2 DEF PiecesOf
  <2>2. l \in Nat /\ lw \in Nat /\ i \in Nat /\ l = lw - i + 1
    <3>1. i \in 1 .. Len(w) + 1 /\ Len(w) \in Nat
      OBVIOUS
    <3>2. s \in Seq(Nat) /\ Len(s) = Len(w) - i + 1
      BY <3>1, RestParts
    <3> QED
      BY <3>1, <3>2
  <2> HIDE DEF l, lw, s, k
  <2>3. ASSUME NEW j \in 1 .. k PROVE i + off[j] <= lw
    <3> DEFINE a == off[j]
    <3>1. a \in Nat /\ a < l
      BY <2>1
    <3> HIDE DEF a
    <3>2. i + a <= lw
      BY <2>2, <3>1
    <3> QED
      BY <3>2 DEF a
  <2> QED
    BY <2>1, <2>3 DEF k, lw
<1> HIDE DEF o, r
<1>7. Hung(at, rank, from, at2, rank2, from2, us, ns, w, i, off, r, p, o)
  BY <1>2, <1>3, <1>5, <1>6, HungSo
<1> HIDE DEF at2, rank2, from2
<1>8. HungWords(nd, nd2, at, at2, us, ns, w, i)
  BY <1>1, <1>2, <1>3, <1>7, WordsHung
<1>9. o = LinkAt(nd, rt, p, f)
  BY DEF o
<1>10. Shape(nd2, us \cup Range(ns), rt2, at2, rank2, from2)
  BY ZenonT(30), <1>2, <1>5, <1>7, <1>8, <1>9, ShapeHung
<1> DEFINE x == ns[k]
<1>11. /\ \A j \in 1 .. k : ns[j] \in Range(ns)
       /\ \A z \in Range(ns) : \E j \in 1 .. k : z = ns[j]
       /\ \A j \in 1 .. k : ns[j] # NoNode
       /\ k \in 1 .. k /\ 1 \in 1 .. k
  BY SMTT(30), <1>2, <1>3 DEF Range
<1>12. /\ \A j \in 1 .. k : /\ nd2[ns[j]].data = IF j = k THEN d ELSE NoData
                            /\ nd2[ns[j]].child = IF j = k THEN NoNode ELSE ns[j + 1]
       /\ \A z \in us : nd2[z].data = nd[z].data
       /\ \A z \in us : nd[z].child # NoNode => nd2[z].child # NoNode
  <2>1. \A z \in Index \ (Range(ns) \cup {p}) : nd2[z] = nd[z]
    BY DEF HangIs
  <2>2. p # NoNode => nd2[p].data = nd[p].data
                      /\ nd2[p].child = IF f = "next" THEN nd[p].child ELSE ns[1]
    BY DEF HangIs
  <2>3. ns[1] # NoNode
    BY <1>11
  <2>4. ASSUME NEW z \in us
        PROVE  nd2[z].data = nd[z].data /\ (nd[z].child # NoNode => nd2[z].child # NoNode)
    <3>1. CASE z = p
      BY <1>3, <2>2, <2>3, <3>1
    <3>2. CASE z # p
      <4>1. nd2[z] = nd[z]
        BY <1>2, <1>3, <2>1, <3>2
      <4> QED
        BY <4>1
    <3> QED
      BY <3>1, <3>2
  <2>5. \A j \in 1 .. k : /\ nd2[ns[j]].data = IF j = k THEN d ELSE NoData
                          /\ nd2[ns[j]].child = IF j = k THEN NoNode ELSE ns[j + 1]
    BY DEF HangIs
  <2> QED
    BY <2>4, <2>5
<1>13. Word(nd2, at2, x) = w /\ nd2[x].data = d /\ x \in us2 /\ x \notin us
  BY <1>2, <1>8, <1>11, <1>12 DEF HungWords
<1>14. \A z \in us : Word(nd2, at2, z) = Word(nd, at, z)
  BY <1>8 DEF HungWords
<1>15. \A z \in us2 \ {x} : nd2[z].data # NoData <=> z \in us /\ nd[z].data # NoData
  <2> SUFFICES ASSUME NEW z \in us2 \ {x}
               PROVE  nd2[z].data # NoData <=> z \in us /\ nd[z].data # NoData
    OBVIOUS
  <2>1. CASE z \in us
    BY <1>12, <2>1
  <2>2. CASE z \in Range(ns)
    <3>1. PICK j \in 1 .. k : z = ns[j]
      BY <1>11, <2>2
    <3>2. z \notin us /\ nd2[z].data = NoData
      BY <1>2, <1>12, <2>2, <3>1
    <3> QED
      BY <3>2
  <2> QED
    BY <2>1, <2>2
<1>16. Leads(nd2, us2)
  <2> SUFFICES ASSUME NEW z \in us2 PROVE nd2[z].data # NoData \/ nd2[z].child # NoNode
    BY DEF Leads
  <2>1. CASE z \in us
    BY <1>12, <2>1 DEF Leads
  <2>2. CASE z \in Range(ns)
    <3>1. PICK j \in 1 .. k : z = ns[j]
      BY <1>11, <2>2
    <3>2. CASE j = k
      BY <1>12, <3>1, <3>2
    <3>3. CASE j # k
      <4>1. j + 1 \in 1 .. k
        BY <1>2, <3>3
      <4> HIDE DEF k
      <4>2. nd2[z].child = ns[j + 1]
        BY <1>12, <3>1, <3>3
      <4> QED
        BY <1>11, <4>1, <4>2
    <3> QED
      BY <3>2, <3>3
  <2> QED
    BY <2>1, <2>2
<1> HIDE DEF x, us2
<1>17. Shape(nd2, us2, rt2, at2, rank2, from2) /\ us \subseteq us2
  BY <1>10 DEF us2
<1>18. \A z \in us \ {x} : nd[z].data # NoData =>
         nd2[z].data = nd[z].data /\ Word(nd2, at2, z) = Word(nd, at, z)
  BY <1>12, <1>14
<1>19. Holds(nd2, us2, at2, Also(m, Word(nd2, at2, x), nd2[x].data))
  BY <1>13, <1>15, <1>17, <1>18, HoldsAlso
<1>20. Holds(nd2, us2, at2, Also(m, w, d))
  BY <1>13, <1>19
<1>21. Keeps(nd, us, at, nd2, us2, at2)
  BY <1>12, <1>14, <1>17 DEF Keeps
<1> QED
  BY <1>13, <1>16, <1>17, <1>20, <1>21 DEF Grown, us2, x

(***************************************************************************)
(* With data for a node, the word that it ends is in, at this node.        *)
(***************************************************************************)
LEMMA HoldsSet ==
  ASSUME NEW nd, NEW us, NEW rt, NEW at, NEW rank, NEW from,
         Shape(nd, us, rt, at, rank, from), Leads(nd, us), NEW m, Holds(nd, us, at, m),
         NEW x \in us, NEW d, d # NoData, NEW nd2, SetIs(nd, nd2, x, d)
  PROVE  Grown(nd, us, at, nd2, us, rt, Also(m, Word(nd, at, x), d), x, Word(nd, at, x))
<1>1. us \subseteq Index
  BY DEF Shape
<1>2. Shape(nd2, us, rt, at, rank, from) /\ \A z \in us : Word(nd2, at, z) = Word(nd, at, z)
  BY ShapeSet
<1>3. nd2[x].data = d /\ \A z \in us \ {x} : nd2[z] = nd[z]
  BY <1>1 DEF SetIs
<1>4. Leads(nd2, us)
  BY <1>3 DEF Leads
<1>5. Holds(nd2, us, at, Also(m, Word(nd2, at, x), nd2[x].data))
  BY <1>2, <1>3, HoldsAlso
<1>6. Keeps(nd, us, at, nd2, us, at)
  BY <1>2, <1>3 DEF Keeps
<1> QED
  BY <1>2, <1>3, <1>4, <1>5, <1>6 DEF Grown

(***************************************************************************)
(* Without the data of a node that has children, its word is not in.       *)
(***************************************************************************)
LEMMA HoldsUnset ==
  ASSUME NEW nd, NEW us, NEW rt, NEW at, NEW rank, NEW from,
         Shape(nd, us, rt, at, rank, from), Leads(nd, us), NEW m, Holds(nd, us, at, m),
         NEW x \in us, nd[x].data # NoData, nd[x].child # NoNode,
         NEW nd2, SetIs(nd, nd2, x, NoData)
  PROVE  Tree(nd2, us, rt, Without(m, Word(nd, at, x)))
<1>1. us \subseteq Index
  BY DEF Shape
<1>2. Shape(nd2, us, rt, at, rank, from) /\ \A z \in us : Word(nd2, at, z) = Word(nd, at, z)
  BY ShapeSet
<1>3. nd2[x].data = NoData /\ nd2[x].child = nd[x].child /\ \A z \in us \ {x} : nd2[z] = nd[z]
  BY <1>1 DEF SetIs
<1>4. Leads(nd2, us)
  BY <1>3 DEF Leads
<1>5. \A z \in us : nd2[z].data # NoData <=> z \in us \ {x} /\ nd[z].data # NoData
  BY <1>3
<1>6. \A z \in us \ {x} : nd[z].data # NoData =>
        z \in us /\ nd2[z].data = nd[z].data /\ Word(nd2, at, z) = Word(nd, at, z)
  BY <1>2, <1>3
<1>7. Holds(nd2, us, at, Without(m, Word(nd, at, x)))
  BY <1>5, <1>6, HoldsWithout
<1> QED
  BY <1>2, <1>4, <1>7 DEF Tree

-----------------------------------------------------------------------------
(* What the operations do to the nodes.                                    *)

\* t is nd with the chain ns of nodes, made of ps, the last of which has the data d.
ChainPut(t, nd, ns, ps, d) ==
  /\ t \in Nodes
  /\ \A z \in Index \ Range(ns) : t[z] = nd[z]
  /\ \A j \in 1 .. Len(ns) :
       /\ t[ns[j]].c = ps[j].c /\ t[ns[j]].str = ps[j].str /\ t[ns[j]].next = NoNode
       /\ t[ns[j]].data = IF j = Len(ns) THEN d ELSE NoData
       /\ t[ns[j]].child = IF j = Len(ns) THEN NoNode ELSE ns[j + 1]

(***************************************************************************)
(* A chain is put in node by node.                                         *)
(***************************************************************************)
LEMMA ChainIsPut ==
  ASSUME NEW nd \in Nodes, NEW us, NEW w, NEW i, NEW ns, NEW ps, ChainFor(us, w, i, ns, ps),
         NEW d \in Data
  PROVE  ChainPut(With(nd, Chained(ps, ns, d)), nd, ns, ps, d)
<1> DEFINE k == Len(ns)
           ch == Chained(ps, ns, d)
           t == With(nd, ch)
<1>1. PICK off : PiecesOf(ps, Rest(w, i), off)
  BY DEF ChainFor
<1>2. /\ ns \in Seq(Index) /\ ps \in Seq(Node) /\ Len(ps) = k /\ k \in Nat /\ k > 0
      /\ \A j \in 1 .. k : ps[j].data = NoData /\ ps[j].next = NoNode /\ ps[j].child = NoNode
      /\ ps[k].str = <<>>
      /\ DOMAIN ns = 1 .. k
      /\ \A j, q \in 1 .. k : ns[j] = ns[q] => j = q
  BY <1>1 DEF ChainFor, PiecesOf, IsInjective
<1>3. \A j \in 1 .. k : ps[j] \in Node /\ ns[j] \in Index /\ ns[j] \in Range(ns)
  <2> SUFFICES ASSUME NEW j \in 1 .. k
               PROVE  ps[j] \in Node /\ ns[j] \in Index /\ ns[j] \in Range(ns)
    OBVIOUS
  <2>1. j \in 1 .. Len(ps)
    BY <1>2
  <2>2. ps[j] \in Node
    BY <1>2, <2>1, ElementOfSeq
  <2> QED
    BY <1>2, <2>2 DEF Range
<1>4. \A z \in Range(ns) : \E j \in 1 .. k : z = ns[j]
  BY <1>2 DEF Range
<1>5. Range(ns) \subseteq Index
  BY <1>3, <1>4
<1> HIDE DEF k
<1>6. ASSUME NEW j \in 1 .. k
      PROVE  ch[ns[j]] = IF j = k THEN [ps[j] EXCEPT !.data = d]
                                  ELSE [ps[j] EXCEPT !.child = ns[j + 1]]
  <2> DEFINE q == CHOOSE q \in DOMAIN ns : ns[q] = ns[j]
  <2>1. q \in DOMAIN ns /\ ns[q] = ns[j]
    BY <1>2
  <2>2. q = j
    BY <1>2, <2>1
  <2>3. ch[ns[j]] = IF q = k THEN [ps[q] EXCEPT !.data = d]
                             ELSE [ps[q] EXCEPT !.child = ns[q + 1]]
    BY <1>3 DEF Chained, k
  <2> HIDE DEF q, ch
  <2> QED
    BY <2>2, <2>3
<1>7. DOMAIN ch = Range(ns)
  BY DEF Chained
<1> HIDE DEF ch
<1>8. ASSUME NEW j \in 1 .. k
      PROVE  /\ t[ns[j]].c = ps[j].c /\ t[ns[j]].str = ps[j].str /\ t[ns[j]].next = NoNode
             /\ t[ns[j]].data = IF j = k THEN d ELSE NoData
             /\ t[ns[j]].child = IF j = k THEN NoNode ELSE ns[j + 1]
             /\ t[ns[j]] \in {n \in Node : n.data = NoData \/ n.str = <<>>}
  <2>1. t[ns[j]] = ch[ns[j]] /\ ps[j] \in Node
    BY <1>3, <1>7 DEF With
  <2>2. ps[j].data = NoData /\ ps[j].next = NoNode /\ ps[j].child = NoNode
    BY <1>2
  <2>3. CASE j = k
    <3>1. t[ns[j]] = [ps[j] EXCEPT !.data = d]
      BY <1>6, <2>1, <2>3
    <3>2. ps[j].str = <<>>
      BY <1>2, <2>3
    <3> DEFINE n == ps[j]
    <3>3. n \in Node
      BY <2>1
    <3> HIDE DEF n
    <3>4. /\ [n EXCEPT !.data = d] \in Node
          /\ [n EXCEPT !.data = d].c = n.c /\ [n EXCEPT !.data = d].str = n.str
          /\ [n EXCEPT !.data = d].next = n.next /\ [n EXCEPT !.data = d].child = n.child
          /\ [n EXCEPT !.data = d].data = d
      BY <3>3 DEF Node
    <3> QED
      BY <2>2, <2>3, <3>1, <3>2, <3>4 DEF n
  <2>4. CASE j # k
    <3>1. t[ns[j]] = [ps[j] EXCEPT !.child = ns[j + 1]]
      BY <1>6, <2>1, <2>4
    <3>2. ns[j + 1] \in Link
      <4>1. j + 1 \in 1 .. k
        BY <1>2, <2>4
      <4> QED
        BY <1>3, <4>1, NoNodeIsNone
    <3> DEFINE n == ps[j]
               y == ns[j + 1]
    <3>3. n \in Node /\ y \in Link
      BY <2>1, <3>2
    <3> HIDE DEF n, y
    <3>4. /\ [n EXCEPT !.child = y] \in Node
          /\ [n EXCEPT !.child = y].c = n.c /\ [n EXCEPT !.child = y].str = n.str
          /\ [n EXCEPT !.child = y].next = n.next /\ [n EXCEPT !.child = y].data = n.data
          /\ [n EXCEPT !.child = y].child = y
      BY <3>3 DEF Node
    <3> QED
      BY <2>2, <2>4, <3>1, <3>4 DEF n, y
  <2> QED
    BY <2>3, <2>4
<1>9. \A z \in Index \ Range(ns) : t[z] = nd[z]
  BY <1>7 DEF With
<1>10. t \in Nodes
  <2>1. \A z \in Index : t[z] \in {n \in Node : n.data = NoData \/ n.str = <<>>}
    BY <1>4, <1>8, <1>9 DEF Nodes
  <2>2. t = [z \in Index |-> t[z]]
    BY DEF With
  <2> QED
    BY <2>1, <2>2 DEF Nodes
<1> QED
  BY <1>8, <1>9, <1>10 DEF ChainPut, k, ch

(***************************************************************************)
(* A chain put in is hung up behind a node, below it, or at the root.      *)
(***************************************************************************)
LEMMA ChainIsHung ==
  ASSUME NEW nd \in Nodes, NEW us \in SUBSET Index, NEW rt \in Link,
         NEW w, NEW i, NEW ns, NEW ps, ChainFor(us, w, i, ns, ps),
         NEW d \in Data, NEW t, ChainPut(t, nd, ns, ps, d)
  PROVE  /\ \A p \in us :
              /\ HangIs(nd, AfterPrev(t, p, ns[1]), rt, rt, p, "next", ns, ps, d)
              /\ HangIs(nd, UnderParent(t, p, ns[1]), rt, rt, p, "child", ns, ps, d)
              /\ nd[p].child = NoNode =>
                   HangIs(nd, [t EXCEPT ![p].child = ns[1]], rt, rt, p, "child", ns, ps, d)
         /\ HangIs(nd, [t EXCEPT ![ns[1]].next = rt], rt, ns[1], NoNode, "child", ns, ps, d)
         /\ rt = NoNode => HangIs(nd, t, rt, ns[1], NoNode, "child", ns, ps, d)
<1> DEFINE k == Len(ns)
           y == ns[1]
<1>1. /\ ns \in Seq(Index) /\ k \in Nat /\ k > 0 /\ Range(ns) \cap us = {}
      /\ \A j, q \in 1 .. k : ns[j] = ns[q] => j = q
      /\ \A j \in 1 .. k : ns[j] \in Index /\ ns[j] \in Range(ns)
  BY DEF ChainFor, PiecesOf, IsInjective, Range
<1>2. y \in Index /\ y \in Range(ns) /\ y # NoNode /\ \A p \in us : p # y /\ p # NoNode
  BY <1>1, NoNodeIsNone
<1>3. /\ t \in Nodes
      /\ \A z \in Index \ Range(ns) : t[z] = nd[z]
      /\ \A j \in 1 .. k :
           /\ t[ns[j]].c = ps[j].c /\ t[ns[j]].str = ps[j].str /\ t[ns[j]].next = NoNode
           /\ t[ns[j]].data = IF j = k THEN d ELSE NoData
           /\ t[ns[j]].child = IF j = k THEN NoNode ELSE ns[j + 1]
  BY DEF ChainPut
<1> HIDE DEF k
<1>4. \A z \in Index : t[z] \in Node /\ (t[z].data = NoData \/ t[z].str = <<>>)
  BY <1>3 DEF Nodes
<1> DEFINE But(t2, p, x, n, c) ==
             /\ t2 \in Nodes /\ \A z \in Index \ {y, p} : t2[z] = t[z]
             /\ t2[y].c = t[y].c /\ t2[y].str = t[y].str /\ t2[y].data = t[y].data
             /\ t2[y].next = x /\ t2[y].child = t[y].child
             /\ p # NoNode => t2[p].c = t[p].c /\ t2[p].str = t[p].str /\ t2[p].data = t[p].data
                              /\ t2[p].next = n /\ t2[p].child = c
<1>5. ASSUME NEW p \in us \cup {NoNode}, NEW f, NEW t2, NEW x, x = LinkAt(nd, rt, p, f),
             NEW n, p # NoNode => n = IF f = "next" THEN y ELSE nd[p].next,
             NEW c, p # NoNode => c = IF f = "next" THEN nd[p].child ELSE y,
             But(t2, p, x, n, c)
      PROVE  HangIs(nd, t2, rt, IF p = NoNode THEN y ELSE rt, p, f, ns, ps, d)
  <2>1. t2 \in Nodes /\ \A z \in Index \ (Range(ns) \cup {p}) : t2[z] = nd[z]
    BY <1>2, <1>3, <1>5
  <2>2. ASSUME NEW j \in 1 .. k
        PROVE  /\ t2[ns[j]].c = ps[j].c /\ t2[ns[j]].str = ps[j].str
               /\ t2[ns[j]].data = IF j = k THEN d ELSE NoData
               /\ t2[ns[j]].next = IF j = 1 THEN LinkAt(nd, rt, p, f) ELSE NoNode
               /\ t2[ns[j]].child = IF j = k THEN NoNode ELSE ns[j + 1]
    <3>1. CASE j = 1
      BY <1>3, <1>5, <3>1
    <3>2. CASE j # 1
      <4>1. ns[j] # y
        BY <1>1, <3>2
      <4>2. ns[j] # p /\ ns[j] \in Index
        BY <1>1, NoNodeIsNone
      <4>3. t2[ns[j]] = t[ns[j]]
        BY <1>5, <4>1, <4>2
      <4> QED
        BY <1>3, <3>2, <4>3
    <3> QED
      BY <3>1, <3>2
  <2>3. p # NoNode =>
          /\ t2[p].c = nd[p].c /\ t2[p].str = nd[p].str /\ t2[p].data = nd[p].data
          /\ t2[p].next = IF f = "next" THEN y ELSE nd[p].next
          /\ t2[p].child = IF f = "next" THEN nd[p].child ELSE y
    <3> SUFFICES ASSUME p # NoNode
                 PROVE  /\ t2[p].c = nd[p].c /\ t2[p].str = nd[p].str /\ t2[p].data = nd[p].data
                        /\ t2[p].next = IF f = "next" THEN y ELSE nd[p].next
                        /\ t2[p].child = IF f = "next" THEN nd[p].child ELSE y
      OBVIOUS
    <3>1. t[p] = nd[p]
      BY <1>1, <1>3
    <3> QED
      BY <1>5, <3>1
  <2> HIDE DEF But
  <2> QED
    BY <2>1, <2>2, <2>3 DEF HangIs, k
<1>6. ASSUME NEW p \in us
      PROVE  But(AfterPrev(t, p, y), p, nd[p].next, y, nd[p].child)
  <2> DEFINE t2 == AfterPrev(t, p, y)
  <2>1. t[p] = nd[p] /\ p \in Index
    BY <1>1, <1>3
  <2>2. /\ \A z \in Index \ {y, p} : t2[z] = t[z]
        /\ t2[y] = [t[y] EXCEPT !.next = nd[p].next]
        /\ t2[p] = [t[p] EXCEPT !.next = y]
        /\ t2 = [z \in Index |-> t2[z]]
    BY <1>2, <1>3, <2>1 DEF AfterPrev, Nodes
  <2> HIDE DEF t2
  <2>3. t[y] \in Node /\ t[p] \in Node /\ nd[p].next \in Link /\ y \in Link
    BY <1>2, <1>4, <2>1, NoNodeIsNone DEF Node
  <2>4. /\ t2[y] \in Node /\ t2[p] \in Node
        /\ t2[y].c = t[y].c /\ t2[y].str = t[y].str /\ t2[y].data = t[y].data
        /\ t2[y].next = nd[p].next /\ t2[y].child = t[y].child
        /\ t2[p].c = t[p].c /\ t2[p].str = t[p].str /\ t2[p].data = t[p].data
        /\ t2[p].next = y /\ t2[p].child = t[p].child
    BY <2>2, <2>3 DEF Node
  <2>5. ASSUME NEW z \in Index PROVE t2[z] \in {n \in Node : n.data = NoData \/ n.str = <<>>}
    <3>1. CASE z = y
      BY <1>2, <1>4, <2>4, <3>1
    <3>2. CASE z = p
      BY <1>4, <2>1, <2>4, <3>2
    <3>3. CASE z \notin {y, p}
      BY <1>4, <2>2, <3>3
    <3> QED
      BY <3>1, <3>2, <3>3
  <2>6. t2 \in Nodes
    BY <2>2, <2>5 DEF Nodes
  <2> QED
    BY <2>1, <2>2, <2>4, <2>6 DEF t2
<1>7. ASSUME NEW p \in us
      PROVE  But(UnderParent(t, p, y), p, nd[p].child, nd[p].next, y)
  <2> DEFINE t2 == UnderParent(t, p, y)
  <2>1. t[p] = nd[p] /\ p \in Index
    BY <1>1, <1>3
  <2>2. /\ \A z \in Index \ {y, p} : t2[z] = t[z]
        /\ t2[y] = [t[y] EXCEPT !.next = nd[p].child]
        /\ t2[p] = [t[p] EXCEPT !.child = y]
        /\ t2 = [z \in Index |-> t2[z]]
    BY <1>2, <1>3, <2>1 DEF UnderParent, Nodes
  <2> HIDE DEF t2
  <2>3. t[y] \in Node /\ t[p] \in Node /\ nd[p].child \in Link /\ y \in Link
    BY <1>2, <1>4, <2>1, NoNodeIsNone DEF Node
  <2>4. /\ t2[y] \in Node /\ t2[p] \in Node
        /\ t2[y].c = t[y].c /\ t2[y].str = t[y].str /\ t2[y].data = t[y].data
        /\ t2[y].next = nd[p].child /\ t2[y].child = t[y].child
        /\ t2[p].c = t[p].c /\ t2[p].str = t[p].str /\ t2[p].data = t[p].data
        /\ t2[p].child = y /\ t2[p].next = t[p].next
    BY <2>2, <2>3 DEF Node
  <2>5. ASSUME NEW z \in Index PROVE t2[z] \in {n \in Node : n.data = NoData \/ n.str = <<>>}
    <3>1. CASE z = y
      BY <1>2, <1>4, <2>4, <3>1
    <3>2. CASE z = p
      BY <1>4, <2>1, <2>4, <3>2
    <3>3. CASE z \notin {y, p}
      BY <1>4, <2>2, <3>3
    <3> QED
      BY <3>1, <3>2, <3>3
  <2>6. t2 \in Nodes
    BY <2>2, <2>5 DEF Nodes
  <2> QED
    BY <2>1, <2>2, <2>4, <2>6 DEF t2
<1>8. ASSUME NEW p \in us, nd[p].child = NoNode
      PROVE  But([t EXCEPT ![p].child = y], p, nd[p].child, nd[p].next, y)
  <2> DEFINE t2 == [t EXCEPT ![p].child = y]
  <2>1. t[p] = nd[p] /\ p \in Index
    BY <1>1, <1>3
  <2>2. /\ \A z \in Index \ {p} : t2[z] = t[z]
        /\ t2[p] = [t[p] EXCEPT !.child = y]
        /\ t2 = [z \in Index |-> t2[z]]
    BY <1>2, <1>3, <2>1 DEF Nodes
  <2>3. t[y].next = NoNode /\ 1 \in 1 .. k
    BY <1>1, <1>3
  <2> HIDE DEF t2
  <2>4. t[p] \in Node /\ y \in Link
    BY <1>2, <1>4, <2>1, NoNodeIsNone
  <2>5. /\ t2[p] \in Node
        /\ t2[p].c = t[p].c /\ t2[p].str = t[p].str /\ t2[p].data = t[p].data
        /\ t2[p].child = y /\ t2[p].next = t[p].next
    BY <2>2, <2>4 DEF Node
  <2>6. \A z \in Index : t2[z] \in {n \in Node : n.data = NoData \/ n.str = <<>>}
    BY ZenonT(30), <1>4, <2>1, <2>2, <2>5
  <2>7. t2 \in Nodes
    BY <2>2, <2>6 DEF Nodes
  <2>8. t2[y] = t[y]
    BY <1>2, <2>2
  <2> QED
    BY <1>8, <2>1, <2>2, <2>3, <2>5, <2>7, <2>8 DEF t2
<1>9. But([t EXCEPT ![y].next = rt], NoNode, rt, NoNode, NoNode)
  <2> DEFINE t2 == [t EXCEPT ![y].next = rt]
  <2>1. /\ \A z \in Index \ {y} : t2[z] = t[z]
        /\ t2[y] = [t[y] EXCEPT !.next = rt]
        /\ t2 = [z \in Index |-> t2[z]]
    BY <1>2, <1>3 DEF Nodes
  <2> HIDE DEF t2
  <2>2. t[y] \in Node
    BY <1>2, <1>4
  <2>3. /\ t2[y] \in Node
        /\ t2[y].c = t[y].c /\ t2[y].str = t[y].str /\ t2[y].data = t[y].data
        /\ t2[y].next = rt /\ t2[y].child = t[y].child
    BY <2>1, <2>2 DEF Node
  <2>4. \A z \in Index : t2[z] \in {n \in Node : n.data = NoData \/ n.str = <<>>}
    BY ZenonT(30), <1>2, <1>4, <2>1, <2>3
  <2>5. t2 \in Nodes
    BY <2>1, <2>4 DEF Nodes
  <2> QED
    BY <2>1, <2>3, <2>5 DEF t2
<1>10. rt = NoNode => But(t, NoNode, rt, NoNode, NoNode)
  <2>1. t[y].next = NoNode
    BY <1>1, <1>3
  <2> QED
    BY <1>3, <2>1
<1>11. /\ \A p \in us : /\ LinkAt(nd, rt, p, "next") = nd[p].next
                       /\ LinkAt(nd, rt, p, "child") = nd[p].child
       /\ LinkAt(nd, rt, NoNode, "child") = rt
  BY <1>2 DEF LinkAt
<1> HIDE DEF But
<1>12. ASSUME NEW p \in us
       PROVE  /\ HangIs(nd, AfterPrev(t, p, y), rt, rt, p, "next", ns, ps, d)
              /\ HangIs(nd, UnderParent(t, p, y), rt, rt, p, "child", ns, ps, d)
              /\ nd[p].child = NoNode =>
                   HangIs(nd, [t EXCEPT ![p].child = y], rt, rt, p, "child", ns, ps, d)
  <2>1. p # NoNode /\ p \in us \cup {NoNode}
    BY <1>2
  <2>2. HangIs(nd, AfterPrev(t, p, y), rt, rt, p, "next", ns, ps, d)
    <3>1. HangIs(nd, AfterPrev(t, p, y), rt, IF p = NoNode THEN y ELSE rt, p, "next", ns, ps, d)
      BY <1>5, <1>6, <1>11, <2>1
    <3> QED
      BY <2>1, <3>1
  <2>3. HangIs(nd, UnderParent(t, p, y), rt, rt, p, "child", ns, ps, d)
    <3>1. HangIs(nd, UnderParent(t, p, y), rt, IF p = NoNode THEN y ELSE rt, p, "child", ns, ps, d)
      BY <1>5, <1>7, <1>11, <2>1
    <3> QED
      BY <2>1, <3>1
  <2>4. ASSUME nd[p].child = NoNode
        PROVE  HangIs(nd, [t EXCEPT ![p].child = y], rt, rt, p, "child", ns, ps, d)
    <3> DEFINE t2 == [t EXCEPT ![p].child = y]
    <3>1. But(t2, p, nd[p].child, nd[p].next, y)
      BY <1>8, <2>4
    <3> HIDE DEF t2
    <3>2. HangIs(nd, t2, rt, IF p = NoNode THEN y ELSE rt, p, "child", ns, ps, d)
      BY <1>5, <1>11, <2>1, <3>1
    <3> QED
      BY <2>1, <3>2 DEF t2
  <2> QED
    BY <2>2, <2>3, <2>4
<1>13. HangIs(nd, [t EXCEPT ![y].next = rt], rt, y, NoNode, "child", ns, ps, d)
  <2> DEFINE t2 == [t EXCEPT ![y].next = rt]
  <2>1. But(t2, NoNode, rt, NoNode, NoNode)
    BY <1>9
  <2> HIDE DEF t2
  <2>2. HangIs(nd, t2, rt, IF NoNode = NoNode THEN y ELSE rt, NoNode, "child", ns, ps, d)
    BY <1>5, <1>11, <2>1
  <2> QED
    BY <2>2 DEF t2
<1>14. rt = NoNode => HangIs(nd, t, rt, y, NoNode, "child", ns, ps, d)
  <2> SUFFICES ASSUME rt = NoNode PROVE HangIs(nd, t, rt, y, NoNode, "child", ns, ps, d)
    OBVIOUS
  <2>1. HangIs(nd, t, rt, IF NoNode = NoNode THEN y ELSE rt, NoNode, "child", ns, ps, d)
    BY <1>5, <1>10, <1>11
  <2> QED
    BY <2>1
<1> QED
  BY <1>12, <1>13, <1>14

-----------------------------------------------------------------------------
(* A node is split in two.                                                 *)

\* x split: n characters of its piece stay, y below it takes the rest.
SplitOf(nd, x, n, y) ==
  [nd EXCEPT ![x] = [nd[x] EXCEPT !.child = y, !.str = SubSeq(@, 1, n)],
             ![y] = [Cleared EXCEPT !.c = nd[x].str[n + 1], !.str = Rest(nd[x].str, n + 2),
                                    !.child = nd[x].child]]

(***************************************************************************)
(* Parts of a piece that is cut.                                           *)
(***************************************************************************)
LEMMA CutPiece ==
  ASSUME NEW t \in Seq(Nat), NEW n \in 0 .. Len(t) - 1
  PROVE  /\ SubSeq(t, 1, n) \in Seq(Nat) /\ Len(SubSeq(t, 1, n)) = n
         /\ \A j \in 1 .. n : SubSeq(t, 1, n)[j] = t[j]
         /\ t[n + 1] \in Nat
         /\ Rest(t, n + 2) \in Seq(Nat) /\ Len(Rest(t, n + 2)) = Len(t) - n - 1
         /\ \A j \in 1 .. Len(t) - n - 1 : Rest(t, n + 2)[j] = t[n + 1 + j]
<1>1. Len(t) \in Nat /\ n \in 0 .. Len(t) /\ n + 1 \in 1 .. Len(t) /\ n + 2 \in 1 .. Len(t) + 1
      /\ Len(t) - (n + 2) + 1 = Len(t) - n - 1
  OBVIOUS
<1>2. /\ SubSeq(t, 1, n) \in Seq(Nat) /\ Len(SubSeq(t, 1, n)) = n
      /\ \A j \in 1 .. n : SubSeq(t, 1, n)[j] = t[j]
  BY <1>1, Beginning
<1>3. t[n + 1] \in Nat
  BY <1>1, ElementOfSeq
<1>4. /\ Rest(t, n + 2) \in Seq(Nat) /\ Len(Rest(t, n + 2)) = Len(t) - n - 1
      /\ \A j \in 1 .. Len(t) - n - 1 : Rest(t, n + 2)[j] = t[n + 2 + j - 1]
  BY <1>1, RestParts
<1>5. ASSUME NEW j \in 1 .. Len(t) - n - 1 PROVE Rest(t, n + 2)[j] = t[n + 1 + j]
  <2>1. n + 2 + j - 1 = n + 1 + j
    BY <1>1
  <2> QED
    BY <1>4, <2>1
<1> QED
  BY <1>2, <1>3, <1>4, <1>5

(***************************************************************************)
(* A cleared node is a node.                                               *)
(***************************************************************************)
LEMMA ClearedIsNode ==
  /\ Cleared \in Node
  /\ Cleared.str = <<>> /\ Cleared.next = NoNode /\ Cleared.child = NoNode /\ Cleared.data = NoData
<1>1. <<>> \in Seq(Nat) /\ NoNode \in Link
  BY NoNodeIsNone
<1> QED
  BY <1>1 DEF Cleared, Node

(***************************************************************************)
(* Nodes with the same fields are the same.                                *)
(***************************************************************************)
LEMMA SameNode ==
  ASSUME NEW a \in Node, NEW b \in Node, a.c = b.c, a.str = b.str, a.data = b.data,
         a.next = b.next, a.child = b.child
  PROVE  a = b
BY DEF Node

(***************************************************************************)
(* A node is split as said.                                                *)
(***************************************************************************)
LEMMA SplitSplits ==
  ASSUME NEW nd \in Nodes, NEW x \in Index, NEW y \in Index, x # y,
         NEW n \in Nat, n < Size(nd, x), nd[x].data = NoData
  PROVE  SplitIs(nd, SplitOf(nd, x, n, y), x, n, y)
<1> DEFINE t == nd[x].str
           nd2 == SplitOf(nd, x, n, y)
           old == nd[x]
           s1 == SubSeq(t, 1, n)
           s2 == Rest(t, n + 2)
           c == t[n + 1]
           low == [Cleared EXCEPT !.c = c, !.str = s2, !.child = old.child]
<1>1. old \in Node /\ t \in Seq(Nat) /\ Len(t) = Size(nd, x) /\ t = old.str /\ old.data = NoData
  BY DEF Nodes, Node, Size
<1>2. n \in 0 .. Len(t) - 1
  BY <1>1
<1>3. s1 \in Seq(Nat) /\ c \in Nat /\ s2 \in Seq(Nat)
  <2> HIDE DEF t
  <2> QED
    BY <1>1, <1>2, CutPiece
<1>4. nd2 = [nd EXCEPT ![x] = [old EXCEPT !.child = y, !.str = s1], ![y] = low]
  BY DEF SplitOf
<1> HIDE DEF nd2, s1, s2, c, t
<1>5. /\ nd2[x] = [old EXCEPT !.child = y, !.str = s1] /\ nd2[y] = low
      /\ \A z \in Index \ {x, y} : nd2[z] = nd[z]
      /\ nd2 = [z \in Index |-> nd2[z]]
  BY <1>4 DEF Nodes
<1> HIDE DEF old
<1>6. y \in Link /\ old.child \in Link
  BY <1>1, NoNodeIsNone DEF Node
<1>7. /\ nd2[x] \in Node
      /\ nd2[x].c = old.c /\ nd2[x].str = s1 /\ nd2[x].data = old.data
      /\ nd2[x].next = old.next /\ nd2[x].child = y
  BY <1>1, <1>3, <1>5, <1>6 DEF Node
<1>8. /\ nd2[y] \in Node
      /\ nd2[y].c = c /\ nd2[y].str = s2 /\ nd2[y].data = NoData
      /\ nd2[y].next = NoNode /\ nd2[y].child = old.child
  BY <1>3, <1>5, <1>6, NoNodeIsNone DEF Node, Cleared
<1>9. ASSUME NEW z \in Index PROVE nd2[z] \in {v \in Node : v.data = NoData \/ v.str = <<>>}
  <2>1. CASE z \in {x, y}
    BY <1>1, <1>7, <1>8, <2>1
  <2>2. CASE z \notin {x, y}
    BY <1>5, <2>2 DEF Nodes
  <2> QED
    BY <2>1, <2>2
<1>10. nd2 \in Nodes
  BY <1>5, <1>9 DEF Nodes
<1> QED
  BY <1>5, <1>7, <1>8, <1>10 DEF SplitIs, nd2, old, t, s1, s2, c

(***************************************************************************)
(* __trie_split_0_set splits off the whole piece and puts the data in its  *)
(* place.                                                                  *)
(***************************************************************************)
LEMMA SplitAt0Is ==
  ASSUME node \in Nodes, NEW x \in Index, NEW y \in Index, x # y, NEW d \in Data,
         0 < Size(node, x), NEW m, SplitIs(node, m, x, 0, y)
  PROVE  SetIs(m, SplitAt0(x, y, d), x, d)
<1> DEFINE t == node[x].str
           old == node[x]
           nd2 == SplitAt0(x, y, d)
<1>1. old \in Node /\ t \in Seq(Nat) /\ Len(t) = Size(node, x) /\ t = old.str
  BY DEF Nodes, Node, Size
<1>2. 0 \in 0 .. Len(t) - 1 /\ t # <<>>
  BY <1>1
<1>3. Tail(t) = Rest(t, 2) /\ SubSeq(t, 1, 0) = <<>>
  BY SMTT(30), <1>1, <1>2, TailIsSubSeq, SubSeqEmpty DEF Rest
<1>4. /\ m \in Nodes /\ (\A z \in Index \ {x, y} : m[z] = node[z])
      /\ m[x].c = old.c /\ m[x].str = <<>> /\ m[x].next = old.next /\ m[x].child = y
      /\ m[y].c = t[1] /\ m[y].str = Tail(t) /\ m[y].data = NoData
      /\ m[y].next = NoNode /\ m[y].child = old.child
  BY <1>3 DEF SplitIs
<1>5. m[x] \in Node /\ m[y] \in Node
  BY <1>4 DEF Nodes
<1> DEFINE low == [Cleared EXCEPT !.c = t[1], !.str = Tail(t), !.child = old.child]
           up  == [old EXCEPT !.child = y, !.str = <<>>, !.data = d]
<1>6. /\ nd2[x] = up /\ nd2[y] = low /\ (\A z \in Index \ {x, y} : nd2[z] = node[z])
      /\ nd2 = [z \in Index |-> nd2[z]]
  BY DEF SplitAt0, Nodes
<1> HIDE DEF nd2, t, old
<1>7. y \in Link /\ old.child \in Link
  BY <1>1, NoNodeIsNone DEF Node
<1>8. t[1] \in Nat /\ Tail(t) \in Seq(Nat)
  BY <1>4, <1>5 DEF Node
<1>9. /\ nd2[x] \in Node /\ nd2[x].c = old.c /\ nd2[x].str = <<>> /\ nd2[x].data = d
      /\ nd2[x].next = old.next /\ nd2[x].child = y
  <2>1. old = [c |-> old.c, str |-> old.str, data |-> old.data, next |-> old.next,
               child |-> old.child]
    BY <1>1 DEF Node
  <2>2. nd2[x] = [c |-> old.c, str |-> <<>>, data |-> d, next |-> old.next, child |-> y]
    BY <1>6, <2>1
  <2>3. /\ old.c \in Nat /\ <<>> \in Seq(Nat) /\ d \in Data \cup {NoData}
        /\ old.next \in Link
    BY <1>1 DEF Node
  <2> QED
    BY <1>7, <2>2, <2>3 DEF Node
<1>10. /\ nd2[y] \in Node /\ nd2[y].c = t[1] /\ nd2[y].str = Tail(t) /\ nd2[y].data = NoData
       /\ nd2[y].next = NoNode /\ nd2[y].child = old.child
  BY <1>6, <1>7, <1>8, NoNodeIsNone DEF Node, Cleared
<1>11. nd2[y] = m[y]
  BY ZenonT(30), <1>4, <1>5, <1>10, SameNode
<1>12. \A z \in Index \ {x} : nd2[z] = m[z]
  BY <1>4, <1>6, <1>11
<1>13. ASSUME NEW z \in Index PROVE nd2[z] \in {v \in Node : v.data = NoData \/ v.str = <<>>}
  <2>1. CASE z = x
    BY <1>9, <2>1
  <2>2. CASE z # x
    BY <1>4, <1>12, <2>2 DEF Nodes
  <2> QED
    BY <2>1, <2>2
<1>14. nd2 \in Nodes
  BY <1>6, <1>13 DEF Nodes
<1> QED
  BY <1>4, <1>9, <1>12, <1>14 DEF SetIs, nd2, old, t

(***************************************************************************)
(* __trie_split_n_child splits before the last character of the word, and  *)
(* again after it if the piece goes on, and puts the data in its place.    *)
(***************************************************************************)
LEMMA SplitAtChildIs ==
  ASSUME node \in Nodes, NEW x \in Index, NEW ns, NEW n \in 1 .. Size(node, x), NEW d \in Data,
         ns[1] \in Index, ns[1] # x, NEW m1, SplitIs(node, m1, x, n - 1, ns[1]), NEW m,
         IF n = Size(node, x) THEN m = m1
         ELSE ns[2] \in Index /\ ns[2] \notin {x, ns[1]} /\ SplitIs(m1, m, ns[1], 0, ns[2])
  PROVE  SetIs(m, SplitAtChild(x, n, ns, d), ns[1], d)
<1> DEFINE t == node[x].str
           old == node[x]
           nd2 == SplitAtChild(x, n, ns, d)
           whole == n = Size(node, x)
           y == ns[1]
           y2 == ns[2]
<1>1. old \in Node /\ t \in Seq(Nat) /\ Len(t) = Size(node, x) /\ t = old.str /\ Len(old.str) = Len(t)
  BY DEF Nodes, Node, Size
<1>2. Len(t) \in Nat /\ n \in Nat /\ n - 1 \in 0 .. Len(t) - 1 /\ (n - 1) + 1 = n /\ (n - 1) + 2 = n + 1
      /\ n + 1 \in 1 .. Len(t) + 1
  BY <1>1
<1>3. /\ m1 \in Nodes /\ (\A z \in Index \ {x, y} : m1[z] = node[z])
      /\ m1[x].c = old.c /\ m1[x].str = SubSeq(t, 1, n - 1) /\ m1[x].data = old.data
      /\ m1[x].next = old.next /\ m1[x].child = y
      /\ m1[y].c = t[n] /\ m1[y].str = Rest(t, n + 1) /\ m1[y].data = NoData
      /\ m1[y].next = NoNode /\ m1[y].child = old.child
  BY <1>2 DEF SplitIs
<1>4. m1[x] \in Node /\ m1[y] \in Node /\ SubSeq(t, 1, n - 1) \in Seq(Nat) /\ t[n] \in Nat
      /\ Rest(t, n + 1) \in Seq(Nat)
  <2>1. m1[x] \in Node /\ m1[y] \in Node
    BY <1>3 DEF Nodes
  <2> QED
    BY <1>3, <2>1 DEF Node
<1> DEFINE dend  == [Cleared EXCEPT !.c = t[n], !.data = d,
                                    !.child = IF whole THEN old.child ELSE y2]
           lower == [Cleared EXCEPT !.c = t[n + 1], !.str = Rest(t, n + 2), !.child = old.child]
           up    == [old EXCEPT !.child = y, !.str = SubSeq(@, 1, n - 1)]
           ends  == [node EXCEPT ![x] = up, ![y] = dend]
<1>5. nd2 = IF whole THEN ends ELSE [ends EXCEPT ![y2] = lower]
  BY <1>1 DEF SplitAtChild
<1>6. /\ ends[x] = up /\ ends[y] = dend /\ (\A z \in Index \ {x, y} : ends[z] = node[z])
      /\ ends = [z \in Index |-> ends[z]] /\ DOMAIN ends = Index
  BY DEF Nodes
<1> HIDE DEF ends, nd2, t, old
<1>7. /\ up \in Node /\ up.c = old.c /\ up.str = SubSeq(t, 1, n - 1) /\ up.data = old.data
      /\ up.next = old.next /\ up.child = y
  BY <1>1, <1>4, NoNodeIsNone DEF Node
<1>8. up = m1[x]
  <2> HIDE DEF up
  <2> QED
    BY <1>3, <1>4, <1>7, SameNode
<1>9. ASSUME NEW c \in Link, c = IF whole THEN old.child ELSE y2
      PROVE  /\ dend \in Node /\ dend.c = t[n] /\ dend.str = <<>> /\ dend.data = d
             /\ dend.next = NoNode /\ dend.child = c
  <2> DEFINE e == [Cleared EXCEPT !.c = t[n], !.data = d, !.child = c]
  <2>1. dend = e
    BY <1>9
  <2> HIDE DEF dend
  <2>2. /\ e \in Node /\ e.c = t[n] /\ e.str = <<>> /\ e.data = d
        /\ e.next = NoNode /\ e.child = c
    <3>1. t[n] \in Nat /\ d \in Data \cup {NoData}
      BY <1>4
    <3>2. /\ Cleared \in Node
          /\ Cleared.str = <<>> /\ Cleared.next = NoNode
      BY ClearedIsNode
    <3> QED
      BY <3>1, <3>2 DEF Node
  <2> QED
    BY <2>1, <2>2
<1> HIDE DEF up, dend
<1>10. ASSUME m \in Nodes, \A z \in Index \ {y} : nd2[z] = m[z], nd2 = [z \in Index |-> nd2[z]],
              nd2[y] \in Node, nd2[y].str = <<>>
       PROVE  nd2 \in Nodes
  <2>1. \A z \in Index : nd2[z] \in {v \in Node : v.data = NoData \/ v.str = <<>>}
    BY <1>10 DEF Nodes
  <2> QED
    BY <1>10, <2>1 DEF Nodes
<1>11. CASE whole
  <2>1. m = m1 /\ nd2 = ends
    BY <1>5, <1>11
  <2>2. n + 1 > Len(t)
    BY <1>1, <1>2, <1>11
  <2>3. Rest(t, n + 1) = <<>>
    BY <1>2, <2>2, SubSeqEmpty DEF Rest
  <2>4. old.child \in Link
    BY <1>1 DEF Node
  <2>5. /\ nd2[y] \in Node /\ nd2[y].c = t[n] /\ nd2[y].str = <<>> /\ nd2[y].data = d
        /\ nd2[y].next = NoNode /\ nd2[y].child = old.child
    BY <1>6, <1>9, <1>11, <2>1, <2>4
  <2>6. \A z \in Index \ {y} : nd2[z] = m[z]
    BY <1>3, <1>6, <1>8, <2>1
  <2>7. nd2 \in Nodes
    BY <1>3, <1>6, <1>10, <2>1, <2>5, <2>6
  <2> QED
    BY <1>3, <2>1, <2>3, <2>5, <2>6, <2>7 DEF SetIs, nd2
<1>12. CASE ~whole
  <2>1. /\ y2 \in Index /\ y2 \notin {x, y} /\ SplitIs(m1, m, y, 0, y2)
        /\ nd2 = [ends EXCEPT ![y2] = lower]
    BY <1>5, <1>12
  <2>2. n \in 0 .. Len(t) - 1
    BY <1>1, <1>2, <1>12
  <2>3. n + 1 \in 1 .. Len(t) + 1 /\ 1 \in 1 .. Len(t) - (n + 1) + 1
        /\ (n + 1) + 1 - 1 = n + 1
    BY <1>2, <2>2
  <2> DEFINE s == Rest(t, n + 1)
  <2>4. s \in Seq(Nat) /\ Len(s) = Len(t) - (n + 1) + 1 /\ s[1] = t[n + 1]
    BY ZenonT(30), <1>1, <2>3, RestParts
  <2>5. Rest(s, 2) = Rest(t, n + 2) /\ SubSeq(s, 1, 0) = <<>>
    <3>1. s # <<>>
      BY <2>3, <2>4
    <3> HIDE DEF s
    <3>2. Tail(s) = Rest(s, 2) /\ SubSeq(s, 1, 0) = <<>>
      BY <2>4, <3>1, TailIsSubSeq, SubSeqEmpty DEF Rest
    <3>3. n + 1 \in 1 .. Len(t) /\ Len(t) \in n + 1 .. Len(t) /\ (n + 1) + 1 = n + 2
      BY <1>2, <2>2
    <3>4. Tail(SubSeq(t, n + 1, Len(t))) = SubSeq(t, n + 1 + 1, Len(t))
      BY <1>1, <3>3, HeadTailOfSubSeq
    <3>5. Tail(s) = Rest(t, n + 2)
      BY <3>3, <3>4 DEF s, Rest
    <3> QED
      BY <3>2, <3>5
  <2>6. /\ m \in Nodes /\ (\A z \in Index \ {y, y2} : m[z] = m1[z])
        /\ m[y].c = t[n] /\ m[y].str = <<>> /\ m[y].data = NoData
        /\ m[y].next = NoNode /\ m[y].child = y2
        /\ m[y2].c = t[n + 1] /\ m[y2].str = Rest(t, n + 2) /\ m[y2].data = NoData
        /\ m[y2].next = NoNode /\ m[y2].child = old.child
    BY <1>3, <2>1, <2>4, <2>5 DEF SplitIs
  <2>7. m[y2] \in Node
    BY <2>1, <2>6 DEF Nodes
  <2>8. t[n + 1] \in Nat /\ Rest(t, n + 2) \in Seq(Nat) /\ old.child \in Link
    BY <1>1, <2>6, <2>7 DEF Node
  <2>9. /\ lower \in Node /\ lower.c = t[n + 1] /\ lower.str = Rest(t, n + 2)
        /\ lower.data = NoData /\ lower.next = NoNode /\ lower.child = old.child
    BY <2>8, NoNodeIsNone DEF Node, Cleared
  <2> HIDE DEF lower
  <2>10. lower = m[y2]
    BY <2>6, <2>7, <2>9, SameNode
  <2>11. /\ nd2[y2] = lower /\ (\A z \in Index \ {y2} : nd2[z] = ends[z])
         /\ nd2 = [z \in Index |-> nd2[z]]
    BY <1>6, <2>1
  <2>12. y2 \in Link
    BY <2>1, NoNodeIsNone
  <2>13. /\ nd2[y] \in Node /\ nd2[y].c = t[n] /\ nd2[y].str = <<>> /\ nd2[y].data = d
         /\ nd2[y].next = NoNode /\ nd2[y].child = y2
    BY <1>6, <1>9, <1>12, <2>1, <2>11, <2>12
  <2>14. \A z \in Index \ {y} : nd2[z] = m[z]
    <3> SUFFICES ASSUME NEW z \in Index \ {y} PROVE nd2[z] = m[z]
      OBVIOUS
    <3>1. CASE z = y2
      BY <2>10, <2>11, <3>1
    <3>2. CASE z = x
      BY <1>6, <1>8, <2>1, <2>6, <2>11, <3>2
    <3>3. CASE z \notin {x, y2}
      BY <1>3, <1>6, <2>6, <2>11, <3>3
    <3> QED
      BY <3>1, <3>2, <3>3
  <2>15. nd2 \in Nodes
    BY <1>10, <2>6, <2>11, <2>13, <2>14
  <2> QED
    BY <2>6, <2>13, <2>14, <2>15 DEF SetIs, nd2
<1> QED
  BY <1>11, <1>12

\* The word before x, its character, and n characters of its piece.
Cut(at, x, n) == at[x] \o <<node[x].c>> \o SubSeq(node[x].str, 1, n)

\* In a tree, n characters of the piece of x, which w reaches at i, agree with w up to
\* w[e].
AgreesTo(at, w, x, i, n, e) ==
  /\ w \in Seq(Nat) /\ \E rank, from : Shape(node, used, root, at, rank, from)
  /\ AgreesUpTo(at, w, x, i, n)
  /\ {i, n, e} \subseteq Nat /\ e = i + n /\ e <= Len(w)

\* y, with the character n of the piece of x and no piece, is below n1 characters of it,
\* and w ends there.
EndsWord(at, w, x, i, n, n1, m, at2, y) ==
  /\ AgreesTo(at, w, x, i, n, Len(w))
  /\ n1 \in Nat /\ n = n1 + 1
  /\ at2[y] = Cut(at, x, n1) /\ m[y].c = node[x].str[n] /\ m[y].str = <<>>


(***************************************************************************)
(* What is before a node that agrees with a word, and as much of the node  *)
(* as agrees, is a beginning of the word.                                  *)
(***************************************************************************)
LEMMA AgreedWord ==
  ASSUME NEW at, NEW w, NEW x, NEW i, NEW n, NEW e, AgreesTo(at, w, x, i, n, e)
  PROVE  Cut(at, x, n) = SubSeq(w, 1, e)
<1>0. PICK rank, from : Shape(node, used, root, at, rank, from)
  BY DEF AgreesTo
<1> w \in Seq(Nat)
  BY DEF AgreesTo
<1> DEFINE b == at[x]
           t == node[x].str
           t1 == SubSeq(t, 1, n)
           l == Len(b)
           k == Size(node, x)
<1>1. /\ x \in Index /\ b \in Seq(Nat) /\ t \in Seq(Nat) /\ Len(t) = k /\ l \in Nat /\ k \in Nat
      /\ Depth(at, x) = l
  <2>1. x \in Index
    BY <1>0 DEF AgreesTo, AgreesUpTo, Shape
  <2>2. b \in Seq(Nat) /\ t \in Seq(Nat) /\ Len(t) = k /\ Depth(at, x) = l
    BY <1>0, <2>1 DEF Shape, Node, Size, Depth
  <2> HIDE DEF b, t
  <2> QED
    BY <2>1, <2>2
<1>2. /\ i = l + 1 /\ i <= Len(w) /\ (\A j \in 1 .. l : w[j] = b[j]) /\ w[i] = node[x].c
      /\ n \in 0 .. k /\ (\A j \in 1 .. n : w[i + j] = t[j])
      /\ i \in Nat /\ n \in Nat /\ e \in Nat /\ e = i + n /\ e <= Len(w)
  BY <1>1 DEF AgreesTo, AgreesUpTo, Reached
<1> HIDE DEF b, t, k
<1>3. n \in 0 .. Len(t) /\ n \in Nat /\ i \in Nat /\ Len(w) \in Nat
  BY <1>1, <1>2
<1>4. t1 \in Seq(Nat) /\ Len(t1) = n /\ \A j \in 1 .. n : t1[j] = t[j]
  BY <1>1, <1>3, Beginning
<1>5. SubSeq(w, 1, i - 1) = b
  BY <1>1, <1>2, BaseIs
<1> HIDE DEF t1, l
<1> DEFINE a == i - 1
<1>6. a \in Nat /\ a + 1 = i
  BY <1>1, <1>2
<1>7. a + 1 + Len(t1) <= Len(w) /\ \A q \in 1 .. Len(t1) : t1[q] = w[a + 1 + q]
  <2>1. a + 1 + Len(t1) = e
    BY <1>2, <1>4, <1>6
  <2>2. ASSUME NEW q \in 1 .. n PROVE t1[q] = w[a + 1 + q]
    <3>1. t1[q] = w[i + q]
      BY <1>2, <1>4
    <3> QED
      BY <1>6, <3>1
  <2> QED
    BY <1>2, <1>4, <2>1, <2>2
<1>8. SubSeq(w, 1, a) \o <<w[a + 1]>> \o t1 = SubSeq(w, 1, a + 1 + Len(t1))
  <2> HIDE DEF a
  <2> QED
    BY <1>4, <1>6, <1>7, LongerBeginning
<1>9. b \o <<node[x].c>> \o t1 = SubSeq(w, 1, e)
  <2>1. w[a + 1] = node[x].c /\ SubSeq(w, 1, a) = b /\ a + 1 + Len(t1) = e
    BY <1>2, <1>4, <1>5, <1>6
  <2> QED
    BY <1>8, <2>1
<1> QED
  BY <1>9 DEF b, t1, t, Cut

(***************************************************************************)
(* A node split off before the last character of a word, with that         *)
(* character and no piece, ends the word.                                  *)
(***************************************************************************)
LEMMA EndOfWord ==
  ASSUME NEW at, NEW w, NEW x, NEW i, NEW n, NEW n1, NEW m, NEW at2, NEW y,
         EndsWord(at, w, x, i, n, n1, m, at2, y)
  PROVE  Word(m, at2, y) = w
<1>0. /\ AgreesTo(at, w, x, i, n, Len(w)) /\ n1 \in Nat /\ n = n1 + 1
      /\ at2[y] = Cut(at, x, n1) /\ m[y].c = node[x].str[n] /\ m[y].str = <<>>
      /\ AgreesUpTo(at, w, x, i, n) /\ i \in Nat /\ n \in Nat /\ Len(w) = i + n
  BY DEF EndsWord, AgreesTo
<1> PICK rank, from : Shape(node, used, root, at, rank, from)
  BY <1>0 DEF AgreesTo
<1> w \in Seq(Nat)
  BY <1>0 DEF AgreesTo
<1>1. i \in Nat /\ i > 0 /\ Len(w) \in Nat /\ Size(node, x) \in Nat
  <2>1. x \in Index
    BY <1>0 DEF AgreesUpTo, Shape
  <2>2. Depth(at, x) \in Nat /\ Size(node, x) \in Nat
    BY <2>1, WordParts DEF WordIs
  <2> QED
    BY <1>0, <2>2 DEF AgreesUpTo, Reached
<1> DEFINE a == i + n1
           t == <<>>
<1>2. AgreesUpTo(at, w, x, i, n1) /\ a <= Len(w)
  <2>1. n1 \in 0 .. Size(node, x) /\ \A j \in 1 .. n1 : j \in 1 .. n
    BY <1>0, <1>1 DEF AgreesUpTo
  <2> QED
    BY SMTT(30), <1>0, <1>1, <2>1 DEF AgreesUpTo
<1>3. at2[y] = SubSeq(w, 1, a)
  <2>1. AgreesTo(at, w, x, i, n1, a)
    BY <1>0, <1>1, <1>2 DEF AgreesTo
  <2> HIDE DEF a, t
  <2> QED
    BY <1>0, <2>1, AgreedWord
<1>4. a \in Nat /\ a + 1 = i + n
  BY <1>0, <1>1
<1>5. m[y].c = w[a + 1]
  <2>1. n \in 1 .. n
    BY <1>0
  <2>2. w[i + n] = node[x].str[n]
    BY <1>0, <2>1 DEF AgreesUpTo
  <2> QED
    BY <1>0, <1>4, <2>2
<1> HIDE DEF a
<1>6. t \in Seq(Nat) /\ Len(t) = 0 /\ a + 1 + Len(t) = Len(w) /\ a + 1 + Len(t) <= Len(w)
      /\ \A q \in 1 .. Len(t) : t[q] = w[a + 1 + q]
  BY <1>0, <1>1, <1>4
<1>7. m[y].str = t
  BY <1>0
<1> HIDE DEF t
<1>8. SubSeq(w, 1, a) \o <<w[a + 1]>> \o t = SubSeq(w, 1, a + 1 + Len(t))
  BY <1>1, <1>4, <1>6, LongerBeginning
<1>9. SubSeq(w, 1, a + 1 + Len(t)) = w
  BY <1>6, SubSeqFull
<1> QED
  BY <1>3, <1>5, <1>7, <1>8, <1>9 DEF Word

(***************************************************************************)
(* SPLIT_0_SET puts the word in.                                           *)
(***************************************************************************)
LEMMA Split0Keeps ==
  ASSUME NEW at, NEW rank, NEW from, Shape(node, used, root, at, rank, from),
         Leads(node, used), NEW m, Holds(node, used, at, m),
         NEW w \in Seq(Nat), NEW x, AgreesUpTo(at, w, x, Len(w), 0), Size(node, x) > 0,
         NEW y \in Index \ used, NEW d \in Data
  PROVE  Grown(node, used, at, SplitAt0(x, y, d), used \cup {y}, root, Also(m, w, d), x, w)
<1>1. x \in used /\ x \in Index /\ node \in Nodes /\ x # y /\ Len(w) \in Nat
  BY DEF AgreesUpTo, Shape, Nodes
<1>2. Size(node, x) \in Nat
  BY <1>1, WordParts DEF WordIs
<1>3. node[x].data = NoData
  <2>1. node[x].str = <<>> => Size(node, x) = 0
    BY DEF Size
  <2> QED
    BY <1>1, <1>2, <2>1 DEF Nodes
<1> DEFINE nd == SplitOf(node, x, 0, y)
           at2 == SplitAts(nd, at, x, y)
           rank2 == SplitRanks(rank, x, y)
           from2 == SplitFroms(node, from, x, y)
           us2 == used \cup {y}
<1>4. 0 \in Nat /\ 0 < Size(node, x)
  BY <1>2
<1>5. SplitIs(node, nd, x, 0, y)
  BY <1>1, <1>3, <1>4, SplitSplits
<1> HIDE DEF nd
<1>6. Shape(nd, us2, root, at2, rank2, from2)
  BY <1>1, <1>4, <1>5, ShapeSplit
<1>7. Holds(nd, us2, at2, m) /\ Leads(nd, us2) /\ Keeps(node, used, at, nd, us2, at2)
  BY <1>1, <1>4, <1>5, HoldsSplit
<1>8. SplitWords(node, nd, at, at2, used, x, 0, y)
  BY <1>1, <1>4, <1>5, WordsSplit
<1> HIDE DEF at2, rank2, from2
<1>9. SetIs(nd, SplitAt0(x, y, d), x, d)
  BY <1>1, <1>4, <1>5, SplitAt0Is
<1>10. Word(nd, at2, x) = w
  <2>1. Word(nd, at2, x) = Cut(at, x, 0)
    BY <1>1, <1>5, <1>8 DEF Cut, Word, SplitIs, SplitWords
  <2> DEFINE l == Len(w)
             z == 0
  <2>2. AgreesTo(at, w, x, l, z, l)
    BY <1>1 DEF AgreesTo
  <2>3. SubSeq(w, 1, l) = w
    BY SubSeqFull
  <2> HIDE DEF l, z
  <2>4. Cut(at, x, z) = SubSeq(w, 1, l)
    BY <2>2, AgreedWord
  <2> QED
    BY <2>1, <2>3, <2>4 DEF z
<1>11. d # NoData /\ x \in us2
  BY <1>1, TrieAssumption
<1> HIDE DEF us2
<1>12. Grown(nd, us2, at2, SplitAt0(x, y, d), us2, root, Also(m, Word(nd, at2, x), d), x,
             Word(nd, at2, x))
  BY <1>6, <1>7, <1>9, <1>11, HoldsSet
<1>13. Grown(node, used, at, SplitAt0(x, y, d), us2, root, Also(m, w, d), x, w)
  BY <1>7, <1>10, <1>12, GrownTree
<1> QED
  BY <1>13 DEF us2

(***************************************************************************)
(* SPLIT_N_CHILD puts the word in.                                         *)
(***************************************************************************)
LEMMA SplitChildKeeps ==
  ASSUME NEW at, NEW rank, NEW from, Shape(node, used, root, at, rank, from),
         Leads(node, used), NEW m, Holds(node, used, at, m),
         NEW w \in Seq(Nat), NEW x, NEW i \in Nat, NEW n, n > 0, AgreesUpTo(at, w, x, i, n),
         i + n = Len(w), NEW ns, NEW d \in Data, NEW new,
         ns[1] \in Index \ used,
         IF n = Size(node, x) THEN new = {ns[1]}
         ELSE new = {ns[1], ns[2]} /\ ns[2] \in Index \ used /\ ns[1] # ns[2]
  PROVE  Grown(node, used, at, SplitAtChild(x, n, ns, d), used \cup new, root, Also(m, w, d),
               ns[1], w)
<1> DEFINE y == ns[1]
           y2 == ns[2]
           k == Size(node, x)
<1>1. x \in used /\ x \in Index /\ node \in Nodes /\ x # y /\ Len(w) \in Nat /\ y \in Index \ used
  BY SMTT(30) DEF AgreesUpTo, Shape, Nodes
<1>2. /\ k \in Nat /\ n \in 1 .. k /\ n - 1 \in Nat /\ n - 1 < k /\ (n - 1) + 1 = n /\ (n - 1) + 2 = n + 1
      /\ n \in Nat
  <2>1. k \in Nat
    BY <1>1, WordParts DEF WordIs
  <2>2. n \in 0 .. k
    BY DEF AgreesUpTo
  <2> HIDE DEF k
  <2> QED
    BY <2>1, <2>2
<1>3. node[x].data = NoData
  <2>1. node[x].str = <<>> => k = 0
    BY DEF Size
  <2> HIDE DEF k
  <2> QED
    BY <1>1, <1>2, <2>1 DEF Nodes
<1> DEFINE n1 == n - 1
           nd == SplitOf(node, x, n1, y)
           at2 == SplitAts(nd, at, x, y)
           rank2 == SplitRanks(rank, x, y)
           from2 == SplitFroms(node, from, x, y)
           us2 == used \cup {y}
           res == SplitAtChild(x, n, ns, d)
<1>4. n1 \in Nat /\ n1 < Size(node, x) /\ n1 + 1 = n /\ n1 + 2 = n + 1 /\ n1 = n - 1 /\ n = n1 + 1
  BY <1>2
<1> HIDE DEF n1
<1>5. SplitIs(node, nd, x, n1, y)
  BY <1>1, <1>3, <1>4, SplitSplits
<1> HIDE DEF nd, y, y2
<1>6. Shape(nd, us2, root, at2, rank2, from2)
  BY <1>1, <1>4, <1>5, ShapeSplit
<1>7. Holds(nd, us2, at2, m) /\ Leads(nd, us2) /\ Keeps(node, used, at, nd, us2, at2)
  BY <1>1, <1>4, <1>5, HoldsSplit
<1>8. SplitWords(node, nd, at, at2, used, x, n1, y)
  BY <1>1, <1>4, <1>5, WordsSplit
<1> HIDE DEF at2, rank2, from2
<1>9. at2[y] = Cut(at, x, n1)
  BY <1>1, <1>4, <1>5, <1>8 DEF Cut, Word, SplitIs, SplitWords
<1>10. nd[y].c = node[x].str[n]
  BY <1>4, <1>5 DEF SplitIs
<1>11. d # NoData /\ y \in us2
  BY <1>1, TrieAssumption
<1>12. y = ns[1] /\ y2 = ns[2]
  BY DEF y, y2
<1>15. AgreesTo(at, w, x, i, n, Len(w))
  BY <1>1, <1>2 DEF AgreesTo
<1> HIDE DEF us2, res, k
<1>13. CASE n = k
  <2>1. SetIs(nd, res, y, d)
    BY <1>1, <1>2, <1>4, <1>5, <1>12, <1>13, SplitAtChildIs DEF k, res
  <2>2. nd[y].str = <<>>
    <3>1. nd[y].str = Rest(node[x].str, n1 + 2)
      BY <1>5 DEF SplitIs
    <3>2. n1 + 2 \in Int /\ Len(node[x].str) \in Int /\ Len(node[x].str) < n1 + 2
      BY <1>2, <1>4, <1>13 DEF Size, k
    <3> QED
      BY <3>1, <3>2, SubSeqEmpty DEF Rest
  <2>3. Word(nd, at2, y) = w
    <3>1. EndsWord(at, w, x, i, n, n1, nd, at2, y)
      BY <1>4, <1>9, <1>10, <1>15, <2>2 DEF EndsWord
    <3> QED
      BY <3>1, EndOfWord
  <2>4. Grown(nd, us2, at2, res, us2, root, Also(m, Word(nd, at2, y), d), y, Word(nd, at2, y))
    BY <1>6, <1>7, <1>11, <2>1, HoldsSet
  <2>5. Grown(node, used, at, res, us2, root, Also(m, w, d), y, w)
    BY <1>7, <2>3, <2>4, GrownTree
  <2>6. used \cup new = us2
    BY <1>12, <1>13 DEF us2, k
  <2> QED
    BY <1>12, <2>5, <2>6 DEF res
<1>14. CASE n # k
  <2>1. y2 \in Index \ us2 /\ new = {y, y2} /\ y2 # y
    BY <1>12, <1>14 DEF k, us2
  <2> DEFINE nd2 == SplitOf(nd, y, 0, y2)
             at3 == SplitAts(nd2, at2, y, y2)
             rank3 == SplitRanks(rank2, y, y2)
             from3 == SplitFroms(nd, from2, y, y2)
             us3 == us2 \cup {y2}
  <2>2. nd[y].data = NoData /\ nd \in Nodes
    BY <1>5 DEF SplitIs
  <2>3. 0 \in Nat /\ 0 < Size(nd, y)
    <3> DEFINE t == node[x].str
    <3>1. t \in Seq(Nat) /\ Len(t) = k
      BY <1>1 DEF Nodes, Node, Size, k
    <3>2. nd[y].str = Rest(t, n1 + 2)
      BY <1>5 DEF SplitIs
    <3> HIDE DEF t
    <3>3. n1 \in 0 .. Len(t) - 1 /\ Len(t) - n1 - 1 > 0
      BY <1>2, <1>4, <1>14, <3>1
    <3>4. Len(Rest(t, n1 + 2)) = Len(t) - n1 - 1
      BY <3>1, <3>3, CutPiece
    <3> QED
      BY <3>2, <3>3, <3>4 DEF Size
  <2>4. SplitIs(nd, nd2, y, 0, y2)
    BY <1>1, <2>1, <2>2, <2>3, SplitSplits
  <2> HIDE DEF nd2
  <2>5. Shape(nd2, us3, root, at3, rank3, from3)
    BY <1>6, <1>11, <2>1, <2>3, <2>4, ShapeSplit
  <2>6. Holds(nd2, us3, at3, m) /\ Leads(nd2, us3) /\ Keeps(nd, us2, at2, nd2, us3, at3)
    BY <1>6, <1>7, <1>11, <2>1, <2>3, <2>4, HoldsSplit
  <2>7. SplitWords(nd, nd2, at2, at3, us2, y, 0, y2)
    BY <1>6, <1>11, <2>1, <2>3, <2>4, WordsSplit
  <2> HIDE DEF at3, rank3, from3
  <2>8. SetIs(nd2, res, y, d)
    <3>1. y2 \in Index /\ y2 \notin {x, y}
      BY <1>1, <2>1 DEF us2
    <3> QED
      BY <1>1, <1>2, <1>4, <1>5, <1>12, <1>14, <2>4, <3>1, SplitAtChildIs DEF k, res
  <2>9. nd2[y].str = <<>> /\ nd2[y].c = node[x].str[n] /\ at3[y] = at2[y]
    <3>1. nd2[y].str = SubSeq(nd[y].str, 1, 0)
      BY <2>4 DEF SplitIs
    <3>2. SubSeq(nd[y].str, 1, 0) = <<>>
      BY SubSeqEmpty
    <3> QED
      BY <1>10, <1>11, <2>4, <2>7, <3>1, <3>2 DEF SplitIs, SplitWords
  <2>10. Word(nd2, at3, y) = w
    <3>1. EndsWord(at, w, x, i, n, n1, nd2, at3, y)
      BY <1>4, <1>9, <1>15, <2>9 DEF EndsWord
    <3> QED
      BY <3>1, EndOfWord
  <2>11. y \in us3
    BY <1>11
  <2> HIDE DEF us3
  <2>12. Grown(nd2, us3, at3, res, us3, root, Also(m, Word(nd2, at3, y), d), y,
               Word(nd2, at3, y))
    BY <1>11, <2>5, <2>6, <2>8, <2>11, HoldsSet
  <2>13. Grown(nd, us2, at2, res, us3, root, Also(m, w, d), y, w)
    BY <2>6, <2>10, <2>12, GrownTree
  <2>14. Grown(node, used, at, res, us3, root, Also(m, w, d), y, w)
    BY <1>7, <2>13, GrownTree
  <2>15. used \cup new = us3
    BY <2>1 DEF us2, us3
  <2> QED
    BY <1>12, <2>14, <2>15 DEF res
<1> QED
  BY <1>13, <1>14

\* ns is y, then tl.
TailIs(ns, y, tl) ==
  /\ tl \in Seq(Index) /\ IsInjective(tl) /\ Len(tl) = Len(ns) - 1
  /\ y \in Index /\ y \notin Range(tl) /\ Range(ns) = {y} \cup Range(tl)
  /\ tl[1] = ns[2]

(***************************************************************************)
(* A chain without its first node is a chain.                              *)
(***************************************************************************)
LEMMA TailOfChain ==
  ASSUME NEW ns \in Seq(Index), IsInjective(ns), Len(ns) > 1
  PROVE  TailIs(ns, ns[1], Tail(ns))
<1> DEFINE tl == Tail(ns)
           k == Len(ns)
           y == ns[1]
<1>1. ns # <<>> /\ k \in Nat /\ k > 1
  OBVIOUS
<1>2. tl \in Seq(Index) /\ Len(tl) = k - 1 /\ \A j \in 1 .. k - 1 : tl[j] = ns[j + 1]
  BY <1>1, HeadTailProperties
<1>3. \A j, q \in 1 .. k : ns[j] = ns[q] => j = q
  BY DEF IsInjective
<1> HIDE DEF tl
<1>4. Range(tl) = {tl[j] : j \in 1 .. k - 1} /\ Range(ns) = {ns[j] : j \in 1 .. k}
  BY <1>2, RangeEquality
<1>5. y \in Index
  BY <1>1
<1> HIDE DEF k, y
<1>6. \A j \in 1 .. k - 1 : j + 1 \in 1 .. k /\ j + 1 # 1
  BY <1>1
<1>7. IsInjective(tl)
  <2>1. ASSUME NEW j \in 1 .. k - 1, NEW q \in 1 .. k - 1, tl[j] = tl[q] PROVE j = q
    <3>1. ns[j + 1] = ns[q + 1]
      BY <1>2, <2>1
    <3>2. j + 1 = q + 1
      BY <1>3, <1>6, <3>1
    <3> QED
      BY <1>1, <3>2
  <2>2. DOMAIN tl = 1 .. k - 1
    BY <1>2
  <2> QED
    BY <2>1, <2>2 DEF IsInjective
<1>8. y \notin Range(tl)
  <2> SUFFICES ASSUME NEW j \in 1 .. k - 1, tl[j] = y PROVE FALSE
    BY <1>4
  <2>1. ns[j + 1] = ns[1] /\ 1 \in 1 .. k
    BY <1>1, <1>2 DEF y
  <2> QED
    BY <1>3, <1>6, <2>1
<1>9. Range(ns) = {y} \cup Range(tl)
  <2>1. ASSUME NEW j \in 1 .. k PROVE ns[j] = y \/ \E q \in 1 .. k - 1 : ns[j] = tl[q]
    <3>1. CASE j = 1
      BY <3>1 DEF y
    <3>2. CASE j # 1
      <4>1. j - 1 \in 1 .. k - 1 /\ (j - 1) + 1 = j
        BY <1>1, <3>2
      <4>2. tl[j - 1] = ns[j]
        BY <1>2, <4>1
      <4> QED
        BY <4>1, <4>2
    <3> QED
      BY <3>1, <3>2
  <2>2. y \in Range(ns)
    BY <1>1, <1>4 DEF y
  <2>3. Range(tl) \subseteq Range(ns)
    BY <1>2, <1>4, <1>6
  <2> QED
    BY <1>4, <2>1, <2>2, <2>3
<1>10. tl[1] = ns[2]
  BY <1>1, <1>2
<1> QED
  BY <1>2, <1>5, <1>7, <1>8, <1>9, <1>10 DEF TailIs, k, y, tl

(***************************************************************************)
(* SPLIT_N_NEXT puts the word in.                                          *)
(***************************************************************************)
LEMMA SplitNextKeeps ==
  ASSUME NEW at, NEW rank, NEW from, Shape(node, used, root, at, rank, from),
         Leads(node, used), NEW m, Holds(node, used, at, m),
         NEW w \in Seq(Nat), NEW x, NEW i \in Nat, NEW n, n < Size(node, x),
         AgreesUpTo(at, w, x, i, n), NEW e, e = i + n + 1, e <= Len(w),
         w[e] # node[x].str[n + 1],
         NEW ns, NEW y, NEW tl, TailIs(ns, y, tl), y = ns[1], Range(ns) \cap used = {},
         NEW ps, ChainFor(used \cup {y}, w, e, tl, ps), NEW d \in Data
  PROVE  Grown(node, used, at, SplitAtNext(x, n, ns, Chained(ps, tl, d)), used \cup Range(ns),
               root, Also(m, w, d), tl[Len(tl)], w)
<1>1. /\ x \in used /\ x \in Index /\ node \in Nodes /\ used \subseteq Index /\ root \in Link
      /\ y \in Index \ used /\ x # y /\ Len(w) \in Nat
      /\ used \cup Range(ns) = (used \cup {y}) \cup Range(tl) /\ tl[1] = ns[2]
      /\ d # NoData
  <2>1. x \in used
    BY DEF AgreesUpTo
  <2>2. used \subseteq Index /\ node \in Nodes /\ root \in used \cup {NoNode}
    BY DEF Shape, Nodes
  <2>3. root \in Link /\ x \in Index
    BY <2>1, <2>2, NoNodeIsNone
  <2>4. y \in Index /\ Range(ns) = {y} \cup Range(tl) /\ tl[1] = ns[2]
    BY DEF TailIs
  <2>5. y \notin used
    BY <2>4
  <2>6. Len(w) \in Nat
    OBVIOUS
  <2>7. d # NoData
    BY TrieAssumption
  <2>8. used \cup Range(ns) = (used \cup {y}) \cup Range(tl)
    BY <2>4
  <2>9. x # y
    BY <2>1, <2>5
  <2> QED
    BY <2>1, <2>2, <2>3, <2>4, <2>5, <2>6, <2>7, <2>8, <2>9
<1>2. Size(node, x) \in Nat /\ n \in Nat
  <2>1. Size(node, x) \in Nat
    BY <1>1, WordParts DEF WordIs
  <2> QED
    BY <2>1 DEF AgreesUpTo
<1>3. node[x].data = NoData
  <2>1. node[x].str = <<>> => Size(node, x) = 0
    BY DEF Size
  <2> QED
    BY <1>1, <1>2, <2>1 DEF Nodes
<1> DEFINE nd == SplitOf(node, x, n, y)
           at2 == SplitAts(nd, at, x, y)
           rank2 == SplitRanks(rank, x, y)
           from2 == SplitFroms(node, from, x, y)
           us2 == used \cup {y}
           t == With(nd, Chained(ps, tl, d))
           z == tl[1]
           c == node[x].str[n + 1]
<1>4. SplitAtNext(x, n, ns, Chained(ps, tl, d))
        = IF Chained(ps, tl, d)[z].c < c THEN UnderParent(t, x, z) ELSE AfterPrev(t, y, z)
  BY <1>1 DEF SplitAtNext, SplitOf, Cleared
<1>5. SplitIs(node, nd, x, n, y)
  BY <1>1, <1>2, <1>3, SplitSplits
<1> HIDE DEF nd
<1>6. Shape(nd, us2, root, at2, rank2, from2)
  BY <1>1, <1>2, <1>5, ShapeSplit
<1>7. Holds(nd, us2, at2, m) /\ Leads(nd, us2) /\ Keeps(node, used, at, nd, us2, at2)
  BY <1>1, <1>2, <1>5, HoldsSplit
<1>8. SplitWords(node, nd, at, at2, used, x, n, y)
  BY <1>1, <1>2, <1>5, WordsSplit
<1> HIDE DEF at2, rank2, from2
<1>9. nd \in Nodes /\ us2 \in SUBSET Index /\ ChainFor(us2, w, e, tl, ps)
  BY <1>1, <1>5 DEF SplitIs
<1> HIDE DEF us2
<1>10. ChainPut(t, nd, tl, ps, d)
  BY <1>9, ChainIsPut
<1> DEFINE ln == Len(tl)
<1>11. 1 \in 1 .. ln /\ z \in Range(tl) /\ z \in Index
  <2>1. tl \in Seq(Index) /\ ln > 0 /\ ln \in Nat
    BY <1>9 DEF ChainFor, PiecesOf
  <2> QED
    BY <2>1 DEF Range
<1>12. Chained(ps, tl, d)[z].c = w[e]
  <2>1. t[z] = Chained(ps, tl, d)[z]
    BY <1>11 DEF With, Chained
  <2>2. t[z].c = ps[1].c
    <3> HIDE DEF t
    <3> QED
      BY <1>10, <1>11 DEF ChainPut
  <2>3. PICK off : PiecesOf(ps, Rest(w, e), off)
    BY <1>9 DEF ChainFor
  <2>4. ps[1].c = Rest(w, e)[1]
    <3>1. off[1] = 0 /\ ps[1].c = Rest(w, e)[off[1] + 1]
      <4>1. 1 \in 1 .. Len(ps)
        BY <2>3 DEF PiecesOf
      <4> QED
        BY <2>3, <4>1 DEF PiecesOf
    <3> QED
      BY <3>1
  <2>5. e \in 1 .. Len(w) + 1 /\ 1 \in 1 .. Len(w) - e + 1 /\ e + 1 - 1 = e
    BY <1>1, <1>2
  <2>6. Rest(w, e)[1] = w[e]
    BY ZenonT(30), <2>5, RestParts
  <2> QED
    BY <2>1, <2>2, <2>4, <2>6
<1> HIDE DEF t, z
<1>13. /\ \A p \in us2 : /\ HangIs(nd, AfterPrev(t, p, tl[1]), root, root, p, "next", tl, ps, d)
                         /\ HangIs(nd, UnderParent(t, p, tl[1]), root, root, p, "child", tl, ps, d)
  BY <1>1, <1>9, <1>10, ChainIsHung
<1>14. /\ at2[y] = SubSeq(w, 1, e - 1) /\ Word(nd, at2, x) = SubSeq(w, 1, e - 1)
       /\ nd[y].c = c /\ nd[y].next = NoNode /\ nd[x].child = y
  <2>1. Word(nd, at2, x) = Cut(at, x, n)
    BY <1>1, <1>5, <1>8 DEF Cut, Word, SplitIs, SplitWords
  <2>2. Word(nd, at2, x) = Word(nd, at, x)
    BY <1>1, <1>8 DEF Word, SplitWords
  <2>3. at2[y] = Word(nd, at2, x)
    BY <2>2, <1>8 DEF SplitWords
  <2> DEFINE e1 == e - 1
  <2>4. AgreesTo(at, w, x, i, n, e1)
    BY <1>1, <1>2 DEF AgreesTo
  <2> HIDE DEF e1
  <2>5. Cut(at, x, n) = SubSeq(w, 1, e1)
    BY <2>4, AgreedWord
  <2> QED
    BY <1>5, <2>1, <2>3, <2>5 DEF SplitIs, e1
<1>15. ASSUME NEW p \in us2, NEW f, BaseAt(nd, at2, p, f) = SubSeq(w, 1, e - 1),
              f = "next" => nd[p].c < w[e],
              LinkAt(nd, root, p, f) # NoNode => w[e] < nd[LinkAt(nd, root, p, f)].c
       PROVE  Fits(nd, us2, root, at2, w, e, p, f)
  <2> DEFINE e1 == e - 1
             b == SubSeq(w, 1, e1)
  <2>1. e1 \in 0 .. Len(w) /\ e = e1 + 1
    BY <1>1, <1>2
  <2>2. b \in Seq(Nat) /\ Len(b) = e1 /\ \A j \in 1 .. e1 : b[j] = w[j]
    <3> HIDE DEF e1
    <3> QED
      BY <2>1, Beginning
  <2>3. BaseAt(nd, at2, p, f) = b
    BY <1>15
  <2> HIDE DEF e1, b
  <2> QED
    BY <1>15, <2>1, <2>2, <2>3 DEF Fits
<1>16. x \in us2 /\ y \in us2 /\ x # NoNode /\ y # NoNode
  BY <1>1, NoNodeIsNone DEF us2
<1>17. e \in 1 .. Len(w)
  BY <1>1, <1>2
<1>18. w[e] \in Nat /\ c \in Nat
  <2>1. w[e] \in Nat
    BY <1>17, ElementOfSeq
  <2>2. nd[y] \in Node
    BY <1>1, <1>9 DEF Nodes
  <2> QED
    BY <1>14, <2>1, <2>2 DEF Node
<1>19. CASE w[e] < c
  <2>1. SplitAtNext(x, n, ns, Chained(ps, tl, d)) = UnderParent(t, x, z)
    BY <1>4, <1>12, <1>19
  <2>2. HangIs(nd, UnderParent(t, x, z), root, root, x, "child", tl, ps, d)
    BY <1>13, <1>16 DEF z
  <2>3. BaseAt(nd, at2, x, "child") = SubSeq(w, 1, e - 1) /\ LinkAt(nd, root, x, "child") = y
    BY <1>14, <1>16 DEF BaseAt, LinkAt
  <2>4. Fits(nd, us2, root, at2, w, e, x, "child")
    BY <1>14, <1>15, <1>16, <1>19, <2>3
  <2>5. Grown(nd, us2, at2, UnderParent(t, x, z), us2 \cup Range(tl), root, Also(m, w, d),
              tl[Len(tl)], w)
    BY <1>1, <1>6, <1>7, <1>9, <1>17, <2>2, <2>4, HoldsHung
  <2>7. Grown(node, used, at, UnderParent(t, x, z), us2 \cup Range(tl), root, Also(m, w, d),
              tl[Len(tl)], w)
    BY <1>7, <2>5, GrownTree
  <2> QED
    BY <1>1, <2>1, <2>7 DEF us2
<1>20. CASE ~(w[e] < c)
  <2>1. SplitAtNext(x, n, ns, Chained(ps, tl, d)) = AfterPrev(t, y, z)
    BY <1>4, <1>12, <1>20
  <2>2. HangIs(nd, AfterPrev(t, y, z), root, root, y, "next", tl, ps, d)
    BY <1>13, <1>16 DEF z
  <2>3. BaseAt(nd, at2, y, "next") = SubSeq(w, 1, e - 1) /\ LinkAt(nd, root, y, "next") = NoNode
    BY <1>14, <1>16 DEF BaseAt, LinkAt
  <2>4. c < w[e]
    BY <1>18, <1>20
  <2>5. Fits(nd, us2, root, at2, w, e, y, "next")
    BY <1>14, <1>15, <1>16, <2>3, <2>4
  <2>6. Grown(nd, us2, at2, AfterPrev(t, y, z), us2 \cup Range(tl), root, Also(m, w, d),
              tl[Len(tl)], w)
    BY <1>1, <1>6, <1>7, <1>9, <1>17, <2>2, <2>5, HoldsHung
  <2>7. Grown(node, used, at, AfterPrev(t, y, z), us2 \cup Range(tl), root, Also(m, w, d),
              tl[Len(tl)], w)
    BY <1>7, <2>6, GrownTree
  <2> QED
    BY <1>1, <2>1, <2>7 DEF us2
<1> QED
  BY <1>19, <1>20

-----------------------------------------------------------------------------
(* The nodes for the rest of a word.                                       *)

\* The first node for s takes k characters; t is what is left of s then.
FirstTakes(s, k, t, str) ==
  /\ s \in Seq(Nat) /\ k \in Nat /\ k > 0 /\ t \in Seq(Nat) /\ str \in Seq(Nat)
  /\ Len(s) = k + Len(t) /\ Len(t) > 0 /\ s[1] \in Nat
  /\ \A j \in 1 .. Len(t) : t[j] = s[k + j]
  /\ Len(str) = k - 1
  /\ \A j \in 1 .. Len(str) : str[j] = s[1 + j]

(***************************************************************************)
(* The first node takes at least one character, and leaves at least one.   *)
(***************************************************************************)
LEMMA FittingTakes ==
  ASSUME NEW s \in Seq(Nat), Len(s) > 1
  PROVE  FirstTakes(s, Fitting(s), Rest(s, Fitting(s) + 1), SubSeq(s, 2, Fitting(s)))
<1> DEFINE k == Fitting(s)
           l == Len(s)
<1>1. l \in Nat /\ k \in 1 .. l - 1
  <2>1. StrMax \in Nat \ {0} /\ l \in Nat /\ l > 1
    BY TrieAssumption
  <2>2. k = IF StrMax + 1 < l THEN StrMax + 1 ELSE l - 1
    BY DEF Fitting
  <2> HIDE DEF k, l
  <2> QED
    BY <2>1, <2>2
<1>2. s \in [1 .. l -> Nat] /\ l > 1
  OBVIOUS
<1> HIDE DEF k
<1>3. k + 1 \in 1 .. l + 1 /\ l - (k + 1) + 1 = l - k /\ l - k > 0
  BY <1>1
<1>4. /\ Rest(s, k + 1) \in Seq(Nat) /\ Len(Rest(s, k + 1)) = l - (k + 1) + 1
      /\ \A j \in 1 .. l - (k + 1) + 1 : Rest(s, k + 1)[j] = s[k + 1 + j - 1]
  BY <1>3, RestParts
<1>5. /\ SubSeq(s, 2, k) \in Seq(Nat)
      /\ Len(SubSeq(s, 2, k)) = IF 2 <= k THEN k - 2 + 1 ELSE 0
      /\ \A j \in 1 .. k - 2 + 1 : SubSeq(s, 2, k)[j] = s[2 + j - 1]
  <2>1. \A j \in 2 .. k : s[j] \in Nat
    <3> HIDE DEF l
    <3> QED
      BY <1>1, <1>2
  <2> QED
    BY <1>1, <2>1, SubSeqProperties
<1> DEFINE t == Rest(s, k + 1)
           u == SubSeq(s, 2, k)
<1> HIDE DEF l
<1>6. Len(t) = l - k /\ Len(u) = k - 1
  BY <1>1, <1>3, <1>4, <1>5
<1>7. \A j \in 1 .. Len(t) : t[j] = s[k + j]
  <2>1. ASSUME NEW j \in 1 .. l - k PROVE t[j] = s[k + j]
    <3>1. k + 1 + j - 1 = k + j
      BY <1>1
    <3>2. j \in 1 .. l - (k + 1) + 1
      BY <1>3
    <3>3. t[j] = s[k + 1 + j - 1]
      BY <1>4, <3>2
    <3> QED
      BY <3>1, <3>3
  <2> QED
    BY <1>6, <2>1
<1>8. \A j \in 1 .. Len(u) : u[j] = s[1 + j]
  <2>1. ASSUME NEW j \in 1 .. k - 1 PROVE u[j] = s[1 + j]
    <3>1. 2 + j - 1 = 1 + j
      OBVIOUS
    <3>2. j \in 1 .. k - 2 + 1
      BY <1>1
    <3>3. u[j] = s[2 + j - 1]
      BY <1>5, <3>2
    <3> QED
      BY <3>1, <3>3
  <2> QED
    BY <1>6, <2>1
<1>9. l = k + Len(t) /\ Len(t) > 0 /\ s[1] \in Nat
  BY <1>1, <1>2, <1>3, <1>6
<1>10. t \in Seq(Nat) /\ u \in Seq(Nat)
  BY <1>4, <1>5
<1> HIDE DEF t, u
<1>11. FirstTakes(s, k, t, u)
  BY <1>1, <1>6, <1>7, <1>8, <1>9, <1>10 DEF FirstTakes, l
<1> QED
  BY <1>11 DEF k, t, u

\* The definition of Pieces, for any function that may be it.
PiecesBody(s, f) ==
  IF Len(s) <= 1
    THEN [j \in DOMAIN s |-> [Cleared EXCEPT !.c = s[j]]]
    ELSE <<[Cleared EXCEPT !.c = s[1], !.str = SubSeq(s, 2, Fitting(s))]>>
           \o f[Rest(s, Fitting(s) + 1)]

(***************************************************************************)
(* Pieces is what its definition says.                                     *)
(***************************************************************************)
LEMMA PiecesUnfolds == Pieces = [s \in Seq(Nat) |-> PiecesBody(s, Pieces)]
<1> DEFINE m == [s \in Seq(Nat) |-> Len(s)]
           F == [q \in Seq(Nat) \X [Seq(Nat) -> Seq(Node)] |-> PiecesBody(q[1], q[2])]
<1>1. m \in [Seq(Nat) -> Nat]
  OBVIOUS
<1>2. ASSUME NEW s \in Seq(Nat), NEW f \in [Seq(Nat) -> Seq(Node)]
      PROVE  PiecesBody(s, f) \in Seq(Node)
  <2>1. CASE Len(s) <= 1
    <3>1. \A j \in DOMAIN s : [Cleared EXCEPT !.c = s[j]] \in Node
      <4>1. ASSUME NEW c \in Nat PROVE [Cleared EXCEPT !.c = c] \in Node
        BY ClearedIsNode DEF Node
      <4>2. ASSUME NEW j \in DOMAIN s PROVE s[j] \in Nat
        OBVIOUS
      <4> QED
        BY <4>1, <4>2
    <3>2. DOMAIN s = 1 .. Len(s) /\ Len(s) \in Nat
      OBVIOUS
    <3>3. [j \in DOMAIN s |-> [Cleared EXCEPT !.c = s[j]]] \in [1 .. Len(s) -> Node]
      BY <3>1, <3>2
    <3>4. [j \in DOMAIN s |-> [Cleared EXCEPT !.c = s[j]]] \in Seq(Node)
      BY <3>2, <3>3, SeqDef
    <3> QED
      BY <2>1, <3>4 DEF PiecesBody
  <2>2. CASE ~(Len(s) <= 1)
    <3> DEFINE t == Rest(s, Fitting(s) + 1)
               u == SubSeq(s, 2, Fitting(s))
               a == [Cleared EXCEPT !.c = s[1], !.str = u]
    <3>1. Len(s) > 1
      BY <2>2
    <3>2. t \in Seq(Nat) /\ u \in Seq(Nat) /\ s[1] \in Nat
      BY <3>1, FittingTakes DEF FirstTakes
    <3> HIDE DEF t, u
    <3>3. a \in Node
      BY <3>2, ClearedIsNode DEF Node
    <3>4. f[t] \in Seq(Node)
      BY <3>2
    <3>5. PiecesBody(s, f) = <<a>> \o f[t]
      BY <2>2 DEF PiecesBody, t, u
    <3> HIDE DEF a
    <3>6. <<a>> \in Seq(Node)
      BY <3>3
    <3> QED
      BY <3>4, <3>5, <3>6, ConcatProperties
  <2> QED
    BY <2>1, <2>2
<1>3. F \in [Seq(Nat) \X [Seq(Nat) -> Seq(Node)] -> Seq(Node)]
  BY <1>2
<1>4. LooksBelow(Seq(Nat), Seq(Node), m, F)
  <2> SUFFICES ASSUME NEW s \in Seq(Nat), NEW g \in [Seq(Nat) -> Seq(Node)],
                      NEW h \in [Seq(Nat) -> Seq(Node)],
                      \A q \in Seq(Nat) : m[q] < m[s] => g[q] = h[q]
               PROVE  PiecesBody(s, g) = PiecesBody(s, h)
    BY DEF LooksBelow
  <2> DEFINE t == Rest(s, Fitting(s) + 1)
  <2>1. ASSUME ~(Len(s) <= 1) PROVE g[t] = h[t]
    <3>1. FirstTakes(s, Fitting(s), t, SubSeq(s, 2, Fitting(s)))
      BY <2>1, FittingTakes
    <3>2. t \in Seq(Nat)
      BY <3>1 DEF FirstTakes
    <3> DEFINE l == Len(s)
               n == Len(t)
               k == Fitting(s)
    <3>3. l \in Nat /\ n \in Nat /\ k \in Nat /\ k > 0 /\ l = k + n
      BY <3>1, <3>2 DEF FirstTakes
    <3>4. n < l
      <4> HIDE DEF l, n, k
      <4> QED
        BY <3>3
    <3> HIDE DEF t
    <3>5. m[t] < m[s]
      BY <3>2, <3>4
    <3> QED
      BY <3>2, <3>5
  <2> HIDE DEF m
  <2> QED
    BY <2>1 DEF PiecesBody
<1>5. Solvable(Seq(Nat), Seq(Node), F)
  <2>1. Seq(Node) # {}
    <3>1. <<>> \in Seq(Node)
      OBVIOUS
    <3> QED
      BY <3>1
  <2> HIDE DEF m, F
  <2> QED
    BY <1>1, <1>3, <1>4, <2>1, RecursionSolved, Zenon
<1>6. PICK f : f = [s \in Seq(Nat) |-> PiecesBody(s, f)]
  BY <1>5 DEF Solvable
<1>7. Pieces = CHOOSE g : g = [s \in Seq(Nat) |-> PiecesBody(s, g)]
  BY DEF Pieces, PiecesBody
<1> HIDE DEF m, F
<1> QED
  BY <1>6, <1>7

(***************************************************************************)
(* One more node before those for the rest of a word.                      *)
(***************************************************************************)
LEMMA OnePieceMore ==
  ASSUME NEW s, NEW k, NEW t, NEW a, FirstTakes(s, k, t, a.str),
         a \in Node, a.c = s[1], a.data = NoData, a.next = NoNode, a.child = NoNode,
         NEW qs, NEW o, PiecesOf(qs, t, o)
  PROVE  \E off : PiecesOf(<<a>> \o qs, s, off)
<1> DEFINE ps == <<a>> \o qs
           n == Len(qs)
           off == [j \in 1 .. n + 1 |-> IF j = 1 THEN 0 ELSE o[j - 1] + k]
           l == Len(s)
           lt == Len(t)
<1>1. qs \in Seq(Node) /\ n \in Nat /\ n > 0 /\ k \in Nat /\ k > 0 /\ l = k + lt /\ lt \in Nat
      /\ lt > 0
  BY DEF PiecesOf, FirstTakes
<1>2. <<a>> \in Seq(Node) /\ Len(<<a>>) = 1 /\ <<a>>[1] = a
  OBVIOUS
<1>3. /\ ps \in Seq(Node) /\ Len(ps) = 1 + n
      /\ \A j \in 1 .. 1 + n : ps[j] = IF j <= 1 THEN <<a>>[j] ELSE qs[j - 1]
  BY <1>1, <1>2, ConcatProperties
<1> HIDE DEF ps, n, l, lt
<1>4. ps[1] = a /\ \A j \in 1 .. n : ps[j + 1] = qs[j]
  <2>1. ps[1] = a
    BY <1>1, <1>2, <1>3
  <2>2. ASSUME NEW j \in 1 .. n PROVE ps[j + 1] = qs[j]
    <3>1. j + 1 \in 1 .. 1 + n /\ ~(j + 1 <= 1) /\ j + 1 - 1 = j
      BY <1>1
    <3> QED
      BY <1>3, <3>1
  <2> QED
    BY <2>1, <2>2
<1>5. o \in [1 .. n -> Nat] /\ o[1] = 0 /\ o[n] + 1 = lt
  BY DEF PiecesOf, n, lt
<1>6. off \in [1 .. n + 1 -> Nat] /\ off[1] = 0 /\ \A j \in 1 .. n : off[j + 1] = o[j] + k
  <2>1. ASSUME NEW j \in 1 .. n + 1 PROVE (IF j = 1 THEN 0 ELSE o[j - 1] + k) \in Nat
    <3>1. CASE j = 1
      BY <3>1
    <3>2. CASE j # 1
      <4>1. j - 1 \in 1 .. n
        BY <1>1, <3>2
      <4>2. o[j - 1] \in Nat
        BY <1>5, <4>1
      <4> QED
        BY <1>1, <3>2, <4>2
    <3> QED
      BY <3>1, <3>2
  <2>2. 1 \in 1 .. n + 1
    BY <1>1
  <2>3. ASSUME NEW j \in 1 .. n PROVE off[j + 1] = o[j] + k
    <3>1. j + 1 \in 1 .. n + 1 /\ j + 1 # 1 /\ j + 1 - 1 = j
      BY <1>1
    <3> QED
      BY <3>1
  <2> QED
    BY <2>1, <2>2, <2>3
<1> HIDE DEF off
<1>7. off[n + 1] + 1 = l
  <2>1. n \in 1 .. n
    BY <1>1
  <2> DEFINE b == o[n]
  <2>2. off[n + 1] = b + k /\ b \in Nat /\ b + 1 = lt
    BY <1>5, <1>6, <2>1
  <2> HIDE DEF b
  <2>3. (b + k) + 1 = l
    BY <1>1, <2>2
  <2> QED
    BY <2>2, <2>3
\* The index j of ps is 1 or the one after an index of qs.
<1>8. ASSUME NEW j \in 1 .. n + 1, j # 1 PROVE \E q \in 1 .. n : j = q + 1
  <2>1. j - 1 \in 1 .. n /\ j = (j - 1) + 1
    BY <1>1, <1>8
  <2> QED
    BY <2>1
<1>9. ASSUME NEW q \in 1 .. n
      PROVE  /\ off[q + 1] < l /\ ps[q + 1].c = s[off[q + 1] + 1]
             /\ ps[q + 1].data = NoData /\ ps[q + 1].next = NoNode /\ ps[q + 1].child = NoNode
  <2> DEFINE b == o[q]
             e == off[q + 1]
  <2>1. b \in Nat /\ e = b + k
    BY <1>5, <1>6
  <2>2. b < lt /\ qs[q].c = t[b + 1]
        /\ qs[q].data = NoData /\ qs[q].next = NoNode /\ qs[q].child = NoNode
    BY DEF PiecesOf, n, lt
  <2> HIDE DEF b, e
  <2>3. e < l /\ b + 1 \in 1 .. lt /\ k + (b + 1) = e + 1
    BY <1>1, <2>1, <2>2
  <2>4. t[b + 1] = s[e + 1]
    <3>1. t[b + 1] = s[k + (b + 1)]
      BY <2>3 DEF FirstTakes, lt
    <3> QED
      BY <2>3, <3>1
  <2> QED
    BY <1>4, <2>2, <2>3, <2>4 DEF e
<1>10. ASSUME NEW j \in 1 .. n + 1
       PROVE  /\ off[j] < l /\ ps[j].c = s[off[j] + 1]
              /\ ps[j].data = NoData /\ ps[j].next = NoNode /\ ps[j].child = NoNode
  <2>1. CASE j = 1
    <3>1. 0 < l /\ 0 + 1 = 1
      BY <1>1
    <3> QED
      BY <1>4, <1>6, <2>1, <3>1
  <2>2. CASE j # 1
    BY <1>8, <1>9, <2>2
  <2> QED
    BY <2>1, <2>2
<1>11. ASSUME NEW j \in 1 .. n
       PROVE  /\ Size(ps, j) = off[j + 1] - off[j] - 1
              /\ \A q \in 1 .. Size(ps, j) : ps[j].str[q] = s[off[j] + 1 + q]
  <2>1. CASE j = 1
    <3>1. Size(ps, 1) = k - 1
      BY <1>4 DEF Size, FirstTakes
    <3>2. off[1 + 1] = 0 + k /\ 1 \in 1 .. n
      BY <1>1, <1>5, <1>6
    <3>3. k - 1 = (0 + k) - 0 - 1
      BY <1>1
    <3>4. \A q \in 1 .. k - 1 : ps[1].str[q] = s[1 + q]
      BY <1>4 DEF FirstTakes
    <3>5. \A q \in 1 .. k - 1 : 0 + 1 + q = 1 + q
      BY <1>1
    <3> QED
      BY <1>6, <2>1, <3>1, <3>2, <3>3, <3>4, <3>5
  <2>2. CASE j # 1
    <3>1. PICK q \in 1 .. n - 1 : j = q + 1
      <4>1. j - 1 \in 1 .. n - 1 /\ j = (j - 1) + 1
        BY <1>1, <2>2
      <4> QED
        BY <4>1
    <3>2. q \in 1 .. n /\ q + 1 \in 1 .. n
      BY <1>1
    <3> DEFINE b == o[q]
               c == o[q + 1]
               z == Size(qs, q)
    <3>3. b \in Nat /\ c \in Nat
      BY <1>5, <3>2
    <3>4. z = c - b - 1 /\ \A h \in 1 .. z : qs[q].str[h] = t[b + 1 + h]
      <4>1. q \in 1 .. Len(qs) - 1
        BY DEF n
      <4> QED
        BY <4>1 DEF PiecesOf
    <3>5. c < lt
      BY <3>2 DEF PiecesOf, n, lt
    <3>6. off[j] = b + k /\ off[j + 1] = c + k /\ ps[j] = qs[q]
      BY <1>4, <1>6, <3>1, <3>2
    <3>7. Size(ps, j) = z
      BY <3>6 DEF Size
    <3> HIDE DEF b, c, z
    <3>8. z = (c + k) - (b + k) - 1
      BY <1>1, <3>3, <3>4
    <3>9. ASSUME NEW h \in 1 .. z PROVE qs[q].str[h] = s[(b + k) + 1 + h]
      <4>1. b + 1 + h \in 1 .. lt /\ k + (b + 1 + h) = (b + k) + 1 + h
        BY <1>1, <3>3, <3>4, <3>5
      <4>2. t[b + 1 + h] = s[k + (b + 1 + h)]
        BY <4>1 DEF FirstTakes, lt
      <4> QED
        BY <3>4, <4>1, <4>2
    <3> QED
      BY <3>6, <3>7, <3>8, <3>9
  <2> QED
    BY <2>1, <2>2
<1>12. ps[n + 1].str = <<>>
  <2>1. n \in 1 .. n
    BY <1>1
  <2>2. ps[n + 1] = qs[n]
    BY <1>4, <2>1
  <2> QED
    BY <2>2 DEF PiecesOf, n
<1>13. PiecesOf(ps, s, off)
  <2>1. Len(ps) = n + 1 /\ Len(ps) > 0 /\ Len(ps) - 1 = n
    BY <1>1, <1>3
  <2> QED
    BY <1>3, <1>6, <1>7, <1>10, <1>11, <1>12, <2>1 DEF PiecesOf, l
<1> QED
  BY <1>13 DEF ps

(***************************************************************************)
(* Pieces makes the nodes for any word but the empty one.                  *)
(***************************************************************************)
LEMMA PiecesMade ==
  ASSUME NEW s \in Seq(Nat), s # <<>>
  PROVE  \E off : PiecesOf(Pieces[s], s, off)
<1> DEFINE Made(v) == \E off : PiecesOf(Pieces[v], v, off)
           T == {n \in Nat : \A v \in Seq(Nat) : Len(v) = n /\ n > 0 => Made(v)}
<1>1. ASSUME NEW n \in Nat, \A j \in Nat : j < n => j \in T PROVE n \in T
  <2> SUFFICES ASSUME NEW v \in Seq(Nat), Len(v) = n, n > 0 PROVE Made(v)
    OBVIOUS
  <2>1. Pieces[v] = PiecesBody(v, Pieces)
    BY PiecesUnfolds
  <2>2. CASE n = 1
    <3> DEFINE a == [Cleared EXCEPT !.c = v[1]]
               ps == [j \in DOMAIN v |-> [Cleared EXCEPT !.c = v[j]]]
               off == [j \in 1 .. 1 |-> 0]
    <3>1. v[1] \in Nat /\ DOMAIN v = {1}
      <4>1. DOMAIN v = 1 .. 1 /\ v \in [1 .. 1 -> Nat]
        BY <2>2, LenProperties
      <4> QED
        BY <4>1
    <3>2. a \in Node /\ a.c = v[1] /\ a.str = <<>> /\ a.data = NoData /\ a.next = NoNode
          /\ a.child = NoNode
      BY <3>1, ClearedIsNode DEF Node
    <3>3. Pieces[v] = ps
      BY <2>1, <2>2 DEF PiecesBody
    <3>4. ps[1] = a /\ DOMAIN ps = {1}
      BY <3>1
    <3>5. ps \in [1 .. 1 -> Node]
      BY <3>1, <3>2
    <3> HIDE DEF ps, a
    <3>6. ps \in Seq(Node) /\ Len(ps) = 1
      <4>1. ps \in Seq(Node)
        <5>1. [1 .. 1 -> Node] \in {[1 .. q -> Node] : q \in Nat}
          OBVIOUS
        <5>2. Seq(Node) = UNION {[1 .. q -> Node] : q \in Nat}
          BY SeqDef
        <5> QED
          BY <3>5, <5>1, <5>2
      <4> QED
        BY <3>5, <4>1, LenProperties
    <3>7. off \in [1 .. 1 -> Nat] /\ off[1] = 0
      OBVIOUS
    <3> HIDE DEF off
    <3>8. PiecesOf(ps, v, off)
      <4>1. 1 .. Len(ps) = {1} /\ 1 .. Len(ps) - 1 = {} /\ Len(ps) > 0 /\ off[1] + 1 = Len(v)
            /\ off[1] < Len(v) /\ off[1] + 1 = 1
        BY <2>2, <3>6, <3>7
      <4> QED
        BY <3>2, <3>4, <3>6, <3>7, <4>1 DEF PiecesOf
    <3> QED
      BY <3>3, <3>8
  <2>3. CASE n # 1
    <3> DEFINE k == Fitting(v)
               t == Rest(v, k + 1)
               u == SubSeq(v, 2, k)
               a == [Cleared EXCEPT !.c = v[1], !.str = u]
    <3>1. ~(Len(v) <= 1) /\ Len(v) > 1
      BY <2>3
    <3>2. FirstTakes(v, k, t, u)
      BY <3>1, FittingTakes
    <3>3. Pieces[v] = <<a>> \o Pieces[t]
      BY <2>1, <3>1 DEF PiecesBody
    <3> HIDE DEF k, t, u
    <3>4. v[1] \in Nat /\ u \in Seq(Nat) /\ t \in Seq(Nat)
      BY <3>2 DEF FirstTakes
    <3>5. a \in Node /\ a.c = v[1] /\ a.str = u /\ a.data = NoData /\ a.next = NoNode
          /\ a.child = NoNode
      BY <3>4, ClearedIsNode DEF Node
    <3>6. Made(t)
      <4> DEFINE lt == Len(t)
      <4>1. lt \in Nat /\ lt > 0 /\ k \in Nat /\ k > 0 /\ n = k + lt
        BY <3>2, <3>4 DEF FirstTakes
      <4> HIDE DEF lt
      <4>2. lt \in T
        BY <1>1, <4>1
      <4> QED
        BY <3>4, <4>1, <4>2 DEF lt
    <3>7. PICK o : PiecesOf(Pieces[t], t, o)
      BY <3>6
    <3> HIDE DEF a
    <3>8. Made(v)
      <4>1. FirstTakes(v, k, t, a.str)
        BY <3>2, <3>5
      <4>2. \E off : PiecesOf(<<a>> \o Pieces[t], v, off)
        BY <3>5, <3>7, <4>1, OnePieceMore
      <4> QED
        BY <3>3, <4>2
    <3> QED
      BY <3>8
  <2> QED
    BY <2>2, <2>3
<1>2. T = Nat
  <2> HIDE DEF T
  <2>1. T \in SUBSET Nat
    BY DEF T
  <2> QED
    BY <1>1, <2>1, NatInductBelow
<1>3. Len(s) \in Nat /\ Len(s) > 0
  BY EmptySeq
<1> QED
  BY <1>2, <1>3

-----------------------------------------------------------------------------
(* The nodes taken and given back.                                         *)

\* The nodes taken from the banks are us and those on the free list fr.
Accounts(us, fr, tp) ==
  /\ fr \in Seq(Index) /\ IsInjective(fr) /\ tp \in 0 .. MaxNodes
  /\ us \cap Range(fr) = {} /\ us \cup Range(fr) = 1 .. tp

\* ns are k nodes, none of them in us.
Fresh(ns, k, us) ==
  /\ ns \in Seq(Index) /\ IsInjective(ns) /\ Len(ns) = k /\ Range(ns) \cap us = {}

(***************************************************************************)
(* A sequence of which each place is known.                                *)
(***************************************************************************)
LEMMA SeqMade ==
  ASSUME NEW S, NEW n \in Nat, NEW f, f = [j \in 1 .. n |-> f[j]],
         \A j \in 1 .. n : f[j] \in S
  PROVE  /\ f \in Seq(S) /\ Len(f) = n /\ DOMAIN f = 1 .. n
         /\ Range(f) = {f[j] : j \in 1 .. n}
<1>1. f \in [1 .. n -> S]
  OBVIOUS
<1>2. f \in Seq(S)
  BY <1>1, SeqDef
<1>3. DOMAIN f = 1 .. n /\ Len(f) = n
  BY <1>1, <1>2, LenProperties
<1> QED
  BY <1>2, <1>3 DEF Range

(***************************************************************************)
(* What is left of a sequence from its place g + 1 on.                     *)
(***************************************************************************)
LEMMA RestOf ==
  ASSUME NEW S, NEW s \in Seq(S), NEW g \in 0 .. Len(s)
  PROVE  /\ Rest(s, g + 1) \in Seq(S) /\ Len(Rest(s, g + 1)) = Len(s) - g
         /\ \A j \in 1 .. Len(s) - g : Rest(s, g + 1)[j] = s[g + j]
<1> DEFINE l == Len(s)
           r == Rest(s, g + 1)
           h == g + 1
<1>1. l \in Nat /\ g \in 0 .. l /\ s \in [1 .. l -> S] /\ r = SubSeq(s, h, l)
  BY DEF Rest
<1> HIDE DEF l, r
<1>2. h \in Int /\ l \in Int /\ h >= 1 /\ \A j \in h .. l : s[j] \in S
  BY <1>1
<1> HIDE DEF h
<1>3. /\ r \in Seq(S) /\ Len(r) = IF h <= l THEN l - h + 1 ELSE 0
      /\ \A j \in 1 .. l - h + 1 : r[j] = s[h + j - 1]
  BY <1>1, <1>2, SubSeqProperties
<1>4. h = g + 1
  BY DEF h
<1>5. Len(r) = l - g
  BY <1>1, <1>3, <1>4
<1>6. ASSUME NEW j \in 1 .. l - g PROVE r[j] = s[g + j]
  <2>1. j \in 1 .. l - h + 1 /\ h + j - 1 = g + j
    BY <1>1, <1>4
  <2> QED
    BY <1>3, <2>1
<1> QED
  BY <1>3, <1>5, <1>6 DEF l, r, h

(***************************************************************************)
(* The nodes that are taken were free, and the others still are.           *)
(***************************************************************************)
LEMMA TakenAccounts ==
  ASSUME Accounts(used, free, top), NEW k \in Nat, TopAfter(k) <= MaxNodes
  PROVE  /\ Fresh(Taken(k), k, used)
         /\ Accounts(used \cup Range(Taken(k)), FreeLeft(k), TopAfter(k))
<1> DEFINE l == Len(free)
           g == FromFree(k)
           tp == TopAfter(k)
           ns == Taken(k)
           fr == FreeLeft(k)
<1>1. /\ free \in Seq(Index) /\ top \in Nat /\ MaxNodes \in Nat /\ l \in Nat
      /\ \A j \in 1 .. l : free[j] \in Index
      /\ Range(free) = {free[j] : j \in 1 .. l}
      /\ \A j, q \in 1 .. l : free[j] = free[q] => j = q
  <2>1. free \in Seq(Index) /\ top \in 0 .. MaxNodes /\ MaxNodes \in Nat
    BY TrieAssumption DEF Accounts
  <2>2. IsInjective(free)
    BY DEF Accounts
  <2>3. DOMAIN free = 1 .. l
    BY <2>1
  <2> QED
    BY <2>1, <2>2, <2>3 DEF IsInjective, Range
<1>2. g = (IF k < l THEN k ELSE l) /\ tp = top + k - g /\ fr = Rest(free, g + 1)
  BY DEF FromFree, TopAfter, FreeLeft
<1>3. ns = [j \in 1 .. k |-> IF j <= l THEN free[j] ELSE top + j - l]
  BY DEF Taken
<1>4. used \cap Range(free) = {} /\ used \cup Range(free) = 1 .. top
  BY DEF Accounts
<1> HIDE DEF l, g, tp, ns, fr
<1>5. g \in 0 .. l /\ g <= k /\ tp \in Nat /\ tp \in 0 .. MaxNodes /\ top <= tp
      /\ (g = k \/ (g = l /\ tp = top + k - l))
  <2>1. tp <= MaxNodes
    BY DEF tp
  <2> QED
    BY <1>1, <1>2, <2>1
<1>6. fr \in Seq(Index) /\ Len(fr) = l - g /\ \A j \in 1 .. l - g : fr[j] = free[g + j]
  <2>1. g \in 0 .. Len(free) /\ free \in Seq(Index) /\ l = Len(free)
    BY <1>1, <1>5 DEF l
  <2>2. /\ Rest(free, g + 1) \in Seq(Index) /\ Len(Rest(free, g + 1)) = Len(free) - g
        /\ \A j \in 1 .. Len(free) - g : Rest(free, g + 1)[j] = free[g + j]
    BY <2>1, RestOf
  <2> QED
    BY <1>2, <2>1, <2>2
<1>7. Range(fr) = {fr[j] : j \in 1 .. l - g} /\ DOMAIN fr = 1 .. l - g
  <2>1. DOMAIN fr = 1 .. l - g
    BY <1>6
  <2> QED
    BY <2>1 DEF Range
<1>8. ASSUME NEW j \in 1 .. l - g PROVE g + j \in 1 .. l /\ g + j > g
  BY <1>1, <1>5
\* A taken node comes from the free list, or is new.
<1>9. ASSUME NEW j \in 1 .. k
      PROVE  \/ j \in 1 .. l /\ j <= g /\ ns[j] = free[j] /\ ns[j] \in 1 .. top
             \/ ~(j <= l) /\ g = l /\ ns[j] = top + j - l /\ ns[j] \in top + 1 .. tp
  <2>1. CASE j <= l
    <3>1. j \in 1 .. l /\ j <= g
      BY <1>1, <1>5, <2>1
    <3>2. ns[j] = free[j]
      BY <1>3, <2>1
    <3>3. free[j] \in 1 .. top
      BY <1>1, <1>4, <3>1
    <3> QED
      BY <3>1, <3>2, <3>3
  <2>2. CASE ~(j <= l)
    <3>1. g = l /\ tp = top + k - l
      BY <1>1, <1>5, <2>2
    <3>2. ns[j] = top + j - l
      BY <1>3, <2>2
    <3>3. top + j - l \in top + 1 .. tp
      BY <1>1, <2>2, <3>1
    <3> QED
      BY <2>2, <3>1, <3>2, <3>3
  <2> QED
    BY <2>1, <2>2
<1>10. \A j \in 1 .. k : ns[j] \in Index
  <2>1. ASSUME NEW j \in 1 .. k PROVE ns[j] \in 1 .. tp
    BY <1>1, <1>5, <1>9
  <2>2. 1 .. tp \subseteq Index
    BY <1>1, <1>5 DEF Index
  <2> QED
    BY <2>1, <2>2
<1>11. /\ ns \in Seq(Index) /\ Len(ns) = k /\ DOMAIN ns = 1 .. k
       /\ Range(ns) = {ns[j] : j \in 1 .. k}
  <2>1. ns = [j \in 1 .. k |-> ns[j]]
    BY <1>3
  <2> QED
    BY <1>10, <2>1, SeqMade
<1>12. IsInjective(ns)
  <2>1. ASSUME NEW j \in 1 .. k, NEW q \in 1 .. k, ns[j] = ns[q] PROVE j = q
    <3>1. CASE j <= l /\ q <= l
      <4>1. ns[j] = free[j] /\ ns[q] = free[q] /\ j \in 1 .. l /\ q \in 1 .. l
        BY <1>3, <1>1, <3>1
      <4> QED
        BY <1>1, <2>1, <4>1
    <3>2. CASE ~(j <= l) /\ ~(q <= l)
      <4>1. top + j - l = top + q - l
        BY <1>3, <2>1, <3>2
      <4> QED
        BY <1>1, <4>1
    <3>3. CASE (j <= l /\ ~(q <= l)) \/ (q <= l /\ ~(j <= l))
      <4>1. ~(ns[j] \in 1 .. top /\ ns[q] \in top + 1 .. tp)
            /\ ~(ns[q] \in 1 .. top /\ ns[j] \in top + 1 .. tp)
        BY <1>1, <1>5, <2>1
      <4> QED
        BY <1>9, <3>3, <4>1
    <3> QED
      BY <3>1, <3>2, <3>3
  <2> QED
    BY <1>11, <2>1 DEF IsInjective
<1>13. ASSUME NEW j \in 1 .. k PROVE ns[j] \notin used
  <2>1. CASE j \in 1 .. l /\ ns[j] = free[j]
    BY <1>1, <1>4, <2>1
  <2>2. CASE ns[j] \in top + 1 .. tp
    <3>1. ns[j] \notin 1 .. top
      BY <1>1, <1>5, <2>2
    <3> QED
      BY <1>4, <3>1
  <2> QED
    BY <1>9, <2>1, <2>2
<1>14. Fresh(ns, k, used)
  BY <1>11, <1>12, <1>13 DEF Fresh
<1>15. IsInjective(fr)
  <2>1. ASSUME NEW j \in 1 .. l - g, NEW q \in 1 .. l - g, fr[j] = fr[q] PROVE j = q
    <3>1. free[g + j] = free[g + q]
      BY <1>6, <2>1
    <3>2. g + j = g + q
      BY <1>1, <1>8, <3>1
    <3> QED
      BY <1>5, <3>2
  <2> QED
    BY <1>7, <2>1 DEF IsInjective
<1>16. ASSUME NEW j \in 1 .. l - g PROVE fr[j] \notin used /\ fr[j] \notin Range(ns)
  <2>1. fr[j] = free[g + j] /\ g + j \in 1 .. l
    BY <1>6, <1>8
  <2>2. fr[j] \in Range(free) /\ fr[j] \in 1 .. top
    BY <1>1, <1>4, <2>1
  <2>3. ASSUME NEW q \in 1 .. k PROVE ns[q] # fr[j]
    <3>1. CASE q \in 1 .. l /\ q <= g /\ ns[q] = free[q]
      <4>1. q # g + j
        BY <1>5, <3>1
      <4> QED
        BY <1>1, <2>1, <3>1, <4>1
    <3>2. CASE ns[q] \in top + 1 .. tp
      BY <1>1, <1>5, <2>2, <3>2
    <3> QED
      BY <1>9, <3>1, <3>2
  <2> QED
    BY <1>4, <1>11, <2>2, <2>3
<1>17. (used \cup Range(ns)) \cup Range(fr) \subseteq 1 .. tp
  <2>1. 1 .. top \subseteq 1 .. tp /\ top + 1 .. tp \subseteq 1 .. tp
    BY <1>1, <1>5
  <2>2. used \subseteq 1 .. tp
    BY <1>4, <2>1
  <2>3. Range(ns) \subseteq 1 .. tp
    BY <1>9, <1>11, <2>1
  <2>4. Range(fr) \subseteq 1 .. tp
    BY <1>1, <1>4, <1>6, <1>7, <1>8, <2>1
  <2> QED
    BY <2>2, <2>3, <2>4
<1>18. ASSUME NEW z \in 1 .. tp PROVE z \in (used \cup Range(ns)) \cup Range(fr)
  <2>1. CASE z \in used
    BY <2>1
  <2>2. CASE z \in Range(free)
    <3>1. PICK j \in 1 .. l : z = free[j]
      BY <1>1, <2>2
    <3>2. CASE j <= g
      <4>1. j \in 1 .. k /\ j <= l
        BY <1>1, <1>5, <3>2
      <4>2. ns[j] = free[j]
        BY <1>3, <4>1
      <4> QED
        BY <1>11, <3>1, <4>1, <4>2
    <3>3. CASE ~(j <= g)
      <4>1. j - g \in 1 .. l - g /\ g + (j - g) = j
        BY <1>1, <1>5, <3>3
      <4>2. fr[j - g] = free[j]
        BY <1>6, <4>1
      <4> QED
        BY <1>7, <3>1, <4>1, <4>2
    <3> QED
      BY <3>2, <3>3
  <2>3. CASE z \notin 1 .. top
    <3>1. z > top /\ tp > top
      BY <1>1, <1>5, <2>3
    <3>2. g = l /\ tp = top + k - l
      BY <1>1, <1>2, <1>5, <3>1
    <3>3. z - top + l \in 1 .. k /\ ~(z - top + l <= l) /\ top + (z - top + l) - l = z
      BY <1>1, <3>1, <3>2
    <3>4. ns[z - top + l] = z
      BY <1>3, <3>3
    <3> QED
      BY <1>11, <3>3, <3>4
  <2> QED
    BY <1>4, <2>1, <2>2, <2>3
<1>19. Accounts(used \cup Range(ns), fr, tp)
  <2>1. (used \cup Range(ns)) \cap Range(fr) = {}
    BY <1>7, <1>16
  <2>2. (used \cup Range(ns)) \cup Range(fr) = 1 .. tp
    BY <1>17, <1>18
  <2> QED
    BY <1>5, <1>6, <1>15, <2>1, <2>2 DEF Accounts
<1> QED
  BY <1>14, <1>19 DEF ns, fr, tp

(***************************************************************************)
(* Nodes no longer in use are put on the free list.                        *)
(***************************************************************************)
LEMMA GivenBack ==
  ASSUME NEW us, NEW ns, NEW k, Fresh(ns, k, us), NEW fr, NEW tp,
         Accounts(us \cup Range(ns), fr, tp)
  PROVE  Accounts(us, Reverse(ns) \o fr, tp)
<1> DEFINE rs == Reverse(ns)
           l == Len(fr)
           gs == rs \o fr
<1>1. k \in Nat /\ DOMAIN ns = 1 .. k /\ ns \in Seq(Index) /\ Len(ns) = k
      /\ Range(ns) = {ns[j] : j \in 1 .. k} /\ \A j \in 1 .. k : ns[j] \in Index
  <2>1. ns \in Seq(Index) /\ Len(ns) = k
    BY DEF Fresh
  <2>2. DOMAIN ns = 1 .. k
    BY <2>1
  <2> QED
    BY <2>1, <2>2 DEF Range
<1>2. \A j, q \in 1 .. k : ns[j] = ns[q] => j = q
  BY <1>1 DEF Fresh, IsInjective
<1>3. rs = [j \in 1 .. k |-> ns[k - j + 1]]
  BY <1>1 DEF Reverse
<1>4. fr \in Seq(Index) /\ l \in Nat /\ DOMAIN fr = 1 .. l /\ Range(fr) = {fr[j] : j \in 1 .. l}
      /\ \A j, q \in 1 .. l : fr[j] = fr[q] => j = q
  <2>1. fr \in Seq(Index)
    BY DEF Accounts
  <2>2. DOMAIN fr = 1 .. l /\ l \in Nat
    BY <2>1
  <2> QED
    BY <2>1, <2>2 DEF Accounts, IsInjective, Range
<1> HIDE DEF rs, l
<1>5. ASSUME NEW j \in 1 .. k PROVE k - j + 1 \in 1 .. k /\ k - (k - j + 1) + 1 = j
  BY <1>1
<1>6. \A j \in 1 .. k : rs[j] = ns[k - j + 1] /\ rs[j] \in Index
  BY <1>1, <1>3, <1>5
<1>7. rs \in Seq(Index) /\ Len(rs) = k
  <2>1. rs = [j \in 1 .. k |-> rs[j]]
    BY <1>3
  <2> QED
    BY <1>1, <1>6, <2>1, SeqMade
<1>8. /\ gs \in Seq(Index) /\ Len(gs) = k + l
      /\ \A j \in 1 .. k + l : gs[j] = IF j <= k THEN rs[j] ELSE fr[j - k]
  <2>1. fr \in Seq(Index) /\ rs \in Seq(Index) /\ Len(rs) = k /\ Len(fr) = l
    BY <1>4, <1>7 DEF l
  <2>2. /\ gs \in Seq(Index) /\ Len(gs) = Len(rs) + Len(fr)
        /\ \A j \in 1 .. Len(rs) + Len(fr) : gs[j] = IF j <= Len(rs) THEN rs[j] ELSE fr[j - Len(rs)]
    BY <2>1, ConcatProperties
  <2> QED
    BY <2>1, <2>2
<1> HIDE DEF gs
<1>9. DOMAIN gs = 1 .. k + l /\ Range(gs) = {gs[j] : j \in 1 .. k + l}
  <2>1. DOMAIN gs = 1 .. k + l
    BY <1>8
  <2> QED
    BY <2>1 DEF Range
<1>10. ASSUME NEW j \in 1 .. k + l
       PROVE  \/ j \in 1 .. k /\ gs[j] = ns[k - j + 1] /\ gs[j] \in Range(ns)
              \/ ~(j <= k) /\ j - k \in 1 .. l /\ gs[j] = fr[j - k] /\ gs[j] \in Range(fr)
  <2>1. CASE j <= k
    <3>1. j \in 1 .. k
      BY <1>1, <2>1
    <3> QED
      BY <1>1, <1>5, <1>6, <1>8, <2>1, <3>1
  <2>2. CASE ~(j <= k)
    <3>1. j - k \in 1 .. l
      BY <1>1, <1>4, <2>2
    <3> QED
      BY <1>4, <1>8, <2>2, <3>1
  <2> QED
    BY <2>1, <2>2
<1>11. Range(ns) \cap Range(fr) = {} /\ us \cap Range(fr) = {} /\ us \cap Range(ns) = {}
       /\ (us \cup Range(ns)) \cup Range(fr) = 1 .. tp /\ tp \in 0 .. MaxNodes
  BY DEF Accounts, Fresh
<1>12. IsInjective(gs)
  <2>1. ASSUME NEW j \in 1 .. k + l, NEW q \in 1 .. k + l, gs[j] = gs[q] PROVE j = q
    <3>1. CASE j \in 1 .. k /\ q \in 1 .. k /\ gs[j] = ns[k - j + 1] /\ gs[q] = ns[k - q + 1]
      <4>1. k - j + 1 = k - q + 1
        BY ZenonT(30), <1>2, <1>5, <2>1, <3>1
      <4> QED
        BY <1>1, <4>1
    <3>2. CASE /\ j - k \in 1 .. l /\ q - k \in 1 .. l
               /\ gs[j] = fr[j - k] /\ gs[q] = fr[q - k]
      <4>1. j - k = q - k
        BY <1>4, <2>1, <3>2
      <4> QED
        BY <1>1, <1>4, <4>1
    <3>3. CASE gs[j] \in Range(ns) /\ gs[q] \in Range(fr)
      BY <1>11, <2>1, <3>3
    <3>4. CASE gs[j] \in Range(fr) /\ gs[q] \in Range(ns)
      BY <1>11, <2>1, <3>4
    <3> QED
      BY <1>10, <3>1, <3>2, <3>3, <3>4
  <2> QED
    BY <1>9, <2>1 DEF IsInjective
<1>13. Range(gs) = Range(ns) \cup Range(fr)
  <2>1. Range(gs) \subseteq Range(ns) \cup Range(fr)
    BY <1>9, <1>10
  <2>2. ASSUME NEW j \in 1 .. k PROVE ns[j] \in Range(gs)
    <3>1. k - j + 1 \in 1 .. k + l /\ k - j + 1 <= k
      BY <1>1, <1>4, <1>5
    <3>2. gs[k - j + 1] = ns[j]
      BY <1>5, <1>6, <1>8, <3>1
    <3> QED
      BY <1>9, <3>1, <3>2
  <2>3. ASSUME NEW j \in 1 .. l PROVE fr[j] \in Range(gs)
    <3> DEFINE h == k + j
    <3>1. h \in 1 .. k + l /\ ~(h <= k) /\ h - k = j
      BY <1>1, <1>4
    <3> HIDE DEF h
    <3>2. gs[h] = fr[j]
      BY <1>8, <3>1
    <3> QED
      BY <1>9, <3>1, <3>2
  <2> QED
    BY <1>1, <1>4, <2>1, <2>2, <2>3
<1>14. Accounts(us, gs, tp)
  BY <1>8, <1>11, <1>12, <1>13 DEF Accounts
<1> QED
  BY <1>14 DEF gs, rs

-----------------------------------------------------------------------------
(* trie_insert.                                                            *)

\* The trie holds what it is to hold, as at, rank and from describe.
Now(at, rank, from) ==
  /\ Shape(node, used, root, at, rank, from) /\ Leads(node, used)
  /\ Holds(node, used, at, kv)

\* The node that gets the data of a word, as e describes.
EndOf(e, ns) ==
  IF e.act \in {"SET", "SPLIT_0_SET"} THEN e.x
  ELSE IF e.act = "SPLIT_N_CHILD" THEN ns[1] ELSE ns[Len(ns)]

\* The insertion that e describes puts w in.
PutsIn(at, w, d, e, ns) ==
  Grown(node, used, at, Inserted(w, d, e, ns).node, used \cup Range(ns),
        Inserted(w, d, e, ns).root, Also(kv, w, d), EndOf(e, ns), w)

(***************************************************************************)
(* The nodes taken are a chain for the rest of the word.                   *)
(***************************************************************************)
LEMMA FreshChain ==
  ASSUME NEW us, NEW w \in Seq(Nat), NEW i \in 1 .. Len(w), NEW ns,
         Fresh(ns, Len(Pieces[Rest(w, i)]), us)
  PROVE  ChainFor(us, w, i, ns, Pieces[Rest(w, i)])
<1>1. Rest(w, i) \in Seq(Nat) /\ Len(Rest(w, i)) = Len(w) - i + 1
  <2>1. i \in 1 .. Len(w) + 1
    OBVIOUS
  <2> QED
    BY <2>1, RestParts
<1>2. Rest(w, i) # <<>>
  <2> DEFINE l == Len(w)
             r == Len(Rest(w, i))
  <2>1. l \in Nat /\ i \in 1 .. l /\ r = l - i + 1
    BY <1>1
  <2> HIDE DEF l, r
  <2>2. r > 0
    BY <2>1
  <2> QED
    BY <2>2 DEF r
<1>3. \E off : PiecesOf(Pieces[Rest(w, i)], Rest(w, i), off)
  BY <1>1, <1>2, PiecesMade
<1> QED
  BY <1>3 DEF Fresh, ChainFor

(***************************************************************************)
(* Where a node fits, it is for a character of the word.                   *)
(***************************************************************************)
LEMMA FitsWithin ==
  ASSUME NEW nd, NEW us, NEW rt, NEW at, NEW w \in Seq(Nat), NEW i, NEW p, NEW f,
         Fits(nd, us, rt, at, w, i, p, f)
  PROVE  i \in 1 .. Len(w) /\ p \in us \cup {NoNode}
<1> DEFINE b == BaseAt(nd, at, p, f)
           lb == Len(b)
           lw == Len(w)
<1>1. b \in Seq(Nat) /\ i = lb + 1 /\ i <= lw /\ p \in us \cup {NoNode}
  BY DEF Fits
<1> HIDE DEF b
<1>2. lb \in Nat /\ lw \in Nat
  BY <1>1
<1> HIDE DEF lb
<1>3. i \in 1 .. lw
  BY <1>1, <1>2
<1> QED
  BY <1>1, <1>3

(***************************************************************************)
(* A chain hung up where it fits puts the word in.                         *)
(***************************************************************************)
LEMMA HangingKeeps ==
  ASSUME NEW at, NEW rank, NEW from, Now(at, rank, from),
         NEW w \in Seq(Nat), NEW i \in 1 .. Len(w), NEW ns, NEW ps, ChainFor(used, w, i, ns, ps),
         NEW p, NEW f \in {"next", "child"}, Fits(node, used, root, at, w, i, p, f),
         NEW d \in Data, NEW nd2, NEW rt2, HangIs(node, nd2, root, rt2, p, f, ns, ps, d)
  PROVE  Grown(node, used, at, nd2, used \cup Range(ns), rt2, Also(kv, w, d), ns[Len(ns)], w)
<1>1. Shape(node, used, root, at, rank, from) /\ Leads(node, used) /\ Holds(node, used, at, kv)
  BY DEF Now
<1>2. d # NoData
  BY TrieAssumption
<1>3. CASE f = "next"
  BY <1>1, <1>2, <1>3, HoldsHung
<1>4. CASE f = "child"
  BY <1>1, <1>2, <1>4, HoldsHung
<1> QED
  BY <1>3, <1>4

\* The decision e is to hang up a chain at the link f of p.
HangsAt(e, p, f) ==
  \/ e.act = "ROOT" /\ p = NoNode /\ f = "child" /\ root = NoNode
  \/ e.act = "PREV" /\ p = e.prev /\ p # NoNode /\ f = "next"
  \/ e.act = "PARENT" /\ p = e.parent /\ f = "child"
  \/ e.act = "CHILD" /\ p = e.x /\ p # NoNode /\ f = "child" /\ node[p].child = NoNode

(***************************************************************************)
(* ROOT, PREV, PARENT and CHILD put the word in: its rest is hung up as a  *)
(* chain where it fits.                                                    *)
(***************************************************************************)
LEMMA ChainKeeps ==
  ASSUME NEW at, NEW rank, NEW from, Now(at, rank, from),
         NEW w \in Seq(Nat), NEW d \in Data, NEW e, NEW p, NEW f,
         Fits(node, used, root, at, w, e.i, p, f), HangsAt(e, p, f),
         NEW ns, Fresh(ns, StrideLength(w, e), used)
  PROVE  PutsIn(at, w, d, e, ns)
<1> DEFINE ps == Pieces[Rest(w, e.i)]
           t == With(node, Chained(ps, ns, d))
           nd2 == Inserted(w, d, e, ns).node
           rt2 == Inserted(w, d, e, ns).root
<1>1. /\ Shape(node, used, root, at, rank, from) /\ Leads(node, used)
      /\ Holds(node, used, at, kv)
      /\ node \in Nodes /\ used \in SUBSET Index /\ root \in Link /\ d # NoData
  <2>1. /\ Shape(node, used, root, at, rank, from) /\ Leads(node, used)
        /\ Holds(node, used, at, kv)
    BY DEF Now
  <2>2. node \in Nodes /\ used \in SUBSET Index /\ root \in used \cup {NoNode}
    BY <2>1 DEF Shape, Nodes
  <2> QED
    BY <2>1, <2>2, TrieAssumption, NoNodeIsNone
<1>2. StrideLength(w, e) = Len(ps)
  BY DEF StrideLength, HangsAt
<1>3. e.i \in 1 .. Len(w) /\ p \in used \cup {NoNode}
  BY FitsWithin
<1>4. ChainFor(used, w, e.i, ns, ps)
  BY <1>2, <1>3, FreshChain
<1> HIDE DEF ps
<1>5. ChainPut(t, node, ns, ps, d)
  BY <1>1, <1>4, ChainIsPut
<1>6. ASSUME HangIs(node, nd2, root, rt2, p, f, ns, ps, d) PROVE PutsIn(at, w, d, e, ns)
  <2> DEFINE i == e.i
  <2>1. /\ i \in 1 .. Len(w) /\ ChainFor(used, w, i, ns, ps)
        /\ Fits(node, used, root, at, w, i, p, f)
    BY <1>3, <1>4
  <2> HIDE DEF nd2, rt2, i, t
  <2>2. Grown(node, used, at, nd2, used \cup Range(ns), rt2, Also(kv, w, d), ns[Len(ns)], w)
    <3>1. CASE f = "next"
      BY <1>6, <2>1, <3>1, HangingKeeps
    <3>2. CASE f = "child"
      BY <1>6, <2>1, <3>2, HangingKeeps
    <3> QED
      BY <3>1, <3>2 DEF HangsAt
  <2>3. EndOf(e, ns) = ns[Len(ns)]
    BY DEF EndOf, HangsAt
  <2> QED
    BY <2>2, <2>3 DEF PutsIn, nd2, rt2
<1>7. CASE e.act = "ROOT" /\ p = NoNode /\ f = "child" /\ root = NoNode
  <2>1. nd2 = t /\ rt2 = ns[1]
    BY <1>7 DEF Inserted, ps
  <2>2. HangIs(node, t, root, ns[1], NoNode, "child", ns, ps, d)
    <3> HIDE DEF t
    <3> QED
      BY <1>1, <1>4, <1>5, <1>7, ChainIsHung
  <2>3. HangIs(node, nd2, root, rt2, p, f, ns, ps, d)
    BY <1>7, <2>1, <2>2
  <2> QED
    BY <1>6, <2>3
<1>8. CASE e.act = "PREV" /\ p = e.prev /\ p # NoNode /\ f = "next"
  <2>1. nd2 = AfterPrev(t, p, ns[1]) /\ rt2 = root
    BY <1>8 DEF Inserted, ps
  <2>2. HangIs(node, AfterPrev(t, p, ns[1]), root, root, p, "next", ns, ps, d)
    <3> HIDE DEF t
    <3>1. p \in used
      BY <1>3, <1>8
    <3> QED
      BY <1>1, <1>4, <1>5, <3>1, ChainIsHung
  <2>3. HangIs(node, nd2, root, rt2, p, f, ns, ps, d)
    BY <1>8, <2>1, <2>2
  <2> QED
    BY <1>6, <2>3
<1>9. CASE e.act = "PARENT" /\ p = e.parent /\ f = "child" /\ p # NoNode
  <2>1. nd2 = UnderParent(t, p, ns[1]) /\ rt2 = root
    BY <1>9 DEF Inserted, ps
  <2>2. HangIs(node, UnderParent(t, p, ns[1]), root, root, p, "child", ns, ps, d)
    <3> HIDE DEF t
    <3>1. p \in used
      BY <1>3, <1>9
    <3> QED
      BY <1>1, <1>4, <1>5, <3>1, ChainIsHung
  <2>3. HangIs(node, nd2, root, rt2, p, f, ns, ps, d)
    BY <1>9, <2>1, <2>2
  <2> QED
    BY <1>6, <2>3
<1>10. CASE e.act = "PARENT" /\ p = e.parent /\ f = "child" /\ p = NoNode
  <2>1. nd2 = [t EXCEPT ![ns[1]].next = root] /\ rt2 = ns[1]
    BY <1>10 DEF Inserted, ps
  <2>2. HangIs(node, [t EXCEPT ![ns[1]].next = root], root, ns[1], NoNode, "child", ns, ps, d)
    <3> HIDE DEF t
    <3> QED
      BY <1>1, <1>4, <1>5, ChainIsHung
  <2>3. HangIs(node, nd2, root, rt2, p, f, ns, ps, d)
    BY <1>10, <2>1, <2>2
  <2> QED
    BY <1>6, <2>3
<1>11. CASE /\ e.act = "CHILD" /\ p = e.x /\ p # NoNode
             /\ f = "child" /\ node[p].child = NoNode
  <2>1. nd2 = [t EXCEPT ![p].child = ns[1]] /\ rt2 = root
    BY <1>11 DEF Inserted, ps
  <2>2. HangIs(node, [t EXCEPT ![p].child = ns[1]], root, root, p, "child", ns, ps, d)
    <3> HIDE DEF t
    <3>1. p \in used /\ node[p].child = NoNode
      BY <1>3, <1>11
    <3> QED
      BY <1>1, <1>4, <1>5, <3>1, ChainIsHung
  <2>3. HangIs(node, nd2, root, rt2, p, f, ns, ps, d)
    BY <1>11, <2>1, <2>2
  <2> QED
    BY <1>6, <2>3
<1> QED
  BY <1>7, <1>8, <1>9, <1>10, <1>11 DEF HangsAt

(***************************************************************************)
(* SET puts the word in.                                                   *)
(***************************************************************************)
LEMMA SetKeeps ==
  ASSUME NEW at, NEW rank, NEW from, Now(at, rank, from),
         NEW w \in Seq(Nat), NEW d \in Data, NEW e, e.act = "SET", e.x \in used,
         node[e.x].str = <<>>, Word(node, at, e.x) = w,
         NEW ns, Fresh(ns, StrideLength(w, e), used)
  PROVE  PutsIn(at, w, d, e, ns)
<1> DEFINE x == e.x
           nd2 == [node EXCEPT ![x].data = d]
<1>1. /\ Shape(node, used, root, at, rank, from) /\ Leads(node, used)
      /\ Holds(node, used, at, kv) /\ d # NoData
  BY TrieAssumption DEF Now
<1>2. node \in Nodes /\ x \in Index
  BY <1>1 DEF Shape, Nodes
<1>3. Range(ns) = {}
  <2>1. ns \in Seq(Index) /\ Len(ns) = 0
    BY DEF Fresh, StrideLength
  <2>2. DOMAIN ns = {}
    BY <2>1
  <2> QED
    BY <2>2 DEF Range
<1>4. Inserted(w, d, e, ns).node = nd2 /\ Inserted(w, d, e, ns).root = root
  BY DEF Inserted
<1> HIDE DEF x
<1>5. nd2[x] = [node[x] EXCEPT !.data = d] /\ node[x] \in Node /\ node[x].str = <<>>
      /\ \A z \in Index \ {x} : nd2[z] = node[z]
  BY <1>2 DEF Nodes, x
<1>6. SetIs(node, nd2, x, d)
  <2>1. nd2[x] \in {n \in Node : n.data = NoData \/ n.str = <<>>}
    BY <1>5 DEF Node
  <2>2. nd2 \in Nodes
    BY <1>2, <1>5, <2>1 DEF Nodes
  <2>3. /\ nd2[x].c = node[x].c /\ nd2[x].str = node[x].str
        /\ nd2[x].next = node[x].next /\ nd2[x].child = node[x].child /\ nd2[x].data = d
    BY <1>5 DEF Node
  <2> QED
    BY <1>5, <2>2, <2>3 DEF SetIs
<1> HIDE DEF nd2
<1>7. Grown(node, used, at, nd2, used, root, Also(kv, Word(node, at, x), d), x,
            Word(node, at, x))
  <2>1. x \in used
    BY DEF x
  <2> QED
    BY <1>1, <1>6, <2>1, HoldsSet
<1>8. Word(node, at, x) = w /\ used \cup Range(ns) = used
  BY <1>3 DEF x
<1>9. EndOf(e, ns) = x
  BY DEF EndOf, x
<1> QED
  BY <1>4, <1>7, <1>8, <1>9 DEF PutsIn

(***************************************************************************)
(* The splits put the word in.                                             *)
(***************************************************************************)
LEMMA SplitKeeps ==
  ASSUME NEW at, NEW rank, NEW from, Now(at, rank, from),
         NEW w \in Seq(Nat), NEW d \in Data, NEW e,
         e.act \in {"SPLIT_0_SET", "SPLIT_N_CHILD", "SPLIT_N_NEXT"},
         RightDecision(at, w, e),
         NEW ns, Fresh(ns, StrideLength(w, e), used)
  PROVE  PutsIn(at, w, d, e, ns)
<1> DEFINE x == e.x
           n == e.n
           k == StrideLength(w, e)
           ps == Pieces[Rest(w, e.i)]
<1>1. /\ Shape(node, used, root, at, rank, from) /\ Leads(node, used)
      /\ Holds(node, used, at, kv)
  BY DEF Now
<1>2. ns \in Seq(Index) /\ IsInjective(ns) /\ Len(ns) = k /\ Range(ns) \cap used = {}
  BY DEF Fresh
<1> HIDE DEF k
<1>3. \A j \in 1 .. k : ns[j] \in Index \ used
  BY <1>2 DEF Range
<1>4. CASE e.act = "SPLIT_0_SET"
  <2>1. AgreesUpTo(at, w, x, Len(w), 0) /\ Size(node, x) > 0
    BY <1>4 DEF RightDecision
  <2>2. k = 1
    BY <1>4 DEF k, StrideLength
  <2>3. ns[1] \in Index \ used
    BY <1>3, <2>2
  <2>4. Range(ns) = {ns[1]}
    BY <1>2, <2>2 DEF Range
  <2>5. Grown(node, used, at, SplitAt0(x, ns[1], d), used \cup {ns[1]}, root, Also(kv, w, d),
              x, w)
    BY <1>1, <2>1, <2>3, Split0Keeps
  <2>6. Inserted(w, d, e, ns).node = SplitAt0(x, ns[1], d) /\ Inserted(w, d, e, ns).root = root
    BY <1>4 DEF Inserted
  <2>7. EndOf(e, ns) = x
    BY <1>4 DEF EndOf
  <2> QED
    BY <2>4, <2>5, <2>6, <2>7 DEF PutsIn
<1>5. CASE e.act = "SPLIT_N_CHILD"
  <2>1. PICK i \in Nat : AgreesUpTo(at, w, x, i, n) /\ i + n = Len(w)
    BY <1>5 DEF RightDecision
  <2>2. n > 0
    BY <1>5 DEF RightDecision
  <2>3. Inserted(w, d, e, ns).node = SplitAtChild(x, n, ns, d)
        /\ Inserted(w, d, e, ns).root = root
    BY <1>5 DEF Inserted
  <2>4. k = IF n < Size(node, x) THEN 2 ELSE 1
    BY <1>5 DEF k, StrideLength, Size
  <2>5. x \in Index
    BY <1>1, <2>1 DEF AgreesUpTo, Shape
  <2>6. Size(node, x) \in Nat
    BY <1>1, <2>5, WordParts DEF WordIs
  <2>7. n \in 0 .. Size(node, x)
    BY <2>1 DEF AgreesUpTo
  <2>10. EndOf(e, ns) = ns[1]
    BY <1>5 DEF EndOf
  <2> HIDE DEF x, n
  <2>8. CASE n = Size(node, x)
    <3>1. k = 1
      BY <2>4, <2>6, <2>8
    <3>2. ns[1] \in Index \ used
      BY <1>3, <3>1
    <3>3. Range(ns) = {ns[1]}
      BY <1>2, <3>1 DEF Range
    <3>4. Grown(node, used, at, SplitAtChild(x, n, ns, d), used \cup {ns[1]}, root,
                Also(kv, w, d), ns[1], w)
      BY <1>1, <2>1, <2>2, <2>8, <3>2, SplitChildKeeps
    <3> QED
      BY <2>3, <2>10, <3>3, <3>4 DEF PutsIn
  <2>9. CASE n # Size(node, x)
    <3>1. k = 2
      BY <2>4, <2>6, <2>7, <2>9
    <3>2. ns[1] \in Index \ used /\ ns[2] \in Index \ used
      BY <1>3, <3>1
    <3>3. DOMAIN ns = {1, 2}
      BY <1>2, <3>1
    <3>4. Range(ns) = {ns[1], ns[2]} /\ ns[1] # ns[2]
      BY <1>2, <3>3 DEF Range, IsInjective
    <3> DEFINE new == {ns[1], ns[2]}
    <3>5. IF n = Size(node, x) THEN new = {ns[1]}
          ELSE new = {ns[1], ns[2]} /\ ns[2] \in Index \ used /\ ns[1] # ns[2]
      BY <2>9, <3>2, <3>4
    <3>6. new = Range(ns)
      BY <3>4
    <3> HIDE DEF new
    <3>7. Grown(node, used, at, SplitAtChild(x, n, ns, d), used \cup new, root,
                Also(kv, w, d), ns[1], w)
      BY <1>1, <2>1, <2>2, <3>2, <3>5, SplitChildKeeps
    <3> QED
      BY <2>3, <2>10, <3>6, <3>7 DEF PutsIn
  <2> QED
    BY <2>8, <2>9
<1>6. CASE e.act = "SPLIT_N_NEXT"
  <2> DEFINE h == e.i
  <2>1. PICK i \in Nat : /\ AgreesUpTo(at, w, x, i, n) /\ h = i + n + 1 /\ h <= Len(w)
                         /\ w[h] # node[x].str[n + 1]
    BY <1>6 DEF RightDecision
  <2>2. n < Size(node, x)
    BY <1>6 DEF RightDecision
  <2>3. Inserted(w, d, e, ns).node = SplitAtNext(x, n, ns, Chained(ps, Tail(ns), d))
        /\ Inserted(w, d, e, ns).root = root
    BY <1>6 DEF Inserted
  <2>4. k = Len(ps) + 1
    BY <1>6 DEF k, StrideLength
  <2>5. x \in Index
    BY <1>1, <2>1 DEF AgreesUpTo, Shape
  <2>6. Size(node, x) \in Nat
    BY <1>1, <2>5, WordParts DEF WordIs
  <2>7. n \in 0 .. Size(node, x)
    BY <2>1 DEF AgreesUpTo
  <2> HIDE DEF x, n
  <2>8. h \in 1 .. Len(w)
    <3> HIDE DEF h
    <3>1. n \in Nat
      BY <2>6, <2>7
    <3> QED
      BY <2>1, <3>1
  <2> HIDE DEF h
  <2>9. ps = Pieces[Rest(w, h)]
    BY DEF h
  <2>10. Len(ps) \in Nat /\ Len(ps) > 0
    <3>1. \E off : PiecesOf(ps, Rest(w, h), off)
      <4>1. h \in 1 .. Len(w) + 1
        BY <2>8
      <4>2. Rest(w, h) \in Seq(Nat) /\ Len(Rest(w, h)) = Len(w) - h + 1
        BY <4>1, RestParts
      <4>3. Rest(w, h) # <<>>
        <5> DEFINE l == Len(w)
                   r == Len(Rest(w, h))
        <5>1. l \in Nat /\ h \in 1 .. l /\ r = l - h + 1
          BY <2>8, <4>2
        <5> HIDE DEF l, r
        <5>2. r > 0
          BY <5>1
        <5> QED
          BY <5>2 DEF r
      <4> QED
        BY <2>9, <4>2, <4>3, PiecesMade
    <3> HIDE DEF ps
    <3> QED
      BY <3>1 DEF PiecesOf
  <2> HIDE DEF ps
  <2> DEFINE y == ns[1]
             tl == Tail(ns)
  <2>11. Len(ns) > 1
    BY <1>2, <2>4, <2>10
  <2>12. TailIs(ns, y, tl)
    BY <1>2, <2>11, TailOfChain
  <2>13. Fresh(tl, Len(ps), used \cup {y})
    <3> HIDE DEF y, tl
    <3>1. Len(tl) = Len(ns) - 1 /\ Len(ns) = Len(ps) + 1
      BY <1>2, <2>4, <2>12 DEF TailIs
    <3>2. Len(tl) = Len(ps)
      BY <2>10, <3>1
    <3>3. tl \in Seq(Index) /\ IsInjective(tl) /\ y \notin Range(tl)
          /\ Range(ns) = {y} \cup Range(tl)
      BY <2>12 DEF TailIs
    <3> QED
      BY <1>2, <3>2, <3>3 DEF Fresh
  <2> HIDE DEF y, tl
  <2>14. ChainFor(used \cup {y}, w, h, tl, ps)
    <3>1. Fresh(tl, Len(Pieces[Rest(w, h)]), used \cup {y})
      BY <2>9, <2>13
    <3>2. ChainFor(used \cup {y}, w, h, tl, Pieces[Rest(w, h)])
      BY <2>8, <3>1, FreshChain
    <3> QED
      BY <2>9, <3>2
  <2>15. Grown(node, used, at, SplitAtNext(x, n, ns, Chained(ps, tl, d)), used \cup Range(ns),
               root, Also(kv, w, d), tl[Len(tl)], w)
    <3>1. y = ns[1]
      BY DEF y
    <3> QED
      BY <1>1, <1>2, <2>1, <2>2, <2>12, <2>14, <3>1, SplitNextKeeps
  <2>16. EndOf(e, ns) = tl[Len(tl)]
    <3>1. EndOf(e, ns) = ns[Len(ns)]
      BY <1>6 DEF EndOf
    <3>2. ns[Len(ns)] = tl[Len(tl)]
      BY <1>2, <2>11 DEF tl
    <3> QED
      BY <3>1, <3>2
  <2> QED
    BY <2>3, <2>15, <2>16 DEF PutsIn, tl
<1> QED
  BY <1>4, <1>5, <1>6

(***************************************************************************)
(* The right decision puts the word in.                                    *)
(***************************************************************************)
LEMMA DecisionKeeps ==
  ASSUME NEW at, NEW rank, NEW from, Now(at, rank, from),
         NEW w \in Seq(Nat), NEW d \in Data, NEW e, RightDecision(at, w, e),
         NEW ns, Fresh(ns, StrideLength(w, e), used)
  PROVE  PutsIn(at, w, d, e, ns)
<1>1. ASSUME e.act = "PREV", e.prev # NoNode, Fits(node, used, root, at, w, e.i, e.prev, "next")
      PROVE  PutsIn(at, w, d, e, ns)
  <2>1. HangsAt(e, e.prev, "next")
    BY <1>1 DEF HangsAt
  <2> QED
    BY <1>1, <2>1, ChainKeeps
<1>2. ASSUME e.act = "PARENT", Fits(node, used, root, at, w, e.i, e.parent, "child")
      PROVE  PutsIn(at, w, d, e, ns)
  <2>1. HangsAt(e, e.parent, "child")
    BY <1>2 DEF HangsAt
  <2> QED
    BY <1>2, <2>1, ChainKeeps
<1>3. ASSUME e.act = "CHILD", e.x # NoNode, node[e.x].child = NoNode,
             Fits(node, used, root, at, w, e.i, e.x, "child")
      PROVE  PutsIn(at, w, d, e, ns)
  <2>1. HangsAt(e, e.x, "child")
    BY <1>3 DEF HangsAt
  <2> QED
    BY <1>3, <2>1, ChainKeeps
<1>4. ASSUME e.act = "SET", e.x \in used, node[e.x].str = <<>>, Word(node, at, e.x) = w
      PROVE  PutsIn(at, w, d, e, ns)
  BY <1>4, SetKeeps
<1>5. ASSUME e.act \in {"SPLIT_0_SET", "SPLIT_N_CHILD", "SPLIT_N_NEXT"}
      PROVE  PutsIn(at, w, d, e, ns)
  BY <1>5, SplitKeeps
<1>6. \/ e.act = "PREV" /\ e.prev # NoNode
           /\ Fits(node, used, root, at, w, e.i, e.prev, "next")
      \/ e.act = "PARENT" /\ Fits(node, used, root, at, w, e.i, e.parent, "child")
      \/ /\ e.act = "CHILD" /\ e.x # NoNode /\ node[e.x].child = NoNode
         /\ Fits(node, used, root, at, w, e.i, e.x, "child")
      \/ /\ e.act = "SET" /\ e.x \in used /\ node[e.x].str = <<>>
         /\ Word(node, at, e.x) = w
      \/ e.act \in {"SPLIT_0_SET", "SPLIT_N_CHILD", "SPLIT_N_NEXT"}
  BY DEF RightDecision
<1> QED
  BY <1>1, <1>2, <1>3, <1>4, <1>5, <1>6

(***************************************************************************)
(* What is decided puts the word in.                                       *)
(***************************************************************************)
LEMMA InsertKeeps ==
  ASSUME NEW at, NEW rank, NEW from, Now(at, rank, from),
         NEW w \in Seq(Nat), w # <<>>, NEW d \in Data,
         NEW ns, Fresh(ns, StrideLength(w, Decide(w)), used)
  PROVE  PutsIn(at, w, d, Decide(w), ns)
<1> DEFINE e == Decide(w)
<1>1. \/ /\ e = Decided("ROOT", NoNode, NoNode, NoNode, 1, 0) /\ root = NoNode
         /\ Fits(node, used, root, at, w, 1, NoNode, "child")
      \/ RightDecision(at, w, e)
  BY DecideRight DEF Now
<1> HIDE DEF e
<1>2. Fresh(ns, StrideLength(w, e), used)
  BY DEF e
<1>3. ASSUME e = Decided("ROOT", NoNode, NoNode, NoNode, 1, 0), root = NoNode,
             Fits(node, used, root, at, w, 1, NoNode, "child")
      PROVE  PutsIn(at, w, d, e, ns)
  <2>1. e.act = "ROOT" /\ e.i = 1
    BY <1>3 DEF Decided
  <2>2. HangsAt(e, NoNode, "child")
    BY <1>3, <2>1 DEF HangsAt
  <2> QED
    BY <1>2, <1>3, <2>1, <2>2, ChainKeeps
<1>4. PutsIn(at, w, d, e, ns)
  BY <1>1, <1>2, <1>3, DecisionKeeps
<1> QED
  BY <1>4 DEF e

-----------------------------------------------------------------------------
(* The walk of trie_delete.                                                *)

\* The places after a place on the way along the word.
TrailBeside(p) == [p EXCEPT !.x = Get(node[p.x].next), !.prev = p.x]
TrailBelow(p)  == [p EXCEPT !.x = Get(node[p.x].child), !.i = @ + 1 + Len(Piece(p.x)),
                            !.prev = NoNode, !.above = Entered(p)]

\* The definition of PathFrom, for any function that may be it.
PathBody(p, f) ==
  IF p.x = NoNode THEN <<>>
  ELSE IF p.w[p.i] # node[p.x].c THEN f[TrailBeside(p)]
  ELSE IF p.i = Len(p.w) THEN IF HasData(p.x) THEN Entered(p) ELSE <<>>
  ELSE IF Down(p) THEN f[TrailBelow(p)]
  ELSE <<>>

(***************************************************************************)
(* The trails after a trail are trails, further down.                      *)
(***************************************************************************)
LEMMA TrailsAfter ==
  ASSUME NEW at, NEW rank, NEW from, Shape(node, used, root, at, rank, from),
         NEW p \in Trail, p.x # NoNode
  PROVE  /\ Entered(p) \in Seq(Step)
         /\ TrailBeside(p) \in Trail
         /\ TrailBeside(p).w = p.w /\ TrailBeside(p).x = node[p.x].next
         /\ TrailBeside(p).i = p.i /\ TrailBeside(p).prev = p.x
         /\ TrailBeside(p).above = p.above
         /\ Height(TrailBeside(p).x, used, rank) < Height(p.x, used, rank)
         /\ TrailBelow(p) \in Trail
         /\ TrailBelow(p).w = p.w /\ TrailBelow(p).x = node[p.x].child
         /\ TrailBelow(p).i = p.i + 1 + Size(node, p.x) /\ TrailBelow(p).prev = NoNode
         /\ TrailBelow(p).above = Entered(p)
         /\ Height(TrailBelow(p).x, used, rank) < Height(p.x, used, rank)
<1> DEFINE y == node[p.x].next
           z == node[p.x].child
           i == p.i + 1 + Len(Piece(p.x))
           en == Entered(p)
<1>1. p.x \in Index /\ p.i \in Pos /\ p.x \in Link /\ p.prev \in Link /\ p.above \in Seq(Step)
  BY NoNodeIsNone DEF Trail
<1>2. /\ Get(node[p.x].next) = y /\ Get(node[p.x].child) = z /\ y \in Link /\ z \in Link
      /\ Height(y, used, rank) < Height(p.x, used, rank)
      /\ Height(z, used, rank) < Height(p.x, used, rank)
  BY <1>1, GetLinks
<1>3. i \in Pos /\ i = p.i + 1 + Size(node, p.x)
  BY <1>1, PlaceAfter, PieceIsStr
<1>4. en \in Seq(Step)
  <2>1. [x |-> p.x, prev |-> p.prev] \in Step
    BY <1>1 DEF Step
  <2> QED
    BY <1>1, <2>1, AppendProperties DEF Entered
<1> HIDE DEF y, z, i, en
<1>5. NoNode \in Link
  BY DEF Link
<1> DEFINE q1 == [p EXCEPT !.x = y, !.prev = p.x]
           q2 == [p EXCEPT !.x = z, !.i = i, !.prev = NoNode, !.above = en]
<1>6. q1 \in Trail /\ q1.w = p.w /\ q1.x = y /\ q1.i = p.i /\ q1.prev = p.x
      /\ q1.above = p.above
  BY <1>1, <1>2 DEF Trail
<1>7. q2 \in Trail /\ q2.w = p.w /\ q2.x = z /\ q2.i = i /\ q2.prev = NoNode
      /\ q2.above = en
  BY <1>1, <1>2, <1>3, <1>4, <1>5 DEF Trail
<1>8. TrailBeside(p) = q1 /\ TrailBelow(p) = q2
  BY <1>2 DEF TrailBeside, TrailBelow, i, en
<1> HIDE DEF q1, q2
<1> QED
  BY <1>2, <1>3, <1>4, <1>6, <1>7, <1>8 DEF y, z, en

(***************************************************************************)
(* PathFrom is what its definition says.                                   *)
(***************************************************************************)
LEMMA PathUnfolds ==
  ASSUME NEW at, NEW rank, NEW from, Shape(node, used, root, at, rank, from)
  PROVE  PathFrom = [p \in Trail |-> PathBody(p, PathFrom)]
<1> DEFINE m == [p \in Trail |-> Height(p.x, used, rank)]
           F == [q \in Trail \X [Trail -> Seq(Step)] |-> PathBody(q[1], q[2])]
<1>1. m \in [Trail -> Nat]
  <2>1. ASSUME NEW p \in Trail PROVE Height(p.x, used, rank) \in Nat
    BY HeightNat DEF Trail
  <2> QED
    BY <2>1
<1>2. <<>> \in Seq(Step)
  OBVIOUS
<1>3. F \in [Trail \X [Trail -> Seq(Step)] -> Seq(Step)]
  <2> SUFFICES ASSUME NEW p \in Trail, NEW f \in [Trail -> Seq(Step)]
               PROVE  PathBody(p, f) \in Seq(Step)
    OBVIOUS
  <2>1. CASE p.x = NoNode
    BY <1>2, <2>1 DEF PathBody
  <2>2. CASE p.x # NoNode
    <3>1. TrailBeside(p) \in Trail /\ TrailBelow(p) \in Trail /\ Entered(p) \in Seq(Step)
      BY <2>2, TrailsAfter
    <3> QED
      BY <1>2, <3>1 DEF PathBody
  <2> QED
    BY <2>1, <2>2
<1>4. LooksBelow(Trail, Seq(Step), m, F)
  <2> SUFFICES ASSUME NEW p \in Trail, NEW g \in [Trail -> Seq(Step)],
                      NEW h \in [Trail -> Seq(Step)],
                      \A q \in Trail : m[q] < m[p] => g[q] = h[q]
               PROVE  PathBody(p, g) = PathBody(p, h)
    BY DEF LooksBelow
  <2>1. ASSUME p.x # NoNode
        PROVE  g[TrailBeside(p)] = h[TrailBeside(p)] /\ g[TrailBelow(p)] = h[TrailBelow(p)]
    <3>1. /\ TrailBeside(p) \in Trail /\ TrailBelow(p) \in Trail
          /\ Height(TrailBeside(p).x, used, rank) < Height(p.x, used, rank)
          /\ Height(TrailBelow(p).x, used, rank) < Height(p.x, used, rank)
      BY <2>1, TrailsAfter
    <3> QED
      BY <3>1
  <2> QED
    BY <2>1 DEF PathBody
<1>5. Solvable(Trail, Seq(Step), F)
  <2>1. Seq(Step) # {}
    BY <1>2
  <2> HIDE DEF m, F
  <2> QED
    BY <1>1, <1>3, <1>4, <2>1, RecursionSolved, Zenon
<1>6. PICK f : f = [p \in Trail |-> PathBody(p, f)]
  BY <1>5 DEF Solvable
<1>7. PathFrom = CHOOSE g : g = [p \in Trail |-> PathBody(p, g)]
  BY DEF PathFrom, PathBody, TrailBeside, TrailBelow
<1> HIDE DEF m, F
<1> QED
  BY <1>6, <1>7

\* The j-th entry of path is linked from the one before, or from its sibling.
Linkup(path, j) ==
  /\ path[j].x \in used
  /\ path[j].prev # NoNode => path[j].prev \in used /\ node[path[j].prev].next = path[j].x
  /\ path[j].prev = NoNode => IF j = 1 THEN path[1].x = root
                              ELSE node[path[j - 1].x].child = path[j].x

\* The entries of path lead down.
PathIs(path, rank) ==
  /\ path \in Seq(Step)
  /\ \A j \in 1 .. Len(path) : Linkup(path, j)
  /\ \A j, k \in 1 .. Len(path) : j < k => rank[path[k].x] < rank[path[j].x]

(***************************************************************************)
(* A path with one entry more.                                             *)
(***************************************************************************)
LEMMA PathGrows ==
  ASSUME NEW rank, NEW path \in Seq(Step), PathIs(path, rank), NEW s \in Step, s.x \in used,
         s.prev # NoNode => s.prev \in used /\ node[s.prev].next = s.x,
         s.prev = NoNode => IF Len(path) = 0 THEN s.x = root
                            ELSE node[path[Len(path)].x].child = s.x,
         \A j \in 1 .. Len(path) : rank[s.x] < rank[path[j].x]
  PROVE  PathIs(Append(path, s), rank)
<1> DEFINE q == Append(path, s)
           n == Len(path)
<1>1. /\ q \in Seq(Step) /\ Len(q) = n + 1 /\ q[n + 1] = s /\ n \in Nat
      /\ \A j \in 1 .. n : q[j] = path[j]
  BY AppendProperties
<1> HIDE DEF q
<1>2. ASSUME NEW j \in 1 .. n + 1, j # n + 1 PROVE j \in 1 .. n
  BY <1>1, <1>2
<1>3. ASSUME NEW j \in 1 .. n + 1 PROVE Linkup(q, j)
  <2>1. CASE j = n + 1
    <3>1. q[j] = s
      BY <1>1, <2>1
    <3>2. s.prev = NoNode => IF j = 1 THEN q[1].x = root ELSE node[q[j - 1].x].child = q[j].x
      <4>1. CASE n = 0
        BY <1>1, <2>1, <3>1, <4>1
      <4>2. CASE n # 0
        <5>1. j # 1 /\ j - 1 = n /\ n \in 1 .. n
          BY <1>1, <2>1, <4>2
        <5>2. q[j - 1] = path[n]
          BY <1>1, <5>1
        <5> QED
          BY <3>1, <4>2, <5>1, <5>2
      <4> QED
        BY <4>1, <4>2
    <3> QED
      BY <3>1, <3>2 DEF Linkup
  <2>2. CASE j # n + 1
    <3>1. j \in 1 .. n /\ q[j] = path[j] /\ Linkup(path, j)
      BY <1>1, <1>2, <2>2 DEF PathIs
    <3>2. j # 1 => j - 1 \in 1 .. n
      BY <1>1, <3>1
    <3>3. j # 1 => q[j - 1] = path[j - 1]
      BY <1>1, <3>2
    <3> QED
      BY <1>1, <3>1, <3>3 DEF Linkup
  <2> QED
    BY <2>1, <2>2
<1>4. ASSUME NEW j \in 1 .. n + 1, NEW k \in 1 .. n + 1, j < k
      PROVE  rank[q[k].x] < rank[q[j].x]
  <2>1. j \in 1 .. n
    BY <1>1, <1>4
  <2>2. CASE k = n + 1
    BY <1>1, <2>1, <2>2
  <2>3. CASE k # n + 1
    BY <1>1, <1>2, <1>4, <2>1, <2>3 DEF PathIs
  <2> QED
    BY <2>2, <2>3
<1> QED
  BY <1>1, <1>3, <1>4 DEF PathIs, q

\* The walk of trie_delete along w has come to p.
TrailIs(at, rank, w, p) ==
  /\ p \in Trail /\ p.w = w /\ p.x \in used /\ Reached(at, w, p.x, p.i)
  /\ PathIs(p.above, rank)
  /\ \A j \in 1 .. Len(p.above) : rank[p.x] < rank[p.above[j].x]
  /\ p.prev # NoNode => p.prev \in used /\ node[p.prev].next = p.x
  /\ p.prev = NoNode => IF Len(p.above) = 0 THEN p.x = root
                        ELSE node[p.above[Len(p.above)].x].child = p.x

\* path leads to the node with data that ends w.
PathEnds(at, rank, w, path) ==
  /\ path # <<>> /\ PathIs(path, rank)
  /\ node[path[Len(path)].x].data # NoData
  /\ Word(node, at, path[Len(path)].x) = w

(***************************************************************************)
(* The entries up to a place on the way are a path.                        *)
(***************************************************************************)
LEMMA EnteredIs ==
  ASSUME NEW at, NEW rank, NEW from, Shape(node, used, root, at, rank, from),
         NEW w, NEW p, TrailIs(at, rank, w, p)
  PROVE  /\ PathIs(Entered(p), rank) /\ Entered(p) # <<>>
         /\ Entered(p)[Len(Entered(p))].x = p.x
         /\ Len(Entered(p)) = Len(p.above) + 1 /\ Len(p.above) \in Nat
         /\ \A j \in 1 .. Len(p.above) : Entered(p)[j] = p.above[j]
<1> DEFINE s == [x |-> p.x, prev |-> p.prev]
           a == p.above
<1>1. a \in Seq(Step) /\ p.prev \in Link /\ p.x \in Link /\ p.x \in used
  BY DEF TrailIs, Trail
<1>2. s \in Step /\ s.x = p.x /\ s.prev = p.prev
  <2>1. p.x \in Index
    BY <1>1 DEF Shape
  <2> QED
    BY <1>1, <2>1 DEF Step
<1> HIDE DEF s, a
<1>3. PathIs(Append(a, s), rank)
  BY <1>1, <1>2, PathGrows DEF TrailIs, a
<1>4. /\ Append(a, s) # <<>> /\ Len(Append(a, s)) = Len(a) + 1 /\ Append(a, s)[Len(a) + 1] = s
      /\ \A j \in 1 .. Len(a) : Append(a, s)[j] = a[j]
  BY <1>1, <1>2, AppendProperties
<1>5. Entered(p) = Append(a, s) /\ Len(a) \in Nat
  BY <1>1 DEF Entered, s, a
<1> QED
  BY <1>2, <1>3, <1>4, <1>5 DEF a

(***************************************************************************)
(* One step of the walk of trie_delete.                                    *)
(***************************************************************************)
LEMMA PathStep ==
  ASSUME NEW at, NEW rank, NEW from, Shape(node, used, root, at, rank, from),
         NEW w \in Seq(Nat), NEW p, TrailIs(at, rank, w, p)
  PROVE  \/ PathFrom[p] = <<>>
         \/ PathEnds(at, rank, w, PathFrom[p])
         \/ \E q : /\ TrailIs(at, rank, w, q) /\ rank[q.x] < rank[p.x]
                   /\ PathFrom[p] = PathFrom[q]
<1> DEFINE x == p.x
           i == p.i
           en == Entered(p)
<1>1. /\ x \in used /\ x \in Index /\ x # NoNode /\ i \in 1 .. Len(w) /\ Len(w) \in Nat
      /\ i \in Nat /\ Reached(at, w, x, i) /\ p.w = w /\ p \in Trail /\ rank[x] \in Nat
  BY ReachedTypes DEF TrailIs
<1>2. PathFrom[p] = PathBody(p, PathFrom)
  BY <1>1, PathUnfolds
<1>3. /\ PathIs(en, rank) /\ en # <<>> /\ en[Len(en)].x = x
      /\ Len(en) = Len(p.above) + 1 /\ Len(p.above) \in Nat
      /\ \A j \in 1 .. Len(p.above) : en[j] = p.above[j]
  BY EnteredIs
<1>4. \A j \in 1 .. Len(p.above) : rank[x] < rank[p.above[j].x]
  BY DEF TrailIs
<1>5. \A j \in 1 .. Len(p.above) : p.above[j].x \in Index /\ rank[p.above[j].x] \in Nat
  <2> DEFINE a == p.above
  <2>1. a \in Seq(Step)
    BY <1>1 DEF Trail
  <2> HIDE DEF a
  <2>2. \A j \in 1 .. Len(a) : a[j] \in Step
    BY <2>1, ElementOfSeq
  <2>3. \A j \in 1 .. Len(a) : a[j].x \in Index
    BY <2>2 DEF Step
  <2>4. \A j \in 1 .. Len(a) : rank[a[j].x] \in Nat
    BY <2>3 DEF Shape
  <2> QED
    BY <2>3, <2>4 DEF a
<1>6. Size(node, x) \in Nat
  BY <1>1, PieceIsStr
<1>7. CASE w[i] # node[x].c
  <2> DEFINE q == TrailBeside(p)
             y == node[x].next
  <2>1. q \in Trail /\ q.w = w /\ q.x = y /\ q.i = i /\ q.prev = x /\ q.above = p.above
    BY <1>1, TrailsAfter
  <2>2. PathFrom[p] = PathFrom[q]
    BY <1>1, <1>2, <1>7 DEF PathBody
  <2> HIDE DEF q
  <2>3. CASE y = NoNode
    <3>1. PathFrom[q] = PathBody(q, PathFrom)
      BY <2>1, PathUnfolds
    <3>2. PathFrom[q] = <<>>
      BY <2>1, <2>3, <3>1 DEF PathBody
    <3> QED
      BY <2>2, <3>2
  <2>4. CASE y # NoNode
    <3>1. y \in used /\ rank[y] < rank[x] /\ Reached(at, w, y, i)
      BY <1>1, <2>4, WalkNext
    <3>2. rank[y] \in Nat
      BY <3>1 DEF Shape
    <3> HIDE DEF x, y, i
    <3>3. \A j \in 1 .. Len(p.above) : rank[y] < rank[p.above[j].x]
      BY <1>1, <1>4, <1>5, <3>1, <3>2
    <3>4. node[x].next = y /\ PathIs(p.above, rank)
      BY DEF TrailIs, x, y
    <3>5. TrailIs(at, rank, w, q)
      BY <1>1, <2>1, <3>1, <3>3, <3>4 DEF TrailIs
    <3> QED
      BY <2>1, <2>2, <3>1, <3>5 DEF x
  <2> QED
    BY <2>3, <2>4
<1>8. CASE w[i] = node[x].c /\ i = Len(w)
  <2>1. CASE HasData(x)
    <3>1. PathFrom[p] = en
      BY <1>1, <1>2, <1>8, <2>1 DEF PathBody
    <3>2. Word(node, at, x) = w
      <4>1. Size(node, x) = 0
        BY <1>1, <2>1, PieceIsStr
      <4>2. WordIs(node, at, x)
        BY <1>1, WordParts
      <4>3. AgreesUpTo(at, w, x, i, Size(node, x))
        BY <1>1, <1>8, <4>1 DEF AgreesUpTo
      <4>4. WordUpTo(at, w, x, i + Size(node, x) + 1)
        BY <4>3, WholePiece
      <4> DEFINE u == Word(node, at, x)
      <4>5. u \in Seq(Nat)
        BY <4>2 DEF WordIs
      <4>6. i + Size(node, x) + 1 = Len(u) + 1 /\ \A j \in 1 .. Len(u) : w[j] = u[j]
        BY <4>4 DEF WordUpTo
      <4> HIDE DEF u
      <4>7. Len(u) = Len(w)
        BY <1>1, <1>8, <4>1, <4>5, <4>6
      <4>8. u = w
        BY <4>5, <4>6, <4>7, SeqEqual
      <4> QED
        BY <4>8 DEF u
    <3>3. PathEnds(at, rank, w, en)
      <4> HIDE DEF en
      <4> QED
        BY <1>3, <2>1, <3>2 DEF PathEnds, HasData
    <3> QED
      BY <3>1, <3>3
  <2>2. CASE ~HasData(x)
    BY <1>1, <1>2, <1>8, <2>2 DEF PathBody
  <2> QED
    BY <2>1, <2>2
<1>9. CASE w[i] = node[x].c /\ i # Len(w) /\ ~Down(p)
  BY <1>1, <1>2, <1>9 DEF PathBody
<1>10. CASE w[i] = node[x].c /\ i # Len(w) /\ Down(p)
  <2> DEFINE q == TrailBelow(p)
             y == node[x].child
             i2 == i + 1 + Size(node, x)
  <2>1. q \in Trail /\ q.w = w /\ q.x = y /\ q.i = i2 /\ q.prev = NoNode /\ q.above = en
    BY <1>1, TrailsAfter
  <2>2. PathFrom[p] = PathFrom[q]
    BY <1>1, <1>2, <1>10 DEF PathBody
  <2>3. GoesOn(w, x, i)
    BY <1>1, <1>10, DownGoesOn
  <2> HIDE DEF q
  <2>4. CASE y = NoNode
    <3>1. PathFrom[q] = PathBody(q, PathFrom)
      BY <2>1, PathUnfolds
    <3>2. PathFrom[q] = <<>>
      BY <2>1, <2>4, <3>1 DEF PathBody
    <3> QED
      BY <2>2, <3>2
  <2>5. CASE y # NoNode
    <3>1. y \in used /\ rank[y] < rank[x] /\ Reached(at, w, y, i2)
      BY <1>1, <1>10, <2>3, <2>5, WalkDown DEF GoesOn
    <3>2. rank[y] \in Nat
      BY <3>1 DEF Shape
    <3>3. node[x].child = y
      OBVIOUS
    <3> HIDE DEF x, y, i, i2, en
    <3>4. ASSUME NEW j \in 1 .. Len(en) PROVE rank[y] < rank[en[j].x]
      <4>1. CASE j = Len(en)
        BY <1>3, <3>1, <4>1
      <4>2. CASE j # Len(en)
        <5>1. j \in 1 .. Len(p.above)
          BY <1>3, <4>2
        <5>2. en[j] = p.above[j] /\ rank[x] < rank[p.above[j].x]
          BY <1>3, <1>4, <5>1
        <5> DEFINE ry == rank[y]
                   rx == rank[x]
                   rj == rank[p.above[j].x]
        <5>3. ry \in Nat /\ rx \in Nat /\ rj \in Nat /\ ry < rx /\ rx < rj
              /\ rank[en[j].x] = rj
          BY <1>1, <1>5, <3>1, <3>2, <5>1, <5>2 DEF x
        <5> HIDE DEF ry, rx, rj
        <5>4. ry < rj
          BY <5>3
        <5> QED
          BY <5>3, <5>4 DEF ry
      <4> QED
        BY <4>1, <4>2
    <3>5. Len(en) # 0
      BY <1>3
    <3>6. TrailIs(at, rank, w, q)
      BY <1>3, <2>1, <3>1, <3>3, <3>4, <3>5 DEF TrailIs
    <3> QED
      BY <2>1, <2>2, <3>1, <3>6 DEF x
  <2> QED
    BY <2>4, <2>5
<1> QED
  BY <1>7, <1>8, <1>9, <1>10

(***************************************************************************)
(* The path of a word leads to the node that ends it, if there is one.     *)
(***************************************************************************)
LEMMA PathFromRight ==
  ASSUME NEW at, NEW rank, NEW from, Shape(node, used, root, at, rank, from),
         NEW w \in Seq(Nat), NEW p, TrailIs(at, rank, w, p)
  PROVE  PathFrom[p] = <<>> \/ PathEnds(at, rank, w, PathFrom[p])
<1> DEFINE Right(q) == PathFrom[q] = <<>> \/ PathEnds(at, rank, w, PathFrom[q])
           T == {n \in Nat : \A q \in Trail : TrailIs(at, rank, w, q) /\ rank[q.x] = n
                               => Right(q)}
<1>1. ASSUME NEW q, TrailIs(at, rank, w, q) PROVE rank[q.x] \in Nat /\ q \in Trail
  BY <1>1 DEF TrailIs, Shape
<1>2. ASSUME NEW n \in Nat, \A k \in Nat : k < n => k \in T
      PROVE  n \in T
  <2> SUFFICES ASSUME NEW q \in Trail, TrailIs(at, rank, w, q), rank[q.x] = n, ~Right(q)
               PROVE  FALSE
    OBVIOUS
  <2>1. PICK r : /\ TrailIs(at, rank, w, r) /\ rank[r.x] < rank[q.x]
                 /\ PathFrom[q] = PathFrom[r]
    BY PathStep
  <2>2. rank[r.x] \in Nat /\ r \in Trail
    BY <1>1, <2>1
  <2> QED
    BY <1>2, <2>1, <2>2
<1>3. T = Nat
  <2> HIDE DEF T
  <2>1. T \in SUBSET Nat
    BY DEF T
  <2> QED
    BY <1>2, <2>1, NatInductBelow
<1>4. rank[p.x] \in Nat /\ p \in Trail
  BY <1>1
<1> QED
  BY <1>3, <1>4

(***************************************************************************)
(* The same, from the root.                                                *)
(***************************************************************************)
LEMMA PathRight ==
  ASSUME NEW at, NEW rank, NEW from, Shape(node, used, root, at, rank, from),
         NEW w \in Seq(Nat), w # <<>>, Path(w) # <<>>
  PROVE  PathEnds(at, rank, w, Path(w))
<1> DEFINE p == [w |-> w, x |-> Get(root), i |-> 1, prev |-> NoNode, above |-> <<>>]
<1>1. root \in used \cup {NoNode} /\ used \subseteq Index
  BY DEF Shape
<1>2. Get(root) = root
  BY <1>1 DEF Get
<1>3. <<>> \in Seq(Step) /\ Len(<<>>) = 0 /\ 1 .. 0 = {}
  OBVIOUS
<1>4. p \in Trail /\ p.w = w /\ p.x = root /\ p.i = 1 /\ p.prev = NoNode /\ p.above = <<>>
  <2>1. NoNode \in Link /\ 1 \in Pos /\ root \in Link
    BY <1>1 DEF Link, Pos
  <2> QED
    BY <1>2, <1>3, <2>1 DEF Trail
<1>5. Path(w) = PathFrom[p]
  BY DEF Path
<1> HIDE DEF p
<1>6. root # NoNode
  <2> SUFFICES ASSUME root = NoNode PROVE FALSE
    OBVIOUS
  <2>1. PathFrom[p] = PathBody(p, PathFrom)
    BY <1>4, PathUnfolds
  <2> QED
    BY <1>4, <1>5, <2>1 DEF PathBody
<1>7. Reached(at, w, root, 1)
  <2>1. at[root] = <<>>
    BY <1>6 DEF Shape
  <2>2. Depth(at, root) = 0
    BY <1>3, <2>1 DEF Depth
  <2>3. Len(w) \in Nat /\ Len(w) > 0
    BY EmptySeq
  <2> QED
    BY <2>2, <2>3 DEF Reached
<1>8. PathIs(<<>>, rank)
  BY <1>3 DEF PathIs
<1>9. TrailIs(at, rank, w, p)
  <2>1. root \in used
    BY <1>1, <1>6
  <2> QED
    BY <1>3, <1>4, <1>7, <1>8, <2>1 DEF TrailIs
<1> QED
  BY <1>5, <1>9, PathFromRight

-----------------------------------------------------------------------------
(* A twig is taken out.                                                    *)

\* gone are nodes in use, x and nodes that each are the only child of another.
Twig(nd, us, from, gone, x) ==
  /\ x \in gone /\ gone \subseteq us
  /\ \A z \in gone : nd[z].child \in gone \cup {NoNode}
  /\ \A z \in gone \ {x} : nd[z].next = NoNode /\ from[z] \in gone /\ nd[from[z]].child = z

\* nd2 is nd without the nodes gone, where x is at the link f of p; the root is now rt2.
RemovedIs(nd, nd2, rt, rt2, p, f, x, gone) ==
  /\ nd2 \in Nodes
  /\ \A z \in Index \ (gone \cup {p}) : nd2[z] = nd[z]
  /\ \A z \in gone : nd2[z] = Cleared
  /\ IF p = NoNode THEN rt2 = nd[x].next
     ELSE /\ rt2 = rt
          /\ nd2[p].c = nd[p].c /\ nd2[p].str = nd[p].str /\ nd2[p].data = nd[p].data
          /\ nd2[p].next = IF f = "next" THEN nd[x].next ELSE nd[p].next
          /\ nd2[p].child = IF f = "next" THEN nd[p].child ELSE nd[x].next

\* What this says of a node that is left.
Left(nd, nd2, us, at, from, gone, p, f, x, z) ==
  /\ nd2[z].c = nd[z].c /\ nd2[z].data = nd[z].data
  /\ Word(nd2, at, z) = Word(nd, at, z)
  /\ nd2[z].next = IF z = p /\ f = "next" THEN nd[x].next ELSE nd[z].next
  /\ nd2[z].child = IF z = p /\ f # "next" THEN nd[x].next ELSE nd[z].child
  /\ nd[z].next # NoNode =>
       nd[z].next \in us /\ nd[z].next # nd[x].next
       /\ (nd[z].next \in gone <=> z = p /\ f = "next")
  /\ nd[z].child # NoNode =>
       nd[z].child \in us /\ nd[z].child # nd[x].next
       /\ (nd[z].child \in gone <=> z = p /\ f # "next")

(***************************************************************************)
(* The nodes that are left stay as they were, but for the link to those    *)
(* removed.                                                                *)
(***************************************************************************)
LEMMA RemovedLeaves ==
  ASSUME NEW nd, NEW us, NEW rt, NEW at, NEW rank, NEW from,
         Shape(nd, us, rt, at, rank, from),
         NEW gone, NEW x, Twig(nd, us, from, gone, x),
         NEW p \in (us \cup {NoNode}) \ gone, NEW f \in {"next", "child"},
         LinkAt(nd, rt, p, f) = x,
         NEW nd2, NEW rt2, RemovedIs(nd, nd2, rt, rt2, p, f, x, gone)
  PROVE  /\ x \in us /\ x \in Index /\ at[x] = BaseAt(nd, at, p, f) /\ from[x] = p
         /\ p = NoNode <=> x = rt
         /\ p # NoNode => rank[x] < rank[p]
         /\ nd[x].next # NoNode =>
              /\ nd[x].next \in us \ gone /\ NextOf(nd, at, rank, from, x, nd[x].next)
         /\ \A z \in us \ gone : Left(nd, nd2, us, at, from, gone, p, f, x, z)
<1>1. x \in us /\ x \in gone /\ gone \subseteq us /\ us \subseteq Index /\ x \in Index
  BY DEF Twig, Shape
<1>2. x # NoNode
  BY <1>1, NoNodeIsNone
<1>3. /\ at[x] = BaseAt(nd, at, p, f) /\ from[x] = p /\ (p = NoNode <=> x = rt)
      /\ p # NoNode => rank[x] < rank[p]
  <2>1. p \in us \cup {NoNode}
    OBVIOUS
  <2>2. CASE f = "next"
    BY <1>2, <2>1, <2>2, LinkIs
  <2>3. CASE f = "child"
    BY <1>2, <2>1, <2>3, LinkIs
  <2> QED
    BY <2>2, <2>3
<1> DEFINE o == nd[x].next
<1>4. ASSUME NEW z \in us, nd[z].next # NoNode
      PROVE  nd[z].next \in us /\ NextOf(nd, at, rank, from, z, nd[z].next)
             /\ from[nd[z].next] = z
  BY <1>4 DEF Shape, NextOf
<1>5. ASSUME NEW z \in us, nd[z].child # NoNode
      PROVE  nd[z].child \in us /\ from[nd[z].child] = z
  BY <1>5 DEF Shape, ChildOf
<1>6. ASSUME o # NoNode PROVE o \in us \ gone /\ from[o] = x
  <2>1. o \in us /\ from[o] = x
    BY <1>1, <1>4, <1>6
  <2>2. rank[o] < rank[x] /\ rank[x] \in Nat
    BY <1>1, <1>4, <1>6 DEF NextOf, Shape
  <2>3. o # x
    BY <2>2
  <2>4. nd[x].next # nd[x].child
    BY <1>1, <1>6, NextIsNoChild
  <2>5. o \notin gone
    BY <2>1, <2>3, <2>4 DEF Twig
  <2> QED
    BY <2>1, <2>5
<1>7. ASSUME NEW z \in us \ gone PROVE Left(nd, nd2, us, at, from, gone, p, f, x, z)
  <2>1. z \in Index /\ z # NoNode /\ z # x
    BY <1>1, NoNodeIsNone
  <2>2. z # p => nd2[z] = nd[z]
    BY <2>1 DEF RemovedIs
  <2>3. /\ nd2[z].c = nd[z].c /\ nd2[z].data = nd[z].data /\ nd2[z].str = nd[z].str
        /\ nd2[z].next = IF z = p /\ f = "next" THEN o ELSE nd[z].next
        /\ nd2[z].child = IF z = p /\ f # "next" THEN o ELSE nd[z].child
    <3>1. CASE z = p
      BY <2>1, <3>1 DEF RemovedIs
    <3>2. CASE z # p
      BY <2>2, <3>2
    <3> QED
      BY <3>1, <3>2
  <2>4. Word(nd2, at, z) = Word(nd, at, z)
    BY <2>3 DEF Word
  \* A link of z to what is removed goes to x, and z is p.
  <2>5. ASSUME NEW y \in us, from[y] = z
        PROVE  y # o /\ (y \in gone => y = x /\ z = p)
    <3>1. y # o
      <4>1. o # NoNode => from[o] = x
        BY <1>6
      <4>2. y # NoNode
        BY <1>1, NoNodeIsNone
      <4> QED
        BY <2>1, <2>5, <4>1, <4>2
    <3>2. y \in gone => y = x
      BY <2>5 DEF Twig
    <3> QED
      BY <1>3, <2>5, <3>1, <3>2
  <2>6. z = p /\ f = "next" => nd[z].next = x
    BY <2>1 DEF LinkAt
  <2>7. z = p /\ f # "next" => nd[z].child = x
    BY <2>1 DEF LinkAt
  <2>8. ASSUME nd[z].next # NoNode
        PROVE  nd[z].next \in us /\ nd[z].next # o
               /\ (nd[z].next \in gone <=> z = p /\ f = "next")
    <3>1. nd[z].next \in us /\ from[nd[z].next] = z
      BY <1>4, <2>8
    <3>2. nd[z].next # o /\ (nd[z].next \in gone => nd[z].next = x /\ z = p)
      BY <2>5, <3>1
    <3>3. nd[z].next # nd[z].child
      BY <2>8, NextIsNoChild
    <3> QED
      BY <1>1, <2>6, <2>7, <3>1, <3>2, <3>3
  <2>9. ASSUME nd[z].child # NoNode
        PROVE  nd[z].child \in us /\ nd[z].child # o
               /\ (nd[z].child \in gone <=> z = p /\ f # "next")
    <3>1. nd[z].child \in us /\ from[nd[z].child] = z
      BY <1>5, <2>9
    <3>2. nd[z].child # o /\ (nd[z].child \in gone => nd[z].child = x /\ z = p)
      BY <2>5, <3>1
    <3>3. nd[z].next # NoNode => nd[z].next # nd[z].child
      BY NextIsNoChild
    <3>4. z = p /\ f = "next" => nd[z].child # x
      BY <1>2, <2>6, <3>3
    <3> QED
      BY <1>1, <2>7, <3>1, <3>2, <3>4
  <2> QED
    BY <2>3, <2>4, <2>8, <2>9 DEF Left
<1> QED
  BY <1>1, <1>3, <1>4, <1>6, <1>7

(***************************************************************************)
(* Without a twig a tree is a tree.                                        *)
(***************************************************************************)
LEMMA ShapeRemoved ==
  ASSUME NEW nd, NEW us, NEW rt, NEW at, NEW rank, NEW from,
         Shape(nd, us, rt, at, rank, from),
         NEW gone, NEW x, Twig(nd, us, from, gone, x),
         NEW p \in (us \cup {NoNode}) \ gone, NEW f \in {"next", "child"},
         LinkAt(nd, rt, p, f) = x,
         NEW nd2, NEW rt2, RemovedIs(nd, nd2, rt, rt2, p, f, x, gone)
  PROVE  \E from2 : Shape(nd2, us \ gone, rt2, at, rank, from2)
<1> DEFINE o == nd[x].next
           us2 == us \ gone
           from2 == [z \in Index |-> IF z = o THEN p ELSE from[z]]
<1>1. /\ x \in us /\ x \in Index /\ at[x] = BaseAt(nd, at, p, f) /\ from[x] = p
      /\ p = NoNode <=> x = rt
      /\ p # NoNode => rank[x] < rank[p]
      /\ o # NoNode => o \in us2 /\ NextOf(nd, at, rank, from, x, o)
      /\ \A z \in us2 : Left(nd, nd2, us, at, from, gone, p, f, x, z)
  <2>1. CASE f = "next"
    BY <2>1, RemovedLeaves
  <2>2. CASE f = "child"
    BY <2>2, RemovedLeaves
  <2> QED
    BY <2>1, <2>2
<1>2. /\ us2 \subseteq Index /\ nd2 \in Nodes /\ x \in gone /\ gone \subseteq us /\ us \subseteq Index
      /\ at \in [Index -> Seq(Nat)] /\ rank \in [Index -> Nat] /\ from \in [Index -> Link]
      /\ rt \in us \cup {NoNode}
  BY DEF Shape, RemovedIs, Twig
<1>3. \A z \in Index \ us2 : nd2[z] = Cleared
  <2>1. ASSUME NEW z \in Index \ us PROVE nd2[z] = Cleared
    <3>1. z # p /\ z \notin gone
      BY <1>2, NoNodeIsNone
    <3>2. nd2[z] = nd[z] /\ nd[z] = Cleared
      BY <3>1 DEF RemovedIs, Shape
    <3> QED
      BY <3>2
  <2> QED
    BY <2>1 DEF RemovedIs
<1>4. p \in Link /\ from2 \in [Index -> Link]
  <2>1. p \in Link
    BY <1>2, NoNodeIsNone
  <2> QED
    BY <1>2, <2>1
<1>5. \A z \in us2 : from2[z] = IF z = o THEN p ELSE from[z]
  BY <1>2
<1>6. NoNode \notin us /\ (p # NoNode => p \in us2)
  BY <1>2, NoNodeIsNone
<1> HIDE DEF us2, from2
<1>7. rt2 \in us2 \cup {NoNode} /\ (rt2 # NoNode => at[rt2] = <<>>)
  <2>1. CASE p = NoNode
    <3>1. rt2 = o /\ x = rt
      BY <1>1, <2>1 DEF RemovedIs
    <3>2. at[rt] = <<>>
      BY <1>1, <1>6, <3>1 DEF Shape
    <3> QED
      BY <1>1, <3>1, <3>2 DEF NextOf
  <2>2. CASE p # NoNode
    <3>1. rt2 = rt /\ rt # x
      BY <1>1, <2>2 DEF RemovedIs
    <3>2. rt # NoNode => at[rt] = <<>> /\ from[rt] = NoNode /\ rt \in us
      BY <1>2 DEF Shape
    <3>3. rt # NoNode => rt \notin gone
      <4>1. rt \in gone \ {x} => from[rt] \in gone
        BY DEF Twig
      <4> QED
        BY <1>2, <1>6, <3>1, <3>2, <4>1
    <3> QED
      BY <3>1, <3>2, <3>3 DEF us2
  <2> QED
    BY <2>1, <2>2
<1>8. ASSUME NEW z \in us2, nd2[z].next # NoNode
      PROVE  nd2[z].next \in us2 /\ NextOf(nd2, at, rank, from2, z, nd2[z].next)
  <2>1. Left(nd, nd2, us, at, from, gone, p, f, x, z) /\ z \in us
    BY <1>1 DEF us2
  <2>2. CASE z = p /\ f = "next"
    <3>1. nd2[z].next = o /\ o # NoNode /\ o \in us2 /\ NextOf(nd, at, rank, from, x, o)
      BY <1>1, <1>8, <2>1, <2>2 DEF Left
    <3>2. p # NoNode /\ nd[p].next = x /\ at[x] = at[p]
      BY <1>1, <1>6, <2>1, <2>2 DEF LinkAt, BaseAt
    <3>3. NextOf(nd, at, rank, from, p, x)
      BY <1>1, <1>6, <2>1, <2>2, <3>2 DEF Shape
    <3>4. Left(nd, nd2, us, at, from, gone, p, f, x, o)
      BY <1>1, <3>1
    <3>5. nd2[p].c = nd[p].c /\ nd2[o].c = nd[o].c
      BY <2>1, <2>2, <3>4 DEF Left
    <3>6. rank[o] < rank[p] /\ nd[p].c < nd[o].c
      <4> DEFINE ro == rank[o]
                 rx == rank[x]
                 rp == rank[p]
                 co == nd[o].c
                 cx == nd[x].c
                 cp == nd[p].c
      <4>1. ro \in Nat /\ rx \in Nat /\ rp \in Nat
        BY <1>1, <1>2, <2>1, <2>2, <3>1 DEF us2
      <4>2. co \in Nat /\ cx \in Nat /\ cp \in Nat
        <5>1. nd \in Nodes /\ o \in Index /\ x \in Index /\ p \in Index
          BY <1>1, <1>2, <2>1, <2>2, <3>1 DEF us2, Shape, Nodes
        <5> QED
          BY <5>1 DEF Nodes, Node
      <4>3. ro < rx /\ rx < rp /\ cx < co /\ cp < cx
        BY <3>1, <3>3 DEF NextOf
      <4> HIDE DEF ro, rx, rp, co, cx, cp
      <4>4. ro < rp /\ cp < co
        BY <4>1, <4>2, <4>3
      <4> QED
        BY <4>4 DEF ro, rp, co, cp
    <3>7. from2[o] = p /\ at[o] = at[p]
      BY <1>5, <3>1, <3>2 DEF NextOf
    <3> HIDE DEF o
    <3> QED
      BY <2>2, <3>1, <3>5, <3>6, <3>7 DEF NextOf
  <2>3. CASE ~(z = p /\ f = "next")
    <3> DEFINE y == nd[z].next
    <3>1. nd2[z].next = y /\ y # NoNode
      BY <1>8, <2>1, <2>3 DEF Left
    <3>2. y \in us2 /\ y # o
      BY <2>1, <2>3, <3>1 DEF Left, us2
    <3>3. NextOf(nd, at, rank, from, z, y)
      BY <2>1, <3>1 DEF Shape
    <3>4. Left(nd, nd2, us, at, from, gone, p, f, x, y)
      BY <1>1, <3>2
    <3>5. nd2[z].c = nd[z].c /\ nd2[y].c = nd[y].c
      BY <2>1, <3>4 DEF Left
    <3>6. from2[y] = from[y]
      BY <1>5, <3>2
    <3> HIDE DEF y
    <3>7. NextOf(nd2, at, rank, from2, z, y)
      BY <3>3, <3>5, <3>6 DEF NextOf
    <3> QED
      BY <3>1, <3>2, <3>7
  <2> QED
    BY <2>2, <2>3
<1>9. ASSUME NEW z \in us2, nd2[z].child # NoNode
      PROVE  nd2[z].child \in us2 /\ ChildOf(nd2, at, rank, from2, z, nd2[z].child)
  <2>1. Left(nd, nd2, us, at, from, gone, p, f, x, z) /\ z \in us
    BY <1>1 DEF us2
  <2>2. CASE z = p /\ f # "next"
    <3>1. nd2[z].child = o /\ o # NoNode /\ o \in us2 /\ NextOf(nd, at, rank, from, x, o)
      BY <1>1, <1>9, <2>1, <2>2 DEF Left
    <3>2. p # NoNode /\ at[x] = Word(nd, at, p)
      BY <1>1, <1>6, <2>1, <2>2 DEF BaseAt
    <3>3. rank[o] < rank[p]
      <4> DEFINE ro == rank[o]
                 rx == rank[x]
                 rp == rank[p]
      <4>1. ro \in Nat /\ rx \in Nat /\ rp \in Nat
        BY <1>1, <1>2, <2>1, <2>2, <3>1 DEF us2
      <4>2. ro < rx /\ rx < rp
        BY <1>1, <3>1, <3>2 DEF NextOf
      <4> HIDE DEF ro, rx, rp
      <4>3. ro < rp
        BY <4>1, <4>2
      <4> QED
        BY <4>3 DEF ro, rp
    <3>4. from2[o] = p /\ at[o] = Word(nd2, at, p)
      BY <1>5, <2>1, <2>2, <3>1, <3>2 DEF NextOf, Left
    <3> HIDE DEF o
    <3> QED
      BY <2>2, <3>1, <3>3, <3>4 DEF ChildOf
  <2>3. CASE ~(z = p /\ f # "next")
    <3> DEFINE y == nd[z].child
    <3>1. nd2[z].child = y /\ y # NoNode
      BY <1>9, <2>1, <2>3 DEF Left
    <3>2. y \in us2 /\ y # o
      BY <2>1, <2>3, <3>1 DEF Left, us2
    <3>3. ChildOf(nd, at, rank, from, z, y)
      BY <2>1, <3>1 DEF Shape
    <3>4. Word(nd2, at, z) = Word(nd, at, z)
      BY <2>1 DEF Left
    <3>5. from2[y] = from[y]
      BY <1>5, <3>2
    <3> HIDE DEF y
    <3>6. ChildOf(nd2, at, rank, from2, z, y)
      BY <3>3, <3>4, <3>5 DEF ChildOf
    <3> QED
      BY <3>1, <3>2, <3>6
  <2> QED
    BY <2>2, <2>3
<1>10. ASSUME NEW y \in us2
       PROVE  IF y = rt2 THEN from2[y] = NoNode
              ELSE from2[y] \in us2 /\ y \in {nd2[from2[y]].next, nd2[from2[y]].child}
  <2>1. y \in us /\ y \notin gone /\ y # x
    BY <1>2 DEF us2
  <2>2. CASE y = o
    <3>1. from2[y] = p /\ from[o] = x /\ o # NoNode /\ o # rt
      <4>1. o # NoNode
        BY <1>6, <2>1, <2>2
      <4>2. from[o] = x
        BY <1>1, <4>1 DEF NextOf
      <4>3. o = rt => from[o] = NoNode
        BY <2>1, <2>2 DEF Shape
      <4> QED
        BY <1>1, <1>5, <1>6, <2>2, <4>1, <4>2, <4>3
    <3>2. CASE p = NoNode
      <4>1. rt2 = o
        BY <3>2 DEF RemovedIs
      <4> QED
        BY <2>2, <3>1, <3>2, <4>1
    <3>3. CASE p # NoNode
      <4>1. rt2 = rt /\ p \in us2
        BY <1>6, <3>3 DEF RemovedIs
      <4>2. Left(nd, nd2, us, at, from, gone, p, f, x, p)
        BY <1>1, <4>1
      <4>3. o \in {nd2[p].next, nd2[p].child}
        BY <4>2 DEF Left
      <4> QED
        BY <2>2, <3>1, <4>1, <4>3
    <3> QED
      BY <3>2, <3>3
  <2>3. CASE y # o
    <3>1. from2[y] = from[y]
      BY <1>5, <2>3
    <3>2. CASE y = rt
      <4>1. p # NoNode
        BY <1>1, <2>1, <3>2
      <4>2. rt2 = rt /\ from[y] = NoNode
        BY <2>1, <3>2, <4>1 DEF RemovedIs, Shape
      <4> QED
        BY <3>1, <3>2, <4>2
    <3>3. CASE y # rt
      <4> DEFINE z == from[y]
      <4>1. z \in us /\ y \in {nd[z].next, nd[z].child}
        BY <2>1, <3>3 DEF Shape
      <4>2. z \notin gone
        <5> SUFFICES ASSUME z \in gone PROVE FALSE
          OBVIOUS
        <5>1. y # nd[z].child
          BY <1>6, <2>1 DEF Twig
        <5>2. y = nd[z].next
          BY <4>1, <5>1
        <5>3. z = x
          BY <1>6, <2>1, <5>2 DEF Twig
        <5> QED
          BY <2>3, <5>2, <5>3
      <4>3. z \in us2
        BY <4>1, <4>2 DEF us2
      <4> HIDE DEF z
      <4>4. Left(nd, nd2, us, at, from, gone, p, f, x, z)
        BY <1>1, <4>3
      <4>5. y # NoNode
        BY <1>6, <2>1
      <4>6. y \in {nd2[z].next, nd2[z].child}
        <5>1. CASE y = nd[z].next
          BY <2>1, <4>4, <4>5, <5>1 DEF Left
        <5>2. CASE y = nd[z].child
          BY <2>1, <4>4, <4>5, <5>2 DEF Left
        <5> QED
          BY <4>1, <5>1, <5>2
      <4>7. y # rt2
        <5>1. CASE p = NoNode
          BY <2>3, <5>1 DEF RemovedIs
        <5>2. CASE p # NoNode
          BY <3>3, <5>2 DEF RemovedIs
        <5> QED
          BY <5>1, <5>2
      <4> QED
        BY <3>1, <4>3, <4>6, <4>7 DEF z
    <3> QED
      BY <3>2, <3>3
  <2> QED
    BY <2>2, <2>3
<1>11. Shape(nd2, us2, rt2, at, rank, from2)
  <2> HIDE DEF o
  <2>1. us2 \subseteq Index
    BY <1>2 DEF us2
  <2>2. nd2 \in [Index -> {n \in Node : n.data = NoData \/ n.str = <<>>}]
    BY <1>2 DEF Nodes
  <2> QED
    BY <1>2, <1>3, <1>4, <1>7, <1>8, <1>9, <1>10, <2>1, <2>2 DEF Shape
<1> QED
  BY <1>11 DEF us2

(***************************************************************************)
(* A twig that only leads to one word is removed with that word.           *)
(***************************************************************************)
LEMMA HoldsRemoved ==
  ASSUME NEW nd, NEW us, NEW rt, NEW at, NEW rank, NEW from,
         Shape(nd, us, rt, at, rank, from), Leads(nd, us), NEW m, Holds(nd, us, at, m),
         NEW gone, NEW x, Twig(nd, us, from, gone, x),
         NEW p \in (us \cup {NoNode}) \ gone, NEW f \in {"next", "child"},
         LinkAt(nd, rt, p, f) = x,
         p # NoNode /\ f = "child" /\ nd[x].next = NoNode => nd[p].data # NoData,
         NEW y \in gone, nd[y].data # NoData, \A z \in gone \ {y} : nd[z].data = NoData,
         NEW nd2, NEW rt2, RemovedIs(nd, nd2, rt, rt2, p, f, x, gone)
  PROVE  Tree(nd2, us \ gone, rt2, Without(m, Word(nd, at, y)))
<1> DEFINE o == nd[x].next
           us2 == us \ gone
<1>1. \A z \in us2 : Left(nd, nd2, us, at, from, gone, p, f, x, z)
  <2>1. CASE f = "next"
    BY <2>1, RemovedLeaves
  <2>2. CASE f = "child"
    BY <2>2, RemovedLeaves
  <2> QED
    BY <2>1, <2>2
<1>2. PICK from2 : Shape(nd2, us2, rt2, at, rank, from2)
  <2>1. CASE f = "next"
    BY <2>1, ShapeRemoved
  <2>2. CASE f = "child"
    BY <2>2, ShapeRemoved
  <2> QED
    BY <2>1, <2>2
<1>3. y \in us /\ gone \subseteq us
  BY DEF Twig
<1>4. Holds(nd2, us2, at, Without(m, Word(nd, at, y)))
  <2>1. \A z \in us2 : nd2[z].data # NoData <=> z \in us \ {y} /\ nd[z].data # NoData
    BY <1>1 DEF Left
  <2>2. \A z \in us \ {y} : nd[z].data # NoData =>
          z \in us2 /\ nd2[z].data = nd[z].data /\ Word(nd2, at, z) = Word(nd, at, z)
    BY <1>1 DEF Left
  <2> HIDE DEF us2
  <2> QED
    BY <1>3, <2>1, <2>2, HoldsWithout
<1>5. Leads(nd2, us2)
  <2> SUFFICES ASSUME NEW z \in us2 PROVE nd2[z].data # NoData \/ nd2[z].child # NoNode
    BY DEF Leads
  <2>1. Left(nd, nd2, us, at, from, gone, p, f, x, z) /\ z \in us
    BY <1>1
  <2>2. nd[z].data # NoData \/ nd[z].child # NoNode
    BY <2>1 DEF Leads
  <2>3. CASE ~(z = p /\ f # "next")
    BY <2>1, <2>2, <2>3 DEF Left
  <2>4. CASE z = p /\ f # "next"
    <3>1. p # NoNode /\ f = "child"
      BY <2>1, <2>4, NoNodeIsNone DEF Shape
    <3>2. nd2[z].child = o /\ nd2[z].data = nd[z].data
      BY <2>1, <2>4 DEF Left
    <3> QED
      BY <2>4, <3>1, <3>2
  <2> QED
    BY <2>3, <2>4
<1> HIDE DEF us2
<1>6. Tree(nd2, us2, rt2, Without(m, Word(nd, at, y)))
  BY <1>2, <1>4, <1>5 DEF Tree
<1> QED
  BY <1>6 DEF us2

-----------------------------------------------------------------------------
(* What trie_delete takes out.                                             *)

\* At j, path has another sibling, or data that stays.
Branches(path, j) == node[path[j].x].next # NoNode \/ path[j].prev # NoNode
Stays(path, j)    == j < Len(path) /\ HasData(path[j].x)

\* The nodes of path from j on, and no more, only lead to its end.
PruneIs(path, j) ==
  /\ j \in 1 .. Len(path)
  /\ \A q \in 1 .. Len(path) : q > j => ~Branches(path, q)
  /\ \A q \in 1 .. Len(path) : q >= j => ~Stays(path, q)
  /\ j > 1 => Branches(path, j) \/ Stays(path, j - 1)

(***************************************************************************)
(* PruneFrom tells where these nodes begin.                                *)
(***************************************************************************)
LEMMA PruneFromIs ==
  ASSUME NEW path \in Seq(Step), path # <<>>
  PROVE  PruneIs(path, PruneFrom(path))
<1> DEFINE n == Len(path)
           B(j) == node[path[j].x].next # NoNode \/ path[j].prev # NoNode
           S(j) == j < n /\ HasData(path[j].x)
           T == {j \in DOMAIN path : B(j) \/ S(j)}
           last == Max(T)
<1>1. n \in Nat /\ n > 0 /\ DOMAIN path = 1 .. n
  BY EmptySeq
<1>2. PruneFrom(path) = IF T = {} THEN 1 ELSE IF S(last) THEN last + 1 ELSE last
  BY DEF PruneFrom
<1>3. \A j : (Branches(path, j) <=> B(j)) /\ (Stays(path, j) <=> S(j))
  BY DEF Branches, Stays
<1>4. S(n) = FALSE
  BY <1>1
<1>5. \A j \in 1 .. n : S(j) => j < n
  OBVIOUS
<1>6. ASSUME T # {} PROVE last \in T /\ \A q \in T : q <= last
  <2>1. T \in SUBSET Nat /\ \A q \in T : q <= n
    BY <1>1
  <2> HIDE DEF T
  <2>2. \E m \in T : \A q \in T : q <= m
    BY <1>1, <1>6, <2>1, GreatestNat
  <2>3. \E m \in T : \A q \in T : m >= q
    BY <2>1, <2>2
  <2>4. last \in T /\ \A q \in T : last >= q
    BY <2>3 DEF Max
  <2> QED
    BY <2>1, <2>4
<1>7. \A j \in 1 .. n : j \in T <=> B(j) \/ S(j)
  BY <1>1
<1>8. T \subseteq 1 .. n
  BY <1>1
<1> HIDE DEF n, T, B, S, last
<1>9. CASE T = {}
  <2>1. PruneFrom(path) = 1
    BY <1>2, <1>9
  <2>2. \A q \in 1 .. n : ~B(q) /\ ~S(q)
    BY <1>7, <1>9
  <2> QED
    BY <1>1, <1>3, <2>1, <2>2 DEF PruneIs, n
<1>10. CASE T # {} /\ S(last)
  <2>1. last \in T /\ last \in 1 .. n /\ PruneFrom(path) = last + 1
    BY <1>2, <1>6, <1>8, <1>10
  <2>2. last < n
    BY <1>5, <1>10, <2>1
  <2>3. last + 1 \in 1 .. n /\ last + 1 - 1 = last
    BY <1>1, <2>1, <2>2
  <2>4. ASSUME NEW q \in 1 .. n, q >= last + 1 PROVE ~B(q) /\ ~S(q)
    <3>1. ~(q <= last)
      BY <1>1, <2>1, <2>4
    <3> QED
      BY <1>6, <1>7, <1>10, <3>1
  <2>5. \A q \in 1 .. n : q > last + 1 => q >= last + 1
    BY <2>1
  <2> QED
    BY <1>3, <1>10, <2>1, <2>3, <2>4, <2>5 DEF PruneIs, n
<1>11. CASE T # {} /\ ~S(last)
  <2>1. last \in T /\ last \in 1 .. n /\ PruneFrom(path) = last
    BY <1>2, <1>6, <1>8, <1>11
  <2>2. B(last)
    BY <1>7, <1>11, <2>1
  <2>3. ASSUME NEW q \in 1 .. n, q > last PROVE ~B(q) /\ ~S(q)
    <3>1. ~(q <= last)
      BY <1>1, <2>1, <2>3
    <3> QED
      BY <1>6, <1>7, <1>11, <3>1
  <2>4. ASSUME NEW q \in 1 .. n, q >= last PROVE ~S(q)
    <3>1. q = last \/ q > last
      BY <2>1, <2>4
    <3> QED
      BY <1>11, <2>3, <3>1
  <2> QED
    BY <1>3, <2>1, <2>2, <2>3, <2>4 DEF PruneIs, n
<1> QED
  BY <1>9, <1>10, <1>11

\* The nodes of path from j on.
FromOn(path, j) == {path[q].x : q \in j .. Len(path)}

(***************************************************************************)
(* The entries of a path are nodes in use, each once.                      *)
(***************************************************************************)
LEMMA PathNodes ==
  ASSUME NEW at, NEW rank, NEW from, Shape(node, used, root, at, rank, from),
         NEW path, PathIs(path, rank), NEW j \in 1 .. Len(path)
  PROVE  /\ Len(path) \in Nat /\ path[j].x \in used /\ path[j].x \in Index
         /\ path[j].x # NoNode /\ rank[path[j].x] \in Nat
         /\ \A q \in 1 .. Len(path) : path[q].x = path[j].x => q = j
         /\ \A q \in 1 .. Len(path) : j <= q => rank[path[q].x] <= rank[path[j].x]
<1>1. Len(path) \in Nat
  BY DEF PathIs
<1>2. ASSUME NEW q \in 1 .. Len(path)
      PROVE  path[q].x \in used /\ path[q].x \in Index /\ path[q].x # NoNode
             /\ rank[path[q].x] \in Nat
  <2>1. path[q].x \in used
    BY DEF PathIs, Linkup
  <2>2. path[q].x \in Index
    BY <2>1 DEF Shape
  <2> QED
    BY <2>1, <2>2, NoNodeIsNone DEF Shape
<1> DEFINE n == Len(path)
           r == [q \in 1 .. n |-> rank[path[q].x]]
<1>3. r \in [1 .. n -> Nat] /\ \A q \in 1 .. n : r[q] = rank[path[q].x]
  BY <1>2
<1>4. \A q, k \in 1 .. n : q < k => r[k] < r[q]
  BY <1>3 DEF PathIs
<1> HIDE DEF r
<1>5. ASSUME NEW q \in 1 .. n, path[q].x = path[j].x PROVE q = j
  <2>1. r[q] = r[j]
    BY <1>3, <1>5
  <2> HIDE DEF n
  <2>2. ~(q < j) /\ ~(j < q)
    <3>1. r[q] \in Nat /\ r[j] \in Nat /\ j \in 1 .. n
      BY <1>3 DEF n
    <3> QED
      BY <1>4, <2>1, <3>1
  <2> QED
    BY <1>1, <2>2 DEF n
<1>6. ASSUME NEW q \in 1 .. n, j <= q PROVE rank[path[q].x] <= rank[path[j].x]
  <2>1. r[q] \in Nat /\ r[j] \in Nat /\ j \in 1 .. n
    BY <1>3
  <2>2. j = q \/ j < q
    BY <1>1, <1>6
  <2>3. r[q] <= r[j]
    <3>1. CASE j = q
      BY <2>1, <3>1
    <3>2. CASE j < q
      <4>1. r[q] < r[j]
        BY <1>4, <3>2
      <4> QED
        BY <2>1, <4>1
    <3> QED
      BY <2>2, <3>1, <3>2
  <2> QED
    BY <1>3, <2>3
<1> QED
  BY <1>1, <1>2, <1>5, <1>6

(***************************************************************************)
(* These nodes are a twig.                                                 *)
(***************************************************************************)
LEMMA TwigOnPath ==
  ASSUME NEW at, NEW rank, NEW from, Shape(node, used, root, at, rank, from),
         NEW path, PathIs(path, rank), NEW j, PruneIs(path, j),
         node[path[Len(path)].x].child = NoNode
  PROVE  Twig(node, used, from, FromOn(path, j), path[j].x)
<1> DEFINE n == Len(path)
           x(q) == path[q].x
<1>1. n \in Nat /\ j \in 1 .. n /\ j .. n \subseteq 1 .. n /\ \A q \in 1 .. n : x(q) \in used
  <2>1. j \in 1 .. n
    BY DEF PruneIs
  <2>2. n \in Nat
    BY DEF PathIs
  <2>3. j .. n \subseteq 1 .. n
    BY <2>1, <2>2
  <2>4. \A q \in 1 .. n : x(q) \in used
    BY DEF PathIs, Linkup
  <2> QED
    BY <2>1, <2>2, <2>3, <2>4
<1>2. ASSUME NEW q \in 1 .. n, q > j
      PROVE  node[x(q)].next = NoNode /\ node[x(q - 1)].child = x(q) /\ q - 1 \in j .. n
  <2>1. ~Branches(path, q) /\ Linkup(path, q)
    BY <1>2 DEF PruneIs, PathIs
  <2>2. q # 1 /\ q - 1 \in j .. n
    BY <1>1, <1>2
  <2> QED
    BY <2>1, <2>2 DEF Branches, Linkup
<1>3. FromOn(path, j) = {x(q) : q \in j .. n}
  BY DEF FromOn
<1>4. ASSUME NEW q \in j .. n PROVE node[x(q)].child \in FromOn(path, j) \cup {NoNode}
  <2>1. CASE q = n
    BY <2>1
  <2>2. CASE q # n
    <3>1. q + 1 \in 1 .. n /\ q + 1 > j /\ q + 1 - 1 = q /\ q + 1 \in j .. n
      BY <1>1, <2>2
    <3>2. node[x(q)].child = x(q + 1)
      BY <1>2, <3>1
    <3> QED
      BY <1>3, <3>1, <3>2
  <2> QED
    BY <2>1, <2>2
<1>5. ASSUME NEW q \in j .. n, q # j
      PROVE  /\ node[x(q)].next = NoNode
             /\ from[x(q)] = x(q - 1) /\ q - 1 \in j .. n /\ node[x(q - 1)].child = x(q)
  <2>1. q \in 1 .. n /\ q > j
    BY <1>1, <1>5
  <2>2. node[x(q)].next = NoNode /\ node[x(q - 1)].child = x(q) /\ q - 1 \in j .. n
    BY <1>2, <2>1
  <2>3. x(q - 1) \in used /\ x(q) \in used
    BY <1>1, <2>1, <2>2
  <2>4. x(q) # NoNode
    BY <2>3, NoNodeIsNone DEF Shape
  <2> HIDE DEF x
  <2>5. ChildOf(node, at, rank, from, x(q - 1), x(q))
    BY <2>2, <2>3, <2>4 DEF Shape
  <2> QED
    BY <2>2, <2>5 DEF ChildOf
<1>6. x(j) \in FromOn(path, j) /\ FromOn(path, j) \subseteq used
  BY <1>1, <1>3
<1>7. \A z \in FromOn(path, j) : node[z].child \in FromOn(path, j) \cup {NoNode}
  BY <1>3, <1>4
<1>8. ASSUME NEW z \in FromOn(path, j) \ {x(j)}
      PROVE  node[z].next = NoNode /\ from[z] \in FromOn(path, j) /\ node[from[z]].child = z
  <2>1. PICK q \in j .. n : z = x(q)
    BY <1>3
  <2>2. q # j
    BY <2>1
  <2> QED
    BY <1>3, <1>5, <2>1, <2>2
<1> QED
  BY <1>6, <1>7, <1>8 DEF Twig

\* The nodes without those of path from j on, where the first of them is at the link f of p.
Unhooked(path, j, p, f) ==
  /\ p \in (used \cup {NoNode}) \ FromOn(path, j)
  /\ LinkAt(node, root, p, f) = path[j].x
  /\ p # NoNode /\ f = "child" /\ node[path[j].x].next = NoNode => node[p].data # NoData
  /\ RemovedIs(node, Wiped(Unlinked(path, j).node, FromOn(path, j)), root,
               Unlinked(path, j).root, p, f, path[j].x, FromOn(path, j))

\* The nodes t are those of the trie, but for the links of p.
Relinked(t, p, next, child) ==
  /\ t \in Nodes /\ \A z \in Index \ {p} : t[z] = node[z]
  /\ t[p].c = node[p].c /\ t[p].str = node[p].str /\ t[p].data = node[p].data
  /\ t[p].next = next /\ t[p].child = child

(***************************************************************************)
(* Nodes with one link changed are nodes.                                  *)
(***************************************************************************)
LEMMA NextChanged ==
  ASSUME node \in Nodes, NEW p \in Index, NEW o \in Link,
         NEW t, t = [node EXCEPT ![p].next = o]
  PROVE  Relinked(t, p, o, node[p].child)
<1> DEFINE N == {n \in Node : n.data = NoData \/ n.str = <<>>}
           a == [node[p] EXCEPT !.next = o]
<1>1. node \in [Index -> N] /\ node[p] \in Node /\ node[p] \in N
  BY DEF Nodes
<1>2. /\ a \in N /\ a.c = node[p].c /\ a.str = node[p].str /\ a.data = node[p].data
      /\ a.next = o /\ a.child = node[p].child
  BY <1>1 DEF Node
<1>3. t = [node EXCEPT ![p] = a]
  OBVIOUS
<1> HIDE DEF a, N
<1>4. t \in [Index -> N] /\ t[p] = a /\ \A z \in Index \ {p} : t[z] = node[z]
  BY <1>1, <1>2, <1>3
<1> QED
  BY <1>2, <1>4 DEF Nodes, N, Relinked

(***************************************************************************)
(* The same for the other link.                                            *)
(***************************************************************************)
LEMMA ChildChanged ==
  ASSUME node \in Nodes, NEW p \in Index, NEW o \in Link,
         NEW t, t = [node EXCEPT ![p].child = o]
  PROVE  Relinked(t, p, node[p].next, o)
<1> DEFINE N == {n \in Node : n.data = NoData \/ n.str = <<>>}
           a == [node[p] EXCEPT !.child = o]
<1>1. node \in [Index -> N] /\ node[p] \in Node /\ node[p] \in N
  BY DEF Nodes
<1>2. /\ a \in N /\ a.c = node[p].c /\ a.str = node[p].str /\ a.data = node[p].data
      /\ a.next = node[p].next /\ a.child = o
  BY <1>1 DEF Node
<1>3. t = [node EXCEPT ![p] = a]
  OBVIOUS
<1> HIDE DEF a, N
<1>4. t \in [Index -> N] /\ t[p] = a /\ \A z \in Index \ {p} : t[z] = node[z]
  BY <1>1, <1>2, <1>3
<1> QED
  BY <1>2, <1>4 DEF Nodes, N, Relinked

(***************************************************************************)
(* Wiping nodes leaves the others as they are.                             *)
(***************************************************************************)
LEMMA WipedIs ==
  ASSUME NEW t \in Nodes, NEW gone
  PROVE  /\ Wiped(t, gone) \in Nodes
         /\ \A z \in Index : z \in gone => Wiped(t, gone)[z] = Cleared
         /\ \A z \in Index : z \notin gone => Wiped(t, gone)[z] = t[z]
BY ClearedIsNode DEF Wiped, Nodes

(***************************************************************************)
(* trie_delete unhooks the twig from the node above, from the sibling      *)
(* before, or from the root.                                               *)
(***************************************************************************)
LEMMA UnlinkedIs ==
  ASSUME NEW at, NEW rank, NEW from, Shape(node, used, root, at, rank, from),
         NEW path, PathIs(path, rank), NEW j, PruneIs(path, j)
  PROVE  \E p, f : f \in {"next", "child"} /\ Unhooked(path, j, p, f)
<1> DEFINE n == Len(path)
           x == path[j].x
           prev == path[j].prev
           o == node[x].next
           gone == FromOn(path, j)
           un == Unlinked(path, j)
<1>1. j \in 1 .. n /\ n \in Nat
  BY DEF PruneIs, PathIs
<1>2. x \in used /\ x \in Index /\ x # NoNode /\ rank[x] \in Nat
  BY <1>1, PathNodes
<1>3. node \in Nodes /\ o \in Link /\ used \subseteq Index /\ root \in used \cup {NoNode}
      /\ NoNode \notin used
  <2>1. used \subseteq Index
    BY DEF Shape
  <2> QED
    BY <1>2, <2>1, LinksDown, NoNodeIsNone DEF Shape, Nodes
<1>4. gone \subseteq used /\ x \in gone
  <2>1. j .. n \subseteq 1 .. n /\ j \in j .. n
    BY <1>1
  <2>2. \A q \in 1 .. n : path[q].x \in used
    BY DEF PathIs, Linkup
  <2> QED
    BY <2>1, <2>2 DEF FromOn
<1>5. ASSUME NEW p \in used, rank[x] < rank[p] PROVE p \notin gone
  <2>1. ASSUME NEW q \in j .. n, p = path[q].x PROVE FALSE
    <3>1. q \in 1 .. n /\ j <= q
      BY <1>1
    <3>2. rank[path[q].x] <= rank[x]
      BY <1>1, <3>1, PathNodes
    <3>3. rank[p] \in Nat
      BY <1>3 DEF Shape
    <3> QED
      BY <1>2, <1>5, <2>1, <3>2, <3>3
  <2> QED
    BY <2>1 DEF FromOn
<1>6. Linkup(path, j)
  BY <1>1 DEF PathIs
<1> DEFINE A == j > 1 /\ node[path[j - 1].x].child = x
<1>7. un = IF A THEN [node |-> [node EXCEPT ![path[j - 1].x].child = o], root |-> root]
           ELSE IF root = x THEN [node |-> node, root |-> o]
           ELSE IF prev # NoNode THEN [node |-> [node EXCEPT ![prev].next = o], root |-> root]
           ELSE [node |-> node, root |-> root]
  BY DEF Unlinked
<1>8. CASE A
  <2> DEFINE p == path[j - 1].x
             t == [node EXCEPT ![p].child = o]
  <2>1. j - 1 \in 1 .. n /\ j - 1 < j /\ node[p].child = x
    BY <1>1, <1>8
  <2>2. p \in used /\ p \in Index /\ p # NoNode
    BY <2>1, PathNodes
  <2>3. rank[x] < rank[p]
    BY <1>1, <2>1 DEF PathIs
  <2>4. p \notin gone
    BY <1>5, <2>2, <2>3
  <2>5. LinkAt(node, root, p, "child") = x
    BY <2>1, <2>2 DEF LinkAt
  <2>6. un.node = t /\ un.root = root
    BY <1>7, <1>8
  <2>7. /\ t \in Nodes /\ \A z \in Index \ {p} : t[z] = node[z]
        /\ t[p].c = node[p].c /\ t[p].str = node[p].str /\ t[p].data = node[p].data
        /\ t[p].next = node[p].next /\ t[p].child = o
    <3>1. t = [node EXCEPT ![p].child = o]
      OBVIOUS
    <3> HIDE DEF t, p, o
    <3>2. Relinked(t, p, node[p].next, o)
      BY <1>3, <2>2, <3>1, ChildChanged
    <3> QED
      BY <3>2 DEF Relinked
  <2>8. ASSUME o = NoNode PROVE node[p].data # NoData
    <3>1. path[j].prev = NoNode
      <4> SUFFICES ASSUME path[j].prev # NoNode PROVE FALSE
        OBVIOUS
      <4>1. path[j].prev \in used /\ node[path[j].prev].next = x
        BY <1>6 DEF Linkup
      <4>2. node[path[j].prev].next # node[p].child
        BY <1>2, <2>2, <4>1, NextIsNoChild
      <4> QED
        BY <2>1, <4>1, <4>2
    <3>2. ~Branches(path, j)
      BY <2>8, <3>1 DEF Branches
    <3>3. Stays(path, j - 1)
      BY <1>8, <3>2 DEF PruneIs
    <3> QED
      BY <3>3 DEF Stays, HasData
  <2> HIDE DEF t, un, p, gone, x, o
  <2> DEFINE m == Wiped(t, gone)
  <2>9. /\ m \in Nodes /\ \A z \in Index : z \in gone => m[z] = Cleared
        /\ \A z \in Index : z \notin gone => m[z] = t[z]
    BY <2>7, WipedIs
  <2> HIDE DEF m
  <2>10. RemovedIs(node, m, root, root, p, "child", x, gone)
    <3>1. m[p] = t[p]
      BY <2>2, <2>4, <2>9
    <3>2. \A z \in Index \ (gone \cup {p}) : m[z] = node[z]
      BY <2>7, <2>9
    <3>3. \A z \in gone : m[z] = Cleared
      BY <1>3, <1>4, <2>9
    <3> QED
      BY <2>2, <2>7, <2>9, <3>1, <3>2, <3>3 DEF RemovedIs, o
  <2>11. Unhooked(path, j, p, "child")
    BY <2>2, <2>4, <2>5, <2>6, <2>8, <2>10 DEF Unhooked, un, gone, x, o, m
  <2> QED
    BY <2>11
<1>9. CASE ~A /\ root = x
  <2>1. un.node = node /\ un.root = o
    BY <1>7, <1>9
  <2>2. LinkAt(node, root, NoNode, "child") = x
    BY <1>9 DEF LinkAt
  <2> HIDE DEF un, gone, x, o
  <2> DEFINE m == Wiped(node, gone)
  <2>3. /\ m \in Nodes /\ \A z \in Index : z \in gone => m[z] = Cleared
        /\ \A z \in Index : z \notin gone => m[z] = node[z]
    BY <1>3, WipedIs
  <2> HIDE DEF m
  <2>4. RemovedIs(node, m, root, o, NoNode, "child", x, gone)
    <3>1. \A z \in gone : m[z] = Cleared
      BY <1>3, <1>4, <2>3
    <3> QED
      BY <2>3, <3>1 DEF RemovedIs, o
  <2>5. NoNode \notin gone
    BY <1>3, <1>4
  <2>6. Unhooked(path, j, NoNode, "child")
    BY <2>1, <2>2, <2>4, <2>5 DEF Unhooked, un, gone, x, o, m
  <2> QED
    BY <2>6
<1>10. CASE ~A /\ root # x
  <2>1. prev # NoNode
    <3> SUFFICES ASSUME prev = NoNode PROVE FALSE
      OBVIOUS
    <3>1. IF j = 1 THEN path[1].x = root ELSE node[path[j - 1].x].child = path[j].x
      BY <1>6 DEF Linkup
    <3>2. j # 1 => j > 1
      BY <1>1
    <3> QED
      BY <1>10, <3>1, <3>2
  <2> DEFINE p == prev
             t == [node EXCEPT ![p].next = o]
  <2>2. p \in used /\ node[p].next = x /\ p \in Index /\ p # NoNode
    BY <1>3, <1>6, <2>1 DEF Linkup
  <2>3. rank[x] < rank[p]
    BY <1>2, <2>2 DEF Shape, NextOf
  <2>4. p \notin gone
    BY <1>5, <2>2, <2>3
  <2>5. LinkAt(node, root, p, "next") = x
    BY <2>2 DEF LinkAt
  <2>6. un.node = t /\ un.root = root
    BY <1>7, <1>10, <2>1
  <2>7. /\ t \in Nodes /\ \A z \in Index \ {p} : t[z] = node[z]
        /\ t[p].c = node[p].c /\ t[p].str = node[p].str /\ t[p].data = node[p].data
        /\ t[p].next = o /\ t[p].child = node[p].child
    <3>1. t = [node EXCEPT ![p].next = o]
      OBVIOUS
    <3> HIDE DEF t, p, o
    <3>2. Relinked(t, p, o, node[p].child)
      BY <1>3, <2>2, <3>1, NextChanged
    <3> QED
      BY <3>2 DEF Relinked
  <2> HIDE DEF t, un, p, gone, x, o
  <2> DEFINE m == Wiped(t, gone)
  <2>8. /\ m \in Nodes /\ \A z \in Index : z \in gone => m[z] = Cleared
        /\ \A z \in Index : z \notin gone => m[z] = t[z]
    BY <2>7, WipedIs
  <2> HIDE DEF m
  <2>9. RemovedIs(node, m, root, root, p, "next", x, gone)
    <3>1. m[p] = t[p]
      BY <2>2, <2>4, <2>8
    <3>2. \A z \in Index \ (gone \cup {p}) : m[z] = node[z]
      BY <2>7, <2>8
    <3>3. \A z \in gone : m[z] = Cleared
      BY <1>3, <1>4, <2>8
    <3> QED
      BY <2>2, <2>7, <2>8, <3>1, <3>2, <3>3 DEF RemovedIs, o
  <2>10. Unhooked(path, j, p, "next")
    BY <2>2, <2>4, <2>5, <2>6, <2>9 DEF Unhooked, un, gone, x, o, m
  <2> QED
    BY <2>10
<1> QED
  BY <1>8, <1>9, <1>10

\* The nodes of path from j on, as trie_delete gives them back.
Gone(path, j) == [k \in 1 .. Len(path) - j + 1 |-> path[j + k - 1].x]

(***************************************************************************)
(* Each of them is given back once.                                        *)
(***************************************************************************)
LEMMA GoneIs ==
  ASSUME NEW at, NEW rank, NEW from, Shape(node, used, root, at, rank, from),
         NEW path, PathIs(path, rank), NEW j \in 1 .. Len(path)
  PROVE  /\ Range(Gone(path, j)) = FromOn(path, j)
         /\ Fresh(Gone(path, j), Len(path) - j + 1, used \ FromOn(path, j))
<1> DEFINE n == Len(path)
           m == n - j + 1
           x(q) == path[q].x
           g == Gone(path, j)
<1>1. n \in Nat /\ j \in 1 .. n /\ m \in Nat
  BY DEF PathIs
<1>2. \A k \in 1 .. m : j + k - 1 \in j .. n /\ j + k - 1 \in 1 .. n
  BY <1>1
<1>3. \A q \in j .. n : q - j + 1 \in 1 .. m /\ j + (q - j + 1) - 1 = q
  BY <1>1
<1>4. \A q \in 1 .. n : x(q) \in Index
  BY PathNodes
<1>5. ASSUME NEW q \in 1 .. n, NEW k \in 1 .. n, x(q) = x(k) PROVE q = k
  BY <1>5, PathNodes
<1>6. g = [k \in 1 .. m |-> x(j + k - 1)] /\ FromOn(path, j) = {x(q) : q \in j .. n}
  BY DEF Gone, FromOn
<1> HIDE DEF n, x, g, m
<1>7. g = [k \in 1 .. m |-> g[k]] /\ \A k \in 1 .. m : g[k] = x(j + k - 1) /\ g[k] \in Index
  BY <1>2, <1>4, <1>6
<1>8. g \in Seq(Index) /\ Len(g) = m /\ DOMAIN g = 1 .. m /\ Range(g) = {g[k] : k \in 1 .. m}
  <2>1. g \in [1 .. m -> Index]
    BY <1>7
  <2>2. g \in Seq(Index)
    BY <1>1, <2>1, SeqDef
  <2> QED
    BY <1>1, <2>1, <2>2, LenProperties DEF Range
<1>9. Range(g) = FromOn(path, j)
  <2>1. ASSUME NEW k \in 1 .. m PROVE g[k] \in FromOn(path, j)
    BY <1>2, <1>6, <1>7
  <2>2. ASSUME NEW q \in j .. n PROVE x(q) \in Range(g)
    <3>1. g[q - j + 1] = x(q)
      BY <1>3, <1>7
    <3> QED
      BY <1>3, <1>8, <3>1
  <2> QED
    BY <1>6, <1>8, <2>1, <2>2
<1>10. IsInjective(g)
  <2>1. ASSUME NEW q \in 1 .. m, NEW k \in 1 .. m, g[q] = g[k] PROVE q = k
    <3>1. j + q - 1 = j + k - 1
      BY <1>2, <1>5, <1>7, <2>1
    <3> QED
      BY <1>1, <3>1
  <2> QED
    BY <1>8, <2>1 DEF IsInjective
<1> QED
  BY <1>8, <1>9, <1>10 DEF Fresh, g, m, n

-----------------------------------------------------------------------------
(* trie_delete keeps the tree.                                             *)

(***************************************************************************)
(* A word whose node has children only loses its data.                     *)
(***************************************************************************)
LEMMA UnsetKeeps ==
  ASSUME NEW at, NEW rank, NEW from, Now(at, rank, from),
         NEW w, NEW x \in used, node[x].data # NoData, node[x].child # NoNode,
         Word(node, at, x) = w
  PROVE  Tree([node EXCEPT ![x].data = NoData], used, root, Without(kv, w))
<1> DEFINE nd2 == [node EXCEPT ![x].data = NoData]
<1>1. /\ Shape(node, used, root, at, rank, from) /\ Leads(node, used)
      /\ Holds(node, used, at, kv)
  BY DEF Now
<1>2. node \in Nodes /\ x \in Index
  BY <1>1 DEF Shape, Nodes
<1>3. nd2[x] = [node[x] EXCEPT !.data = NoData] /\ node[x] \in Node
      /\ \A z \in Index \ {x} : nd2[z] = node[z]
  BY <1>2 DEF Nodes
<1>4. SetIs(node, nd2, x, NoData)
  <2>1. nd2[x] \in {n \in Node : n.data = NoData \/ n.str = <<>>}
    BY <1>3 DEF Node
  <2>2. nd2 \in Nodes
    BY <1>2, <1>3, <2>1 DEF Nodes
  <2>3. /\ nd2[x].c = node[x].c /\ nd2[x].str = node[x].str
        /\ nd2[x].next = node[x].next /\ nd2[x].child = node[x].child /\ nd2[x].data = NoData
    BY <1>3 DEF Node
  <2> QED
    BY <1>3, <2>2, <2>3 DEF SetIs
<1> HIDE DEF nd2
<1>5. Tree(nd2, used, root, Without(kv, Word(node, at, x)))
  BY <1>1, <1>4, HoldsUnset
<1> QED
  BY <1>5 DEF nd2

(***************************************************************************)
(* Otherwise the nodes that only lead to it are taken out.                 *)
(***************************************************************************)
LEMMA TakeOutKeeps ==
  ASSUME NEW at, NEW rank, NEW from, Now(at, rank, from),
         NEW w, NEW path, PathEnds(at, rank, w, path),
         node[path[Len(path)].x].child = NoNode,
         NEW j, PruneIs(path, j), NEW gone, gone = FromOn(path, j)
  PROVE  Tree(Wiped(Unlinked(path, j).node, gone), used \ gone,
              Unlinked(path, j).root, Without(kv, w))
<1> DEFINE n == Len(path)
           x == path[j].x
           y == path[n].x
           nd2 == Wiped(Unlinked(path, j).node, gone)
           rt2 == Unlinked(path, j).root
<1>1. /\ Shape(node, used, root, at, rank, from) /\ Leads(node, used)
      /\ Holds(node, used, at, kv)
  BY DEF Now
<1>2. PathIs(path, rank) /\ node[y].data # NoData /\ Word(node, at, y) = w
  BY DEF PathEnds
<1>3. n \in Nat /\ j \in 1 .. n /\ n \in 1 .. n /\ n \in j .. n
  BY <1>2 DEF PathIs, PruneIs
<1>4. Twig(node, used, from, gone, x)
  BY <1>1, <1>2, TwigOnPath
<1>5. y \in gone /\ \A z \in gone \ {y} : node[z].data = NoData
  <2>1. y \in gone
    BY <1>3 DEF FromOn
  <2>2. ASSUME NEW q \in j .. n, path[q].x # y PROVE node[path[q].x].data = NoData
    <3>1. q # n /\ q \in 1 .. n /\ q >= j
      BY <1>3, <2>2
    <3>2. ~Stays(path, q) /\ q < n
      BY <1>3, <3>1 DEF PruneIs
    <3> QED
      BY <3>2 DEF Stays, HasData
  <2> QED
    BY <2>1, <2>2 DEF FromOn
<1>6. PICK p, f : f \in {"next", "child"} /\ Unhooked(path, j, p, f)
  BY <1>1, <1>2, UnlinkedIs
<1>7. /\ p \in (used \cup {NoNode}) \ gone /\ LinkAt(node, root, p, f) = x
      /\ p # NoNode /\ f = "child" /\ node[x].next = NoNode => node[p].data # NoData
      /\ RemovedIs(node, nd2, root, rt2, p, f, x, gone)
  BY <1>6 DEF Unhooked
<1> HIDE DEF nd2, rt2, x, y
<1>8. Tree(nd2, used \ gone, rt2, Without(kv, Word(node, at, y)))
  <2>1. CASE f = "next"
    BY <1>1, <1>2, <1>4, <1>5, <1>7, <2>1, HoldsRemoved
  <2>2. CASE f = "child"
    BY <1>1, <1>2, <1>4, <1>5, <1>7, <2>2, HoldsRemoved
  <2> QED
    BY <1>6, <2>1, <2>2
<1> QED
  BY <1>2, <1>8 DEF nd2, rt2

(***************************************************************************)
(* There are pieces for the rest of a word.                                *)
(***************************************************************************)
LEMMA PiecesNat ==
  ASSUME NEW w \in Seq(Nat), NEW h \in 1 .. Len(w)
  PROVE  Len(Pieces[Rest(w, h)]) \in Nat /\ Len(Pieces[Rest(w, h)]) > 0
<1> DEFINE ps == Pieces[Rest(w, h)]
<1>1. h \in 1 .. Len(w) + 1
  OBVIOUS
<1>2. Rest(w, h) \in Seq(Nat) /\ Len(Rest(w, h)) = Len(w) - h + 1
  BY <1>1, RestParts
<1>3. Rest(w, h) # <<>>
  <2> DEFINE l == Len(w)
             r == Len(Rest(w, h))
  <2>1. l \in Nat /\ h \in 1 .. l /\ r = l - h + 1
    BY <1>2
  <2> HIDE DEF l, r
  <2>2. r > 0
    BY <2>1
  <2> QED
    BY <2>2 DEF r
<1>4. \E off : PiecesOf(ps, Rest(w, h), off)
  BY <1>2, <1>3, PiecesMade
<1> HIDE DEF ps
<1>5. ps \in Seq(Node) /\ Len(ps) > 0
  BY <1>4 DEF PiecesOf
<1>6. Len(ps) \in Nat
  BY <1>5
<1> QED
  BY <1>5, <1>6 DEF ps

(***************************************************************************)
(* The right decision is for something that takes a number of nodes.       *)
(***************************************************************************)
LEMMA DecisionTakes ==
  ASSUME NEW at, NEW rank, NEW from, Shape(node, used, root, at, rank, from),
         NEW w \in Seq(Nat), NEW e,
         \/ /\ e = Decided("ROOT", NoNode, NoNode, NoNode, 1, 0)
            /\ Fits(node, used, root, at, w, 1, NoNode, "child")
         \/ RightDecision(at, w, e)
  PROVE  StrideLength(w, e) \in Nat /\ e.act # "FAILURE"
<1> DEFINE L == Len(Pieces[Rest(w, e.i)])
<1>1. \/ /\ e = Decided("ROOT", NoNode, NoNode, NoNode, 1, 0)
         /\ Fits(node, used, root, at, w, 1, NoNode, "child")
      \/ RightDecision(at, w, e)
  OBVIOUS
<1>2. ASSUME e.i \in 1 .. Len(w) PROVE L \in Nat
  BY <1>2, PiecesNat
<1>3. ASSUME NEW p, NEW f, Fits(node, used, root, at, w, e.i, p, f) PROVE L \in Nat
  BY <1>2, <1>3, FitsWithin
<1> DEFINE k == StrideLength(w, e)
<1>4. k = CASE e.act = "SPLIT_N_CHILD" -> IF e.n < Len(node[e.x].str) THEN 2 ELSE 1
            [] e.act = "SPLIT_0_SET"   -> 1
            [] e.act = "SPLIT_N_NEXT"  -> L + 1
            [] e.act = "SET"           -> 0
            [] OTHER                   -> L
  BY DEF StrideLength
<1> HIDE DEF k, L
<1>5. CASE e = Decided("ROOT", NoNode, NoNode, NoNode, 1, 0)
           /\ Fits(node, used, root, at, w, 1, NoNode, "child")
  <2>1. e.act = "ROOT" /\ e.i = 1
    BY <1>5 DEF Decided
  <2>2. L \in Nat
    BY <1>3, <1>5, <2>1
  <2> QED
    BY <1>4, <2>1, <2>2 DEF k
<1>6. CASE e.act = "PREV" /\ Fits(node, used, root, at, w, e.i, e.prev, "next")
  <2>1. L \in Nat
    BY <1>3, <1>6
  <2> QED
    BY <1>4, <1>6, <2>1 DEF k
<1>7. CASE e.act = "PARENT" /\ Fits(node, used, root, at, w, e.i, e.parent, "child")
  <2>1. L \in Nat
    BY <1>3, <1>7
  <2> QED
    BY <1>4, <1>7, <2>1 DEF k
<1>8. CASE e.act = "CHILD" /\ Fits(node, used, root, at, w, e.i, e.x, "child")
  <2>1. L \in Nat
    BY <1>3, <1>8
  <2> QED
    BY <1>4, <1>8, <2>1 DEF k
<1>9. CASE e.act \in {"SET", "SPLIT_0_SET", "SPLIT_N_CHILD"}
  <2>1. k \in {0, 1, 2}
    BY <1>4, <1>9
  <2> QED
    BY <1>9, <2>1 DEF k
<1>10. CASE e.act = "SPLIT_N_NEXT" /\ RightDecision(at, w, e)
  <2> DEFINE h == e.i
             n == e.n
             x == e.x
  <2>1. PICK i \in Nat : AgreesUpTo(at, w, x, i, n) /\ h = i + n + 1 /\ h <= Len(w)
    BY <1>10 DEF RightDecision
  <2>2. x \in Index
    BY <2>1 DEF AgreesUpTo, Shape
  <2>3. Size(node, x) \in Nat
    BY <2>2, WordParts DEF WordIs
  <2>4. n \in 0 .. Size(node, x)
    BY <2>1 DEF AgreesUpTo
  <2> HIDE DEF h, n, x
  <2>5. n \in Nat
    BY <2>3, <2>4
  <2>6. h \in 1 .. Len(w)
    BY <2>1, <2>5
  <2>7. L \in Nat
    BY <1>2, <2>6 DEF h
  <2>8. k = L + 1
    BY <1>4, <1>10
  <2> QED
    BY <1>10, <2>7, <2>8 DEF k
<1> QED
  BY <1>1, <1>5, <1>6, <1>7, <1>8, <1>9, <1>10 DEF RightDecision

(***************************************************************************)
(* It is always decided for something, which takes a number of nodes.      *)
(***************************************************************************)
LEMMA StrideIsNat ==
  ASSUME NEW at, NEW rank, NEW from, Shape(node, used, root, at, rank, from),
         NEW w \in Seq(Nat), w # <<>>
  PROVE  StrideLength(w, Decide(w)) \in Nat /\ Decide(w).act # "FAILURE"
<1> DEFINE e == Decide(w)
<1>1. \/ /\ e = Decided("ROOT", NoNode, NoNode, NoNode, 1, 0)
         /\ Fits(node, used, root, at, w, 1, NoNode, "child")
      \/ RightDecision(at, w, e)
  BY DecideRight
<1> HIDE DEF e
<1>2. StrideLength(w, e) \in Nat /\ e.act # "FAILURE"
  BY <1>1, DecisionTakes
<1> QED
  BY <1>2 DEF e

-----------------------------------------------------------------------------
(* The inductive invariant.                                                *)

\* The nodes in use are a tree that holds the pairs that are in, and those that
\* are not in use are on the free list.
TrieInv ==
  /\ DOMAIN kv \subseteq Words /\ Range(kv) \subseteq Data
  /\ Accounts(used, free, top)
  /\ Tree(node, used, root, kv)

(***************************************************************************)
(* Words are not empty.                                                    *)
(***************************************************************************)
LEMMA WordTyped ==
  ASSUME NEW w \in Words
  PROVE  w \in Seq(Nat) /\ w # <<>>
BY TrieAssumption

(***************************************************************************)
(* A trie without nodes.                                                   *)
(***************************************************************************)
LEMMA EmptyTree ==
  ASSUME NEW nd, nd = [x \in Index |-> Cleared], NEW m, m = [w \in {} |-> NoData]
  PROVE  Tree(nd, {}, NoNode, m) /\ Accounts({}, <<>>, 0)
<1> DEFINE at   == [x \in Index |-> <<>>]
           rank == [x \in Index |-> 0]
           from == [x \in Index |-> NoNode]
<1>1. Shape(nd, {}, NoNode, at, rank, from)
  <2>1. /\ at \in [Index -> Seq(Nat)] /\ rank \in [Index -> Nat] /\ from \in [Index -> Link]
        /\ \A x \in Index : nd[x] = Cleared
    BY NoNodeIsNone
  <2>2. nd \in [Index -> {n \in Node : n.data = NoData \/ n.str = <<>>}]
    BY ClearedIsNode
  <2> HIDE DEF at, rank, from
  <2> QED
    BY <2>1, <2>2 DEF Shape
<1>2. Holds(nd, {}, at, m) /\ Leads(nd, {})
  <2> HIDE DEF at
  <2> QED
    BY DEF Holds, Leads
<1>3. Accounts({}, <<>>, 0)
  <2>1. <<>> \in Seq(Index) /\ IsInjective(<<>>) /\ Range(<<>>) = {}
    BY DEF IsInjective, Range
  <2>2. MaxNodes \in Nat
    BY TrieAssumption
  <2>3. 1 .. 0 = {} /\ 0 \in 0 .. MaxNodes
    BY <2>2
  <2> QED
    BY <2>1, <2>3 DEF Accounts
<1> HIDE DEF at, rank, from
<1> QED
  BY <1>1, <1>2, <1>3 DEF Tree

(***************************************************************************)
(* trie_insert keeps the invariant.                                        *)
(***************************************************************************)
LEMMA InsertStep ==
  ASSUME TrieInv, NEW w \in Words, NEW d \in Data, NEW rep \in BOOLEAN, Insert(w, d, rep)
  PROVE  TrieInv'
<1> DEFINE e == Decide(w)
           k == StrideLength(w, e)
           ns == Taken(k)
<1>1. PICK at, rank, from : Now(at, rank, from)
  BY DEF TrieInv, Tree, Now
<1>2. w \in Seq(Nat) /\ w # <<>>
  BY WordTyped
<1>3. k \in Nat
  BY <1>1, <1>2, StrideIsNat DEF Now
<1>4. DOMAIN ns = 1 .. k /\ Len(ns) = k
  BY <1>3 DEF Taken
<1>5. /\ TopAfter(k) <= MaxNodes
      /\ node' = Inserted(w, d, e, ns).node /\ root' = Inserted(w, d, e, ns).root
      /\ used' = used \cup Range(ns) /\ free' = FreeLeft(k) /\ top' = TopAfter(k)
      /\ kv' = Also(kv, w, d)
  <2> HIDE DEF k, e
  <2>1. Put(w, d, e) /\ kv' = Also(kv, w, d)
    BY DEF Insert, Also, e
  <2>2. /\ TopAfter(Len(ns)) <= MaxNodes
        /\ node' = Inserted(w, d, e, ns).node /\ root' = Inserted(w, d, e, ns).root
        /\ used' = used \cup Range(ns) /\ free' = FreeLeft(Len(ns)) /\ top' = TopAfter(Len(ns))
    BY <2>1 DEF Put, k
  <2> HIDE DEF ns
  <2> QED
    BY <1>4, <2>1, <2>2
<1>6. Fresh(ns, k, used) /\ Accounts(used \cup Range(ns), FreeLeft(k), TopAfter(k))
  <2> HIDE DEF k
  <2> QED
    BY <1>3, <1>5, TakenAccounts DEF TrieInv
<1>7. PutsIn(at, w, d, e, ns)
  <2> HIDE DEF ns
  <2> QED
    BY <1>1, <1>2, <1>6, InsertKeeps
<1> HIDE DEF ns, k, e
<1>8. Tree(node', used', root', kv')
  BY <1>5, <1>7, GrownTree DEF PutsIn
<1>9. Accounts(used', free', top')
  BY <1>5, <1>6
<1>10. DOMAIN kv' \subseteq Words /\ Range(kv') \subseteq Data
  BY <1>5 DEF TrieInv, Also, Range
<1> QED
  BY <1>8, <1>9, <1>10 DEF TrieInv, Tree, Leads, Shape, Holds, Word, NextOf, ChildOf, Accounts

(***************************************************************************)
(* An insertion that finds no memory keeps the invariant: what it got it   *)
(* gives back.                                                             *)
(***************************************************************************)
LEMMA InsertFailsStep ==
  ASSUME TrieInv, NEW w \in Words, NEW rep \in BOOLEAN, InsertFails(w, rep)
  PROVE  TrieInv'
<1>1. PICK at, rank, from : Shape(node, used, root, at, rank, from)
  BY DEF TrieInv, Tree
<1>2. StrideLength(w, Decide(w)) \in Nat
  BY <1>1, WordTyped, StrideIsNat
<1>3. PICK k \in OutOfMemory(w, Decide(w)) :
        /\ free' = Reverse(Taken(k)) \o FreeLeft(k) /\ top' = TopAfter(k)
        /\ UNCHANGED <<node, used, root, kv>>
  BY DEF InsertFails, StrideFails
<1>4. k \in Nat /\ TopAfter(k) <= MaxNodes
  BY <1>2, <1>3 DEF OutOfMemory
<1>5. Fresh(Taken(k), k, used) /\ Accounts(used \cup Range(Taken(k)), FreeLeft(k), TopAfter(k))
  BY <1>4, TakenAccounts DEF TrieInv
<1>6. Accounts(used, Reverse(Taken(k)) \o FreeLeft(k), TopAfter(k))
  BY <1>5, GivenBack
<1>7. Tree(node', used', root', kv') /\ Accounts(used', free', top')
  BY <1>3, <1>6 DEF TrieInv
<1>8. DOMAIN kv' \subseteq Words /\ Range(kv') \subseteq Data
  BY <1>3 DEF TrieInv
<1> QED
  BY <1>7, <1>8 DEF TrieInv, Tree, Leads, Shape, Holds, Word, NextOf, ChildOf, Accounts

(***************************************************************************)
(* trie_delete keeps the invariant.                                        *)
(***************************************************************************)
LEMMA DeleteStep ==
  ASSUME TrieInv, NEW w \in Words, Delete(w)
  PROVE  TrieInv'
<1> DEFINE path == Path(w)
           x == path[Len(path)].x
           j == PruneFrom(path)
           gone == Gone(path, j)
<1>1. PICK at, rank, from : Now(at, rank, from)
  BY DEF TrieInv, Tree, Now
<1>2. Shape(node, used, root, at, rank, from)
  BY <1>1 DEF Now
<1>3. /\ path # <<>>
      /\ IF node[x].child # NoNode
           THEN /\ node' = [node EXCEPT ![x].data = NoData]
                /\ UNCHANGED <<used, root, free>>
           ELSE /\ node' = Wiped(Unlinked(path, j).node, Range(gone))
                /\ root' = Unlinked(path, j).root
                /\ used' = used \ Range(gone)
                /\ free' = Reverse(gone) \o free
      /\ kv' = Without(kv, w) /\ top' = top
  BY DEF Delete, Gone, Without
<1>4. PathEnds(at, rank, w, path)
  BY <1>2, <1>3, WordTyped, PathRight
<1> HIDE DEF path
<1>5. PathIs(path, rank) /\ path \in Seq(Step) /\ node[x].data # NoData /\ Word(node, at, x) = w
  BY <1>4 DEF PathEnds, PathIs
<1>6. PruneIs(path, j)
  BY <1>3, <1>5, PruneFromIs
<1>7. Len(path) \in 1 .. Len(path)
  BY <1>3, <1>5, EmptySeq
<1>8. x \in used
  BY <1>2, <1>5, <1>7, PathNodes
<1> HIDE DEF x, j, gone
<1>9. Tree(node', used', root', kv') /\ Accounts(used', free', top')
  <2>1. CASE node[x].child # NoNode
    <3>1. Tree([node EXCEPT ![x].data = NoData], used, root, Without(kv, w))
      BY <1>1, <1>5, <1>8, <2>1, UnsetKeeps
    <3> QED
      BY <1>3, <2>1, <3>1 DEF TrieInv
  <2>2. CASE node[x].child = NoNode
    <3>1. j \in 1 .. Len(path)
      BY <1>6 DEF PruneIs
    <3>2. /\ Range(gone) = FromOn(path, j)
          /\ Fresh(gone, Len(path) - j + 1, used \ FromOn(path, j))
      BY <1>2, <1>5, <3>1, GoneIs DEF gone
    <3>3. FromOn(path, j) \subseteq used
      <4>1. Twig(node, used, from, FromOn(path, j), path[j].x)
        BY <1>2, <1>5, <1>6, <2>2, TwigOnPath DEF x
      <4> QED
        BY <4>1 DEF Twig
    <3> DEFINE g == Range(gone)
    <3>4. g = FromOn(path, j)
      BY <3>2
    <3> HIDE DEF g
    <3>5. Tree(Wiped(Unlinked(path, j).node, g), used \ g, Unlinked(path, j).root,
               Without(kv, w))
      BY <1>1, <1>4, <1>6, <2>2, <3>4, TakeOutKeeps DEF x
    <3>6. used = (used \ g) \cup g
      BY <3>3, <3>4
    <3>7. Accounts((used \ g) \cup g, free, top)
      BY <3>6 DEF TrieInv
    <3>8. Fresh(gone, Len(path) - j + 1, used \ g)
      BY <3>2, <3>4
    <3>9. Accounts(used \ g, Reverse(gone) \o free, top)
      BY <3>7, <3>8, GivenBack DEF g
    <3>10. /\ node' = Wiped(Unlinked(path, j).node, g) /\ root' = Unlinked(path, j).root
           /\ used' = used \ g /\ free' = Reverse(gone) \o free
           /\ kv' = Without(kv, w) /\ top' = top
      BY <1>3, <2>2 DEF g
    <3> QED
      BY <3>5, <3>9, <3>10
  <2> QED
    BY <2>1, <2>2
<1>10. DOMAIN kv' \subseteq Words /\ Range(kv') \subseteq Data
  BY <1>3 DEF TrieInv, Without, Range
<1> QED
  BY <1>9, <1>10 DEF TrieInv, Tree, Leads, Shape, Holds, Word, NextOf, ChildOf, Accounts

-----------------------------------------------------------------------------
(* Theorems about module Trie.                                             *)

(***************************************************************************)
(* trie_init and trie_clear leave an empty trie.                           *)
(***************************************************************************)
LEMMA EmptyInv ==
  /\ Init => TrieInv
  /\ Clear => TrieInv'
<1> DEFINE nd == [x \in Index |-> Cleared]
           m == [w \in {} |-> NoData]
<1>1. Tree(nd, {}, NoNode, m) /\ Accounts({}, <<>>, 0)
  BY EmptyTree
<1>2. DOMAIN m \subseteq Words /\ Range(m) \subseteq Data
  BY DEF Range
<1>3. Init => TrieInv
  <2> SUFFICES ASSUME Init PROVE TrieInv
    OBVIOUS
  <2>1. /\ node = nd /\ used = {} /\ root = NoNode /\ free = <<>> /\ top = 0 /\ kv = m
    BY DEF Init
  <2> HIDE DEF nd, m
  <2> QED
    BY <1>1, <1>2, <2>1 DEF TrieInv
<1>4. Clear => TrieInv'
  <2> SUFFICES ASSUME Clear PROVE TrieInv'
    OBVIOUS
  <2>1. /\ node' = nd /\ used' = {} /\ root' = NoNode /\ free' = <<>> /\ top' = 0 /\ kv' = m
    BY DEF Clear
  <2> HIDE DEF nd, m
  <2>2. Tree(node', used', root', kv') /\ Accounts(used', free', top')
        /\ DOMAIN kv' \subseteq Words /\ Range(kv') \subseteq Data
    BY <1>1, <1>2, <2>1
  <2> QED
    BY <2>2 DEF TrieInv, Tree, Leads, Shape, Holds, Word, NextOf, ChildOf, Accounts
<1> QED
  BY <1>3, <1>4

(***************************************************************************)
(* Every operation of trie.c keeps the tree right and every node accounted *)
(* for.                                                                    *)
(***************************************************************************)
THEOREM TrieKeepsInv == Spec => []TrieInv
<1>1. Init => TrieInv
  BY EmptyInv
<1>2. TrieInv /\ [Next]_vars => TrieInv'
  <2> SUFFICES ASSUME TrieInv, [Next]_vars PROVE TrieInv'
    OBVIOUS
  <2>1. CASE Clear
    BY <2>1, EmptyInv
  <2>2. ASSUME NEW w \in Words, NEW d \in Data, NEW rep \in BOOLEAN, Insert(w, d, rep)
        PROVE  TrieInv'
    BY <2>2, InsertStep
  <2>3. ASSUME NEW w \in Words, NEW rep \in BOOLEAN, InsertFails(w, rep) PROVE TrieInv'
    BY <2>3, InsertFailsStep
  <2>4. ASSUME NEW w \in Words, Delete(w) PROVE TrieInv'
    BY <2>4, DeleteStep
  <2>5. CASE UNCHANGED vars
    <3>1. node' = node /\ used' = used /\ root' = root /\ free' = free /\ top' = top /\ kv' = kv
      BY <2>5 DEF vars
    <3>2. Tree(node', used', root', kv') /\ Accounts(used', free', top')
          /\ DOMAIN kv' \subseteq Words /\ Range(kv') \subseteq Data
      BY <3>1 DEF TrieInv
    <3> QED
      BY <3>2 DEF TrieInv, Tree, Leads, Shape, Holds, Word, NextOf, ChildOf, Accounts
  <2> QED
    BY <2>1, <2>2, <2>3, <2>4, <2>5 DEF Next
<1> QED
  BY <1>1, <1>2, PTL DEF Spec

(***************************************************************************)
(* Types: a node holds data or a piece of a word, never both, whatever the *)
(* splits did, and links lead to nodes of the banks.                       *)
(***************************************************************************)
THEOREM TrieTyped == Spec => []TypeOK
<1>1. TrieInv => TypeOK
  <2> SUFFICES ASSUME TrieInv PROVE TypeOK
    OBVIOUS
  <2>1. PICK at, rank, from : Shape(node, used, root, at, rank, from)
    BY DEF TrieInv, Tree
  <2>2. free \in Seq(Index) /\ top \in 0 .. MaxNodes
    BY DEF TrieInv, Accounts
  <2>3. root \in Link
    BY <2>1, NoNodeIsNone DEF Shape
  <2> QED
    BY <2>1, <2>2, <2>3 DEF TypeOK, Shape, TrieInv
<1> QED
  BY <1>1, TrieKeepsInv, PTL

(***************************************************************************)
(* A node taken from the banks is linked or on the free list, never both,  *)
(* once only, also after an insertion that ran out of memory.              *)
(***************************************************************************)
THEOREM TrieAccounts == Spec => []NodesAccounted
<1>1. TrieInv => NodesAccounted
  <2> SUFFICES ASSUME TrieInv PROVE NodesAccounted
    OBVIOUS
  <2>1. PICK at, rank, from : Shape(node, used, root, at, rank, from)
    BY DEF TrieInv, Tree
  <2>2. used = Linked[root]
    BY <2>1, LinkedIsUsed
  <2> QED
    BY <2>2 DEF TrieInv, Accounts, NodesAccounted
<1> QED
  BY <1>1, TrieKeepsInv, PTL

(***************************************************************************)
(* Every node leads to a word.                                             *)
(***************************************************************************)
THEOREM TrieLeads == Spec => []NoDeadEnds
<1>1. TrieInv => NoDeadEnds
  BY DEF TrieInv, Tree, Leads, NoDeadEnds, HasData
<1> QED
  BY <1>1, TrieKeepsInv, PTL

(***************************************************************************)
(* The words that are looked for are not empty.                            *)
(***************************************************************************)
LEMMA ProbeTyped ==
  ASSUME NEW w \in Probes
  PROVE  w \in Seq(Nat) /\ w # <<>>
<1>1. ASSUME NEW v \in Beginnings PROVE v \in Seq(Nat) /\ v # <<>>
  <2>1. PICK u \in Words : \E i \in 1 .. Len(u) : v = SubSeq(u, 1, i)
    BY DEF Beginnings
  <2> PICK j \in 1 .. Len(u) : v = SubSeq(u, 1, j)
    BY <2>1
  <2>2. u \in Seq(Nat)
    BY WordTyped
  <2> DEFINE l == Len(u)
  <2>3. l \in Nat /\ j \in 1 .. l /\ u \in [1 .. l -> Nat]
    BY <2>2
  <2>4. \A q \in 1 .. j : u[q] \in Nat
    <3> HIDE DEF l
    <3> QED
      BY <2>3
  <2>5. v \in Seq(Nat) /\ Len(v) = IF 1 <= j THEN j - 1 + 1 ELSE 0
    <3> HIDE DEF l
    <3>1. 1 \in Int /\ j \in Int
      BY <2>3
    <3> QED
      BY <2>2, <2>3, <2>4, <3>1, SubSeqProperties
  <2>6. Len(v) > 0
    <3> HIDE DEF l
    <3> QED
      BY <2>3, <2>5
  <2> QED
    BY <2>5, <2>6
<1>2. ASSUME NEW c \in Chars PROVE c \in Nat
  <2>1. PICK u \in Words : c \in Range(u)
    BY <1>2 DEF Chars
  <2>2. u \in Seq(Nat)
    BY WordTyped
  <2>3. PICK q \in DOMAIN u : c = u[q]
    BY <2>1 DEF Range
  <2> QED
    BY <2>2, <2>3
<1>3. ASSUME NEW v \in Beginnings, NEW c \in Chars
      PROVE  Append(v, c) \in Seq(Nat) /\ Append(v, c) # <<>>
  <2>1. v \in Seq(Nat) /\ c \in Nat
    BY <1>1, <1>2
  <2>2. Append(v, c) \in Seq(Nat) /\ Len(Append(v, c)) = Len(v) + 1 /\ Len(v) \in Nat
    BY <2>1, AppendProperties
  <2> QED
    BY <2>2
<1>4. w \in Beginnings \/ \E v \in Beginnings, c \in Chars : w = Append(v, c)
  <2>1. w \in Beginnings \/ w \in {Append(v, c) : v \in Beginnings, c \in Chars}
    BY DEF Probes
  <2> QED
    BY <2>1
<1> QED
  BY <1>1, <1>3, <1>4

(***************************************************************************)
(* trie_find finds a word, with its data, exactly while it is in.          *)
(***************************************************************************)
THEOREM TrieFinds == Spec => []FindsWhatIsIn
<1>1. TrieInv => FindsWhatIsIn
  <2> SUFFICES ASSUME TrieInv, NEW w \in Probes
               PROVE  Find(w) = IF w \in DOMAIN kv THEN kv[w] ELSE NoData
    BY DEF FindsWhatIsIn
  <2>1. PICK at, rank, from : Shape(node, used, root, at, rank, from)
                              /\ Holds(node, used, at, kv)
    BY DEF TrieInv, Tree
  <2> QED
    BY <2>1, ProbeTyped, FindsHeld
<1> QED
  BY <1>1, TrieKeepsInv, PTL

\* What _trie_insert_decide finds: there is always somewhere to put a word.
NeverLost == \A w \in Words : Decide(w).act # "FAILURE"

(***************************************************************************)
(* The walk of an insertion never ends where there is nothing to go on     *)
(* with, the case that _trie_insert_decide leaves as a failure.            *)
(***************************************************************************)
THEOREM InsertNeverLost == Spec => []NeverLost
<1>1. TrieInv => NeverLost
  <2> SUFFICES ASSUME TrieInv, NEW w \in Words PROVE Decide(w).act # "FAILURE"
    BY DEF NeverLost
  <2>1. PICK at, rank, from : Shape(node, used, root, at, rank, from)
    BY DEF TrieInv, Tree
  <2> QED
    BY <2>1, WordTyped, StrideIsNat
<1> QED
  BY <1>1, TrieKeepsInv, PTL

-----------------------------------------------------------------------------
(* Sums.                                                                   *)

\* s adds v up.
AddsUp(s, v) == s \in [Nat -> Nat] /\ s[0] = 0 /\ \A n \in Nat : s[n + 1] = s[n] + v[n + 1]

Sums(v) == CHOOSE s : AddsUp(s, v)

(***************************************************************************)
(* There are sums.                                                         *)
(***************************************************************************)
LEMMA SumsAddUp ==
  ASSUME NEW v \in [Nat -> Nat]
  PROVE  AddsUp(Sums(v), v)
<1> DEFINE B(n, f) == IF n = 0 THEN 0 ELSE f[n - 1] + v[n]
           m == [n \in Nat |-> n]
           F == [q \in Nat \X [Nat -> Nat] |-> B(q[1], q[2])]
<1>1. m \in [Nat -> Nat]
  OBVIOUS
<1>2. F \in [Nat \X [Nat -> Nat] -> Nat]
  <2> SUFFICES ASSUME NEW n \in Nat, NEW f \in [Nat -> Nat] PROVE B(n, f) \in Nat
    OBVIOUS
  <2>1. n # 0 => f[n - 1] \in Nat /\ v[n] \in Nat
    OBVIOUS
  <2> QED
    BY <2>1
<1>3. LooksBelow(Nat, Nat, m, F)
  <2> SUFFICES ASSUME NEW n \in Nat, NEW g \in [Nat -> Nat], NEW h \in [Nat -> Nat],
                      \A k \in Nat : m[k] < m[n] => g[k] = h[k]
               PROVE  B(n, g) = B(n, h)
    BY DEF LooksBelow
  <2>1. n # 0 => n - 1 \in Nat /\ n - 1 < n
    OBVIOUS
  <2>2. n # 0 => g[n - 1] = h[n - 1]
    BY <2>1
  <2> QED
    BY <2>2
<1>4. Solvable(Nat, Nat, F)
  <2>1. Nat # {}
    OBVIOUS
  <2> HIDE DEF m, F
  <2> QED
    BY <1>1, <1>2, <1>3, <2>1, RecursionSolved, Zenon
<1>5. PICK f \in [Nat -> Nat] : \A n \in Nat : f[n] = F[<<n, f>>]
  BY <1>4 DEF Solvable
<1>6. \A n \in Nat : f[n] = B(n, f)
  BY <1>5
<1>7. f[0] = 0
  BY <1>6
<1>8. ASSUME NEW n \in Nat PROVE f[n + 1] = f[n] + v[n + 1]
  <2>1. n + 1 \in Nat /\ n + 1 # 0 /\ n + 1 - 1 = n
    OBVIOUS
  <2> QED
    BY <1>6, <2>1
<1>9. AddsUp(f, v)
  BY <1>7, <1>8 DEF AddsUp
<1> QED
  BY <1>9 DEF Sums

(***************************************************************************)
(* What is added up decides the sum.                                       *)
(***************************************************************************)
LEMMA SumsAgree ==
  ASSUME NEW u \in [Nat -> Nat], NEW v \in [Nat -> Nat], NEW n \in Nat,
         \A j \in 1 .. n : u[j] = v[j]
  PROVE  Sums(u)[n] = Sums(v)[n]
<1> DEFINE T == {k \in Nat : k <= n => Sums(u)[k] = Sums(v)[k]}
<1>1. AddsUp(Sums(u), u) /\ AddsUp(Sums(v), v)
  BY SumsAddUp
<1>2. 0 \in T
  BY <1>1 DEF AddsUp
<1>3. ASSUME NEW k \in T PROVE k + 1 \in T
  <2> SUFFICES ASSUME k + 1 <= n PROVE Sums(u)[k + 1] = Sums(v)[k + 1]
    OBVIOUS
  <2>1. k + 1 \in 1 .. n /\ Sums(u)[k] = Sums(v)[k]
    OBVIOUS
  <2> QED
    BY <1>1, <2>1 DEF AddsUp
<1>4. T = Nat
  <2>1. T \in SUBSET Nat
    OBVIOUS
  <2> HIDE DEF T
  <2> QED
    BY <1>2, <1>3, <2>1, NatInduct
<1> QED
  BY <1>4

(***************************************************************************)
(* Nothing is added by zeros.                                              *)
(***************************************************************************)
LEMMA SumsStop ==
  ASSUME NEW v \in [Nat -> Nat], NEW k \in Nat, NEW n \in Nat, k <= n,
         \A j \in k + 1 .. n : v[j] = 0
  PROVE  Sums(v)[n] = Sums(v)[k]
<1> DEFINE T == {i \in Nat : k + i <= n => Sums(v)[k + i] = Sums(v)[k]}
<1>1. AddsUp(Sums(v), v)
  BY SumsAddUp
<1>2. 0 \in T
  OBVIOUS
<1>3. ASSUME NEW i \in T PROVE i + 1 \in T
  <2> SUFFICES ASSUME k + (i + 1) <= n PROVE Sums(v)[k + (i + 1)] = Sums(v)[k]
    OBVIOUS
  <2>1. k + i + 1 \in k + 1 .. n /\ k + i \in Nat /\ Sums(v)[k + i] = Sums(v)[k]
        /\ k + (i + 1) = k + i + 1
    OBVIOUS
  <2>2. Sums(v)[k + i + 1] = Sums(v)[k + i] + v[k + i + 1] /\ Sums(v)[k + i] \in Nat
    BY <1>1, <2>1 DEF AddsUp
  <2>3. v[k + i + 1] = 0
    BY <2>1
  <2> QED
    BY <2>1, <2>2, <2>3
<1>4. T = Nat
  <2>1. T \in SUBSET Nat
    OBVIOUS
  <2> HIDE DEF T
  <2> QED
    BY <1>2, <1>3, <2>1, NatInduct
<1>5. n - k \in Nat /\ k + (n - k) = n
  OBVIOUS
<1>6. n - k \in T
  BY <1>4, <1>5
<1> QED
  BY <1>5, <1>6

-----------------------------------------------------------------------------
(* The iterator.                                                           *)

\* W counts x with what is below it and below its later siblings.
Weighs(W) ==
  /\ W \in [Link -> Nat] /\ W[NoNode] = 0
  /\ \A x \in Index : W[x] = 1 + W[node[x].next] + W[node[x].child]

(***************************************************************************)
(* The nodes below a node can be counted.                                  *)
(***************************************************************************)
LEMMA WeightExists ==
  ASSUME NEW at, NEW rank, NEW from, Shape(node, used, root, at, rank, from)
  PROVE  \E W : Weighs(W)
<1> DEFINE B(x, f) == IF x = NoNode THEN 0 ELSE 1 + f[node[x].next] + f[node[x].child]
           m == [x \in Link |-> Height(x, used, rank)]
           F == [q \in Link \X [Link -> Nat] |-> B(q[1], q[2])]
<1>1. m \in [Link -> Nat]
  <2>1. ASSUME NEW x \in Link PROVE Height(x, used, rank) \in Nat
    BY HeightNat
  <2> QED
    BY <2>1
<1>2. F \in [Link \X [Link -> Nat] -> Nat]
  <2> SUFFICES ASSUME NEW x \in Link, NEW f \in [Link -> Nat] PROVE B(x, f) \in Nat
    OBVIOUS
  <2>1. ASSUME x # NoNode PROVE f[node[x].next] \in Nat /\ f[node[x].child] \in Nat
    BY <2>1, LinksDown, NoNodeIsNone
  <2> QED
    BY <2>1
<1>3. LooksBelow(Link, Nat, m, F)
  <2> SUFFICES ASSUME NEW x \in Link, NEW g \in [Link -> Nat], NEW h \in [Link -> Nat],
                      \A y \in Link : m[y] < m[x] => g[y] = h[y]
               PROVE  B(x, g) = B(x, h)
    BY DEF LooksBelow
  <2>1. ASSUME x # NoNode
        PROVE  g[node[x].next] = h[node[x].next] /\ g[node[x].child] = h[node[x].child]
    BY <2>1, LinksDown, NoNodeIsNone
  <2> QED
    BY <2>1
<1>4. Solvable(Link, Nat, F)
  <2>1. Nat # {}
    OBVIOUS
  <2> HIDE DEF m, F
  <2> QED
    BY <1>1, <1>2, <1>3, <2>1, RecursionSolved, Zenon
<1>5. PICK f \in [Link -> Nat] : \A x \in Link : f[x] = F[<<x, f>>]
  BY <1>4 DEF Solvable
<1>6. \A x \in Link : f[x] = B(x, f)
  BY <1>5
<1> HIDE DEF F, m
<1>7. f[NoNode] = 0
  BY <1>6, NoNodeIsNone
<1>8. \A x \in Index : f[x] = 1 + f[node[x].next] + f[node[x].child]
  BY <1>6, NoNodeIsNone
<1> QED
  BY <1>7, <1>8 DEF Weighs

\* The strides that the iterator may be at.
Strides == Seq(used) \ {<<>>}

\* What the iterator adds at p.
Visited(p) ==
  IF HasData(Last(p)) THEN <<[word |-> WordOf(p), data |-> node[Last(p)].data]>> ELSE <<>>

IterBody(p, f) ==
  LET x     == Last(p)
      here  == IF HasData(x) THEN <<[word |-> WordOf(p), data |-> node[x].data]>> ELSE <<>>
      child == Get(node[x].child)
      more  == {j \in DOMAIN p : node[p[j]].next # NoNode}
      up    == SubSeq(p, 1, Max(more) - 1)
  IN  here \o (IF child # NoNode THEN f[Append(p, child)]
               ELSE IF more = {} THEN <<>>
               ELSE f[Append(up, Get(node[p[Max(more)]].next))])

\* There is no way on from p.
AtEnd(p) ==
  /\ node[p[Len(p)]].child = NoNode
  /\ \A j \in 1 .. Len(p) : node[p[j]].next = NoNode

\* The iterator goes on from p with q: down, or up and on to the next sibling, which
\* is the k-th node of q.
GoesTo(p, q, k) ==
  /\ q \in Strides /\ k \in 1 .. Len(p) + 1 /\ Len(q) = k
  /\ \A j \in 1 .. k - 1 : q[j] = p[j]
  /\ k = Len(p) + 1 => q[k] = node[p[Len(p)]].child
  /\ k <= Len(p) => q[k] = node[p[k]].next /\ node[p[Len(p)]].child = NoNode
  /\ \A j \in k + 1 .. Len(p) : node[p[j]].next = NoNode

(***************************************************************************)
(* The nodes of a stride are in use.                                       *)
(***************************************************************************)
LEMMA StrideNodes ==
  ASSUME NEW at, NEW rank, NEW from, Shape(node, used, root, at, rank, from), NEW p \in Strides
  PROVE  /\ Len(p) \in Nat /\ Len(p) > 0 /\ DOMAIN p = 1 .. Len(p) /\ p \in Seq(used)
         /\ p[Len(p)] \in used /\ Last(p) = p[Len(p)]
         /\ \A j \in 1 .. Len(p) : p[j] \in used /\ p[j] \in Index
<1>1. p \in Seq(used) /\ p # <<>>
  BY DEF Strides
<1>2. Len(p) \in Nat /\ Len(p) > 0 /\ DOMAIN p = 1 .. Len(p) /\ \A j \in 1 .. Len(p) : p[j] \in used
  BY <1>1, EmptySeq
<1>3. used \subseteq Index
  BY DEF Shape
<1> QED
  BY <1>1, <1>2, <1>3 DEF Last

(***************************************************************************)
(* The way on is the one to a stride, or there is none.                    *)
(***************************************************************************)
LEMMA StrideStep ==
  ASSUME NEW at, NEW rank, NEW from, Shape(node, used, root, at, rank, from), NEW p \in Strides
  PROVE  \/ AtEnd(p) /\ \A f : IterBody(p, f) = Visited(p) \o <<>>
         \/ \E q, k : GoesTo(p, q, k) /\ \A f : IterBody(p, f) = Visited(p) \o f[q]
<1> DEFINE n == Len(p)
           x == p[n]
           T == {j \in DOMAIN p : node[p[j]].next # NoNode}
           k == Max(T)
           down == Append(p, node[x].child)
           up == Append(SubSeq(p, 1, k - 1), Get(node[p[k]].next))
<1>1. /\ n \in Nat /\ n > 0 /\ DOMAIN p = 1 .. n /\ x \in used /\ x \in Index /\ p \in Seq(used)
      /\ \A j \in 1 .. n : p[j] \in used /\ p[j] \in Index
  BY StrideNodes
<1>2. Last(p) = x
  BY DEF Last
<1>3. ASSUME NEW y \in Index
      PROVE  /\ Get(node[y].next) = node[y].next /\ Get(node[y].child) = node[y].child
             /\ node[y].next \in used \cup {NoNode} /\ node[y].child \in used \cup {NoNode}
  BY GetLinks, LinksDown
<1>4. ASSUME NEW f
      PROVE  IterBody(p, f) = Visited(p) \o (IF node[x].child # NoNode THEN f[down]
                                             ELSE IF T = {} THEN <<>> ELSE f[up])
  BY <1>1, <1>2, <1>3 DEF IterBody, Visited
<1>5. ASSUME T # {} PROVE k \in T /\ \A j \in T : j <= k
  <2>1. T \in SUBSET Nat /\ \A j \in T : j <= n
    BY <1>1
  <2> HIDE DEF T, n
  <2>2. \E m \in T : \A j \in T : j <= m
    BY <1>1, <1>5, <2>1, GreatestNat
  <2>3. \E m \in T : \A j \in T : m >= j
    BY <2>1, <2>2
  <2>4. k \in T /\ \A j \in T : k >= j
    BY <2>3 DEF Max
  <2> QED
    BY <2>1, <2>4
<1>6. \A j \in 1 .. n : j \in T <=> node[p[j]].next # NoNode
  BY <1>1
<1>7. T \subseteq 1 .. n
  BY <1>1
<1>8. Append(p, node[x].child) = down
  OBVIOUS
<1> HIDE DEF T, k, up
<1>9. CASE node[x].child # NoNode
  <2>1. node[x].child \in used
    BY <1>1, <1>3, <1>9
  <2>2. /\ down \in Seq(used) /\ down # <<>> /\ Len(down) = n + 1
        /\ (\A j \in 1 .. n : down[j] = p[j]) /\ down[n + 1] = node[x].child
    BY <1>1, <2>1, AppendProperties
  <2>3. down \in Strides /\ n + 1 - 1 = n /\ n + 1 \in 1 .. n + 1 /\ ~(n + 1 <= n)
        /\ n + 1 + 1 .. n = {}
    BY <1>1, <2>2 DEF Strides
  <2> HIDE DEF down
  <2>4. GoesTo(p, down, n + 1)
    BY <2>2, <2>3 DEF GoesTo
  <2>5. \A f : IterBody(p, f) = Visited(p) \o f[down]
    BY <1>4, <1>9
  <2> QED
    BY <2>4, <2>5
<1>10. CASE node[x].child = NoNode /\ T = {}
  <2>1. AtEnd(p)
    BY <1>6, <1>10 DEF AtEnd
  <2>2. \A f : IterBody(p, f) = Visited(p) \o <<>>
    BY <1>4, <1>10
  <2> QED
    BY <2>1, <2>2
<1>11. CASE node[x].child = NoNode /\ T # {}
  <2>1. k \in 1 .. n /\ k \in T /\ \A j \in T : j <= k
    BY <1>5, <1>7, <1>11
  <2> DEFINE y == node[p[k]].next
             s == SubSeq(p, 1, k - 1)
  <2>2. y \in used /\ up = Append(s, y)
    BY <1>1, <1>3, <1>6, <2>1 DEF up
  <2>3. s \in Seq(used) /\ Len(s) = k - 1 /\ \A j \in 1 .. k - 1 : s[j] = p[j]
    <3>1. \A j \in 1 .. k - 1 : p[j] \in used
      BY <1>1, <2>1
    <3>2. k - 1 \in Int
      BY <2>1
    <3>3. /\ s \in Seq(used) /\ Len(s) = IF 1 <= k - 1 THEN k - 1 - 1 + 1 ELSE 0
          /\ \A j \in 1 .. k - 1 - 1 + 1 : s[j] = p[1 + j - 1]
      BY <3>1, <3>2, SubSeqProperties
    <3> HIDE DEF s
    <3>4. Len(s) = k - 1
      BY <1>1, <2>1, <3>3
    <3>5. ASSUME NEW j \in 1 .. k - 1 PROVE s[j] = p[j]
      <4>1. j \in 1 .. k - 1 - 1 + 1 /\ 1 + j - 1 = j
        BY <2>1
      <4> QED
        BY <3>3, <4>1
    <3> QED
      BY <3>3, <3>4, <3>5
  <2>4. y = node[p[k]].next
    OBVIOUS
  <2> HIDE DEF s, y
  <2>5. /\ up \in Seq(used) /\ up # <<>> /\ Len(up) = Len(s) + 1
        /\ (\A j \in 1 .. Len(s) : up[j] = s[j]) /\ up[Len(s) + 1] = y
    BY <2>2, <2>3, AppendProperties
  <2>6. k - 1 + 1 = k /\ k \in Nat
    BY <1>1, <2>1
  <2>7. Len(up) = k /\ (\A j \in 1 .. k - 1 : up[j] = p[j]) /\ up[k] = y /\ up \in Strides
    BY <2>3, <2>5, <2>6 DEF Strides
  <2>8. ASSUME NEW j \in k + 1 .. n PROVE node[p[j]].next = NoNode
    <3>1. j \in 1 .. n /\ ~(j <= k)
      BY <1>1, <2>1
    <3> QED
      BY <1>6, <2>1, <3>1
  <2>9. k \in 1 .. n + 1 /\ k # n + 1
    BY <1>1, <2>1
  <2>10. GoesTo(p, up, k)
    BY <1>11, <2>4, <2>7, <2>8, <2>9 DEF GoesTo
  <2>11. \A f : IterBody(p, f) = Visited(p) \o f[up]
    BY <1>4, <1>11
  <2> QED
    BY <2>10, <2>11
<1> QED
  BY <1>9, <1>10, <1>11

\* What is added up for a stride: what is below the later siblings of its nodes, ...
Weights(W, p) == [j \in Nat |-> IF j \in 1 .. Len(p) THEN W[node[p[j]].next] ELSE 0]

\* ... and below the last of them.
Ahead(W, p) == W[node[p[Len(p)]].child] + Sums(Weights(W, p))[Len(p)]

(***************************************************************************)
(* What is ahead are numbers.                                              *)
(***************************************************************************)
LEMMA AheadNat ==
  ASSUME NEW at, NEW rank, NEW from, Shape(node, used, root, at, rank, from), NEW W, Weighs(W),
         NEW p \in Strides
  PROVE  /\ Weights(W, p) \in [Nat -> Nat] /\ AddsUp(Sums(Weights(W, p)), Weights(W, p))
         /\ Ahead(W, p) \in Nat
<1>1. /\ Len(p) \in Nat /\ \A j \in 1 .. Len(p) : p[j] \in used /\ p[j] \in Index
      /\ p[Len(p)] \in Index
  BY StrideNodes
<1>2. ASSUME NEW j \in Nat PROVE Weights(W, p)[j] \in Nat
  <2>1. CASE j \in 1 .. Len(p)
    <3>1. node[p[j]].next \in Link
      BY <1>1, <2>1, LinksDown
    <3> QED
      BY <2>1, <3>1 DEF Weights, Weighs
  <2>2. CASE j \notin 1 .. Len(p)
    BY <2>2 DEF Weights
  <2> QED
    BY <2>1, <2>2
<1>3. Weights(W, p) \in [Nat -> Nat]
  <2>1. \E v : Weights(W, p) = [j \in Nat |-> v[j]]
    <3>1. Weights(W, p) = [j \in Nat |-> Weights(W, p)[j]]
      BY DEF Weights
    <3> QED
      BY <3>1
  <2> QED
    BY <1>2, <2>1
<1>4. AddsUp(Sums(Weights(W, p)), Weights(W, p))
  BY <1>3, SumsAddUp
<1>5. W[node[p[Len(p)]].child] \in Nat
  <2>1. node[p[Len(p)]].child \in Link
    BY <1>1, LinksDown
  <2> QED
    BY <2>1 DEF Weighs
<1>6. Sums(Weights(W, p))[Len(p)] \in Nat
  BY <1>1, <1>4 DEF AddsUp
<1>7. Ahead(W, p) \in Nat
  <2> DEFINE a == W[node[p[Len(p)]].child]
             b == Sums(Weights(W, p))[Len(p)]
  <2>1. a \in Nat /\ b \in Nat /\ Ahead(W, p) = a + b
    BY <1>5, <1>6 DEF Ahead
  <2> HIDE DEF a, b
  <2> QED
    BY <2>1
<1> QED
  BY <1>3, <1>4, <1>7

(***************************************************************************)
(* With every step there is less ahead.                                    *)
(***************************************************************************)
LEMMA AheadFalls ==
  ASSUME NEW at, NEW rank, NEW from, Shape(node, used, root, at, rank, from), NEW W, Weighs(W),
         NEW p \in Strides, NEW q, NEW k, GoesTo(p, q, k)
  PROVE  Ahead(W, q) < Ahead(W, p)
<1> DEFINE n == Len(p)
           u == Weights(W, p)
           v == Weights(W, q)
           y == q[k]
           a == Sums(u)[k - 1]
           d == W[node[p[n]].child]
           e == W[node[y].next]
           f == W[node[y].child]
<1>1. q \in Strides /\ k \in 1 .. n + 1 /\ Len(q) = k /\ \A j \in 1 .. k - 1 : q[j] = p[j]
  BY DEF GoesTo
<1>2. /\ n \in Nat /\ n > 0 /\ y \in Index /\ p[n] \in Index
      /\ \A j \in 1 .. n : p[j] \in Index
  BY <1>1, StrideNodes
<1>3. /\ u \in [Nat -> Nat] /\ AddsUp(Sums(u), u) /\ v \in [Nat -> Nat] /\ AddsUp(Sums(v), v)
  BY <1>1, AheadNat
<1>4. \A j \in 1 .. n : u[j] = W[node[p[j]].next]
  BY <1>2 DEF Weights
<1>5. \A j \in 1 .. k : v[j] = W[node[q[j]].next]
  BY <1>1, <1>2 DEF Weights
<1>6. Ahead(W, p) = d + Sums(u)[n] /\ Ahead(W, q) = f + Sums(v)[k]
  BY <1>1 DEF Ahead
<1>7. d \in Nat /\ e \in Nat /\ f \in Nat /\ W[y] = 1 + e + f /\ W[NoNode] = 0
  BY <1>2, LinksDown DEF Weighs
<1>8. k - 1 \in Nat /\ k \in Nat /\ k - 1 + 1 = k
  BY <1>1
<1>9. k <= n => W[y] = u[k] /\ d = 0
  <2> SUFFICES ASSUME k <= n PROVE W[y] = u[k] /\ d = 0
    OBVIOUS
  <2>1. y = node[p[k]].next /\ node[p[n]].child = NoNode /\ k \in 1 .. n
    BY <1>1, <1>2, <1>8 DEF GoesTo
  <2> QED
    BY <1>4, <1>7, <2>1
<1>10. k = n + 1 => W[y] = d
  BY <1>1 DEF GoesTo
<1>11. \A j \in k + 1 .. n : u[j] = 0
  <2> SUFFICES ASSUME NEW j \in k + 1 .. n PROVE u[j] = 0
    OBVIOUS
  <2>1. j \in 1 .. n
    BY <1>1, <1>2
  <2>2. node[p[j]].next = NoNode
    BY DEF GoesTo
  <2> QED
    BY <1>4, <1>7, <2>1, <2>2
<1>12. \A j \in 1 .. k - 1 : v[j] = u[j]
  <2> SUFFICES ASSUME NEW j \in 1 .. k - 1 PROVE v[j] = u[j]
    OBVIOUS
  <2>1. j \in 1 .. n /\ j \in 1 .. k /\ q[j] = p[j]
    BY <1>1, <1>2
  <2> QED
    BY <1>4, <1>5, <2>1
<1>13. v[k] = e
  <2>1. k \in 1 .. k
    BY <1>1
  <2> QED
    BY <1>5, <2>1
<1> HIDE DEF n, u, v, y, d, e, f
<1>14. Sums(v)[k - 1] = a
  BY <1>3, <1>8, <1>12, SumsAgree
<1>15. Sums(v)[k] = a + e /\ a \in Nat
  BY <1>3, <1>8, <1>13, <1>14 DEF AddsUp
<1>16. Ahead(W, q) = f + (a + e)
  BY <1>6, <1>15
<1>17. CASE k <= n
  <2>1. Sums(u)[n] = Sums(u)[k]
    BY <1>2, <1>3, <1>8, <1>11, <1>17, SumsStop
  <2>2. Sums(u)[k] = a + u[k]
    BY <1>3, <1>8 DEF AddsUp
  <2> HIDE DEF a
  <2>3. Ahead(W, p) = 0 + (a + (1 + e + f))
    BY <1>6, <1>7, <1>9, <1>17, <2>1, <2>2
  <2> QED
    BY <1>7, <1>15, <1>16, <2>3
<1>18. CASE k = n + 1
  <2>1. k - 1 = n
    BY <1>2, <1>18
  <2>2. Sums(u)[n] = a
    BY <2>1
  <2> HIDE DEF a
  <2>3. Ahead(W, p) = (1 + e + f) + a
    BY <1>6, <1>7, <1>10, <1>18, <2>2
  <2> QED
    BY <1>7, <1>15, <1>16, <2>3
<1> QED
  BY <1>1, <1>2, <1>17, <1>18

(***************************************************************************)
(* FlattenSeq puts sequences behind one another.                           *)
(***************************************************************************)
LEMMA FlattenIs ==
  ASSUME NEW S, NEW s \in Seq(Seq(S)), s # <<>>
  PROVE  \E f \in [1 .. Len(s) -> Seq(S)] :
           /\ f[1] = s[1]
           /\ \A i \in 1 .. Len(s) - 1 : f[i + 1] = f[i] \o s[i + 1]
           /\ FlattenSeq(s) = f[Len(s)]
<1> DEFINE n == Len(s)
           D == 1 .. n
           B(i, f) == IF i = 1 THEN s[i] ELSE f[i - 1] \o s[i]
           m == [i \in D |-> i]
           F == [q \in D \X [D -> Seq(S)] |-> B(q[1], q[2])]
<1>1. n \in Nat /\ n > 0 /\ \A i \in D : s[i] \in Seq(S)
  BY EmptySeq
<1>2. m \in [D -> Nat]
  OBVIOUS
<1>3. \A i \in D : i # 1 => i - 1 \in D
  BY <1>1
<1>4. F \in [D \X [D -> Seq(S)] -> Seq(S)]
  <2> SUFFICES ASSUME NEW i \in D, NEW f \in [D -> Seq(S)] PROVE B(i, f) \in Seq(S)
    OBVIOUS
  <2>1. s[i] \in Seq(S) /\ (i # 1 => f[i - 1] \in Seq(S))
    BY <1>1, <1>3
  <2> HIDE DEF D
  <2> QED
    BY <2>1, ConcatProperties
<1>5. LooksBelow(D, Seq(S), m, F)
  <2> SUFFICES ASSUME NEW i \in D, NEW g \in [D -> Seq(S)], NEW h \in [D -> Seq(S)],
                      \A k \in D : m[k] < m[i] => g[k] = h[k]
               PROVE  B(i, g) = B(i, h)
    BY DEF LooksBelow
  <2>1. i # 1 => i - 1 \in D /\ i - 1 < i
    BY <1>3
  <2>2. i # 1 => g[i - 1] = h[i - 1]
    BY <2>1
  <2> QED
    BY <2>2
<1>6. Solvable(D, Seq(S), F)
  <2>1. Seq(S) # {}
    BY <1>1
  <2> HIDE DEF m, F, D
  <2> QED
    BY <1>2, <1>4, <1>5, <2>1, RecursionSolved, Zenon
<1>7. \E g : g = [i \in D |-> B(i, g)]
  <2>1. PICK g \in [D -> Seq(S)] : \A i \in D : g[i] = F[<<i, g>>]
    BY <1>6 DEF Solvable
  <2>2. \A i \in D : g[i] = B(i, g)
    BY <2>1
  <2> HIDE DEF D, F
  <2>3. g = [i \in D |-> B(i, g)]
    BY <2>1, <2>2
  <2> QED
    BY <2>3
<1> DEFINE f == CHOOSE g : g = [i \in D |-> B(i, g)]
<1>8. f = [i \in D |-> B(i, f)]
  BY <1>7
<1>9. FlattenSeq(s) = f[n]
  BY <1>1 DEF FlattenSeq
<1> HIDE DEF f
<1>10. \A i \in D : f[i] = B(i, f)
  BY <1>8
<1>11. f[1] = s[1]
  BY <1>1, <1>10
<1>12. \A i \in 1 .. n - 1 : f[i + 1] = f[i] \o s[i + 1]
  <2> SUFFICES ASSUME NEW i \in 1 .. n - 1 PROVE f[i + 1] = f[i] \o s[i + 1]
    OBVIOUS
  <2> DEFINE k == i + 1
  <2>1. k \in D /\ k # 1 /\ k - 1 = i
    BY <1>1
  <2> HIDE DEF k
  <2>2. f[k] = f[k - 1] \o s[k]
    BY <1>10, <2>1
  <2>3. f[k] = f[i] \o s[k]
    BY <2>1, <2>2
  <2> QED
    BY <2>3 DEF k
<1> DEFINE T == {i \in Nat : i + 1 \in D => f[i + 1] \in Seq(S)}
<1>13. 0 \in T
  BY <1>1, <1>11
<1>14. ASSUME NEW i \in T PROVE i + 1 \in T
  <2> SUFFICES ASSUME i + 1 + 1 \in D PROVE f[i + 1 + 1] \in Seq(S)
    OBVIOUS
  <2>1. i + 1 \in 1 .. n - 1 /\ i + 1 \in D
    BY <1>1
  <2>2. f[i + 1] \in Seq(S) /\ s[i + 1 + 1] \in Seq(S)
    BY <1>1, <2>1
  <2>3. f[i + 1 + 1] = f[i + 1] \o s[i + 1 + 1]
    BY <1>12, <2>1
  <2> QED
    BY <2>2, <2>3, ConcatProperties
<1>15. T = Nat
  <2>1. T \in SUBSET Nat
    OBVIOUS
  <2> HIDE DEF T
  <2> QED
    BY <1>13, <1>14, <2>1, NatInduct
<1>16. \A i \in D : f[i] \in Seq(S)
  <2> SUFFICES ASSUME NEW i \in D PROVE f[i] \in Seq(S)
    OBVIOUS
  <2>1. i - 1 \in Nat /\ i - 1 + 1 = i
    BY <1>1
  <2>2. i - 1 \in T
    BY <1>15, <2>1
  <2> QED
    BY <2>1, <2>2
<1>17. f \in [D -> Seq(S)]
  <2> HIDE DEF D
  <2> QED
    BY <1>8, <1>16
<1> QED
  BY <1>9, <1>11, <1>12, <1>17

(***************************************************************************)
(* Concatenation is associative.                                           *)
(***************************************************************************)
LEMMA ConcatNested ==
  ASSUME NEW s \in Seq(Nat), NEW t \in Seq(Nat), NEW u \in Seq(Nat)
  PROVE  (s \o t) \o u = s \o (t \o u)
BY ConcatAssociative

\* The first node of p begins the words, and each has the word of the one before it
\* before its character.
Hangs(at, p) ==
  /\ at[p[1]] = <<>>
  /\ \A j \in 1 .. Len(p) - 1 : at[p[j + 1]] = Word(node, at, p[j])

(***************************************************************************)
(* What the iterator puts together from the nodes of a stride is the word  *)
(* that ends with the last.                                                *)
(***************************************************************************)
LEMMA StrideWord ==
  ASSUME NEW at, NEW rank, NEW from, Shape(node, used, root, at, rank, from), NEW p \in Strides
  PROVE  /\ WordOf(p) \in Seq(Nat)
         /\ Hangs(at, p) => WordOf(p) = Word(node, at, p[Len(p)])
<1> DEFINE n == Len(p)
           Part(x) == <<node[x].c>> \o Piece(x)
           s == [j \in DOMAIN p |-> Part(p[j])]
<1>1. /\ n \in Nat /\ n > 0 /\ DOMAIN p = 1 .. n
      /\ \A j \in 1 .. n : p[j] \in used /\ p[j] \in Index
  BY StrideNodes
<1>2. ASSUME NEW x \in Index
      PROVE  /\ <<node[x].c>> \in Seq(Nat) /\ node[x].str \in Seq(Nat) /\ at[x] \in Seq(Nat)
             /\ Part(x) \in Seq(Nat) /\ Word(node, at, x) = at[x] \o Part(x)
  <2>1. node[x].c \in Nat /\ node[x].str \in Seq(Nat) /\ at[x] \in Seq(Nat)
    BY DEF Shape, Node
  <2>2. Piece(x) = node[x].str
    BY PieceIsStr
  <2>3. <<node[x].c>> \in Seq(Nat)
    BY <2>1
  <2>4. Part(x) \in Seq(Nat)
    BY <2>1, <2>2, <2>3, ConcatProperties
  <2>5. Word(node, at, x) = at[x] \o (<<node[x].c>> \o node[x].str)
    <3> DEFINE u == at[x]
               v == <<node[x].c>>
               w == node[x].str
    <3>1. u \in Seq(Nat) /\ v \in Seq(Nat) /\ w \in Seq(Nat) /\ Word(node, at, x) = u \o v \o w
      BY <2>1, <2>3 DEF Word
    <3> HIDE DEF u, v, w
    <3>2. (u \o v) \o w = u \o (v \o w)
      BY <3>1, ConcatNested
    <3> QED
      BY <3>1, <3>2 DEF u, v, w
  <2> QED
    BY <2>1, <2>2, <2>3, <2>4, <2>5
<1>3. \A j \in 1 .. n : s[j] = Part(p[j]) /\ Part(p[j]) \in Seq(Nat)
  BY <1>1, <1>2
<1>4. s = [j \in 1 .. n |-> s[j]]
  BY <1>1
<1>5. WordOf(p) = FlattenSeq(s)
  BY DEF WordOf
<1> HIDE DEF s, Part
<1>6. s \in Seq(Seq(Nat)) /\ Len(s) = n
  <2>1. s \in [1 .. n -> Seq(Nat)]
    BY <1>3, <1>4
  <2> QED
    BY <1>1, <2>1, LenProperties, IsASeq
<1>7. s # <<>>
  BY <1>1, <1>6
<1>8. \E f \in [1 .. n -> Seq(Nat)] :
        /\ f[1] = s[1]
        /\ \A i \in 1 .. n - 1 : f[i + 1] = f[i] \o s[i + 1]
        /\ FlattenSeq(s) = f[n]
  <2> HIDE DEF n
  <2>1. \E f \in [1 .. Len(s) -> Seq(Nat)] :
          /\ f[1] = s[1]
          /\ \A i \in 1 .. Len(s) - 1 : f[i + 1] = f[i] \o s[i + 1]
          /\ FlattenSeq(s) = f[Len(s)]
    BY <1>6, <1>7, FlattenIs
  <2> QED
    BY <1>6, <2>1
<1> PICK f \in [1 .. n -> Seq(Nat)] :
        /\ f[1] = s[1]
        /\ \A i \in 1 .. n - 1 : f[i + 1] = f[i] \o s[i + 1]
        /\ FlattenSeq(s) = f[n]
  BY <1>8
<1>9. WordOf(p) = f[n] /\ n \in 1 .. n
  BY <1>1, <1>5
<1>10. ASSUME Hangs(at, p) PROVE f[n] = Word(node, at, p[n])
  <2> DEFINE T == {i \in Nat : i + 1 <= n => f[i + 1] = Word(node, at, p[i + 1])}
  <2>1. 0 \in T
    <3>1. 1 \in 1 .. n /\ p[1] \in Index
      BY <1>1
    <3>2. Word(node, at, p[1]) = <<>> \o Part(p[1]) /\ Part(p[1]) \in Seq(Nat)
      BY <1>2, <1>10, <3>1 DEF Hangs
    <3>3. <<>> \o Part(p[1]) = Part(p[1])
      BY <3>2, ConcatEmptySeq
    <3>4. f[1] = Word(node, at, p[1])
      BY <1>3, <3>1, <3>2, <3>3
    <3> QED
      BY <3>4
  <2>2. ASSUME NEW i \in T PROVE i + 1 \in T
    <3> SUFFICES ASSUME i + 1 + 1 <= n PROVE f[i + 1 + 1] = Word(node, at, p[i + 1 + 1])
      OBVIOUS
    <3>1. i + 1 \in 1 .. n - 1 /\ i + 1 + 1 \in 1 .. n /\ f[i + 1] = Word(node, at, p[i + 1])
      BY <1>1
    <3>2. at[p[i + 1 + 1]] = Word(node, at, p[i + 1])
      BY <1>10, <3>1 DEF Hangs
    <3>3. Word(node, at, p[i + 1 + 1]) = at[p[i + 1 + 1]] \o Part(p[i + 1 + 1])
      BY <1>1, <1>2, <3>1
    <3>4. f[i + 1 + 1] = f[i + 1] \o s[i + 1 + 1]
      BY <3>1
    <3> QED
      BY <1>3, <3>1, <3>2, <3>3, <3>4
  <2>3. T = Nat
    <3>1. T \in SUBSET Nat
      OBVIOUS
    <3> HIDE DEF T
    <3> QED
      BY <2>1, <2>2, <3>1, NatInduct
  <2>4. n - 1 \in Nat /\ n - 1 + 1 = n
    BY <1>1
  <2>5. n - 1 \in T
    BY <2>3, <2>4
  <2> QED
    BY <1>1, <2>4, <2>5
<1> QED
  BY <1>9, <1>10

\* What the iterator hands out.
Listing == [word : Seq(Nat), data : Data \cup {NoData}]

(***************************************************************************)
(* The iterator is what its definition says.                               *)
(***************************************************************************)
LEMMA IterateUnfolds ==
  ASSUME NEW at, NEW rank, NEW from, Shape(node, used, root, at, rank, from)
  PROVE  \A p \in Strides :
           /\ Visited(p) \in Seq(Listing)
           /\ \/ AtEnd(p) /\ Iterate[p] = Visited(p)
              \/ \E q, k : GoesTo(p, q, k) /\ Iterate[p] = Visited(p) \o Iterate[q]
<1>1. PICK W : Weighs(W)
  BY WeightExists
<1> DEFINE m == [p \in Strides |-> Ahead(W, p)]
           F == [q \in Strides \X [Strides -> Seq(Listing)] |-> IterBody(q[1], q[2])]
<1>2. m \in [Strides -> Nat]
  <2>1. ASSUME NEW p \in Strides PROVE Ahead(W, p) \in Nat
    BY <1>1, AheadNat
  <2> QED
    BY <2>1
<1>3. ASSUME NEW p \in Strides PROVE Visited(p) \in Seq(Listing)
  <2>1. p[Len(p)] \in Index /\ Last(p) = p[Len(p)]
    BY StrideNodes
  <2>2. node[Last(p)].data \in Data \cup {NoData}
    BY <2>1 DEF Shape, Node
  <2>3. WordOf(p) \in Seq(Nat)
    BY StrideWord
  <2>4. [word |-> WordOf(p), data |-> node[Last(p)].data] \in Listing
    BY <2>2, <2>3 DEF Listing
  <2> QED
    BY <2>4 DEF Visited
<1>4. ASSUME NEW p \in Strides
      PROVE  \/ AtEnd(p) /\ \A f : IterBody(p, f) = Visited(p) \o <<>>
             \/ \E q, k : GoesTo(p, q, k) /\ \A f : IterBody(p, f) = Visited(p) \o f[q]
  BY StrideStep
<1>5. \A p \in Strides : \A q, k : GoesTo(p, q, k) => q \in Strides /\ m[q] < m[p]
  <2> SUFFICES ASSUME NEW p \in Strides, NEW q, NEW k, GoesTo(p, q, k)
               PROVE  q \in Strides /\ Ahead(W, q) < Ahead(W, p)
    BY DEF GoesTo
  <2> QED
    BY <1>1, AheadFalls DEF GoesTo
<1>6. F \in [Strides \X [Strides -> Seq(Listing)] -> Seq(Listing)]
  <2> SUFFICES ASSUME NEW p \in Strides, NEW f \in [Strides -> Seq(Listing)]
               PROVE  IterBody(p, f) \in Seq(Listing)
    OBVIOUS
  <2>1. CASE \A g : IterBody(p, g) = Visited(p) \o <<>>
    BY <1>3, <2>1, ConcatEmptySeq
  <2>2. ASSUME NEW q, NEW k, GoesTo(p, q, k), \A g : IterBody(p, g) = Visited(p) \o g[q]
        PROVE  IterBody(p, f) \in Seq(Listing)
    <3>1. f[q] \in Seq(Listing)
      BY <1>5, <2>2
    <3>2. Visited(p) \o f[q] \in Seq(Listing)
      BY <1>3, <3>1, ConcatProperties
    <3> QED
      BY <2>2, <3>2
  <2> QED
    BY <1>4, <2>1, <2>2
<1>7. LooksBelow(Strides, Seq(Listing), m, F)
  <2> SUFFICES ASSUME NEW p \in Strides, NEW g \in [Strides -> Seq(Listing)],
                      NEW h \in [Strides -> Seq(Listing)],
                      \A q \in Strides : m[q] < m[p] => g[q] = h[q]
               PROVE  IterBody(p, g) = IterBody(p, h)
    BY DEF LooksBelow
  <2> HIDE DEF m
  <2> QED
    BY <1>4, <1>5
<1>8. Solvable(Strides, Seq(Listing), F)
  <2>1. Seq(Listing) # {}
    <3>1. <<>> \in Seq(Listing)
      OBVIOUS
    <3> QED
      BY <3>1
  <2> HIDE DEF m, F
  <2> QED
    BY <1>2, <1>6, <1>7, <2>1, RecursionSolved, Zenon
<1>9. PICK f \in [Strides -> Seq(Listing)] : \A p \in Strides : f[p] = F[<<p, f>>]
  BY <1>8 DEF Solvable
<1>10. f = [p \in Strides |-> IterBody(p, f)]
  BY <1>9
<1>11. Iterate = CHOOSE g : g = [p \in Strides |-> IterBody(p, g)]
  BY DEF Iterate, IterBody, Strides
<1> HIDE DEF m, F
<1>12. Iterate = [p \in Strides |-> IterBody(p, Iterate)]
  BY <1>10, <1>11
<1>13. \A p \in Strides : Iterate[p] = IterBody(p, Iterate)
  BY <1>12
<1>14. ASSUME NEW p \in Strides
       PROVE  \/ AtEnd(p) /\ Iterate[p] = Visited(p)
              \/ \E q, k : GoesTo(p, q, k) /\ Iterate[p] = Visited(p) \o Iterate[q]
  <2>1. CASE AtEnd(p) /\ \A f1 : IterBody(p, f1) = Visited(p) \o <<>>
    BY <1>3, <1>13, <2>1, ConcatEmptySeq
  <2>2. CASE \E q, k : GoesTo(p, q, k) /\ \A f1 : IterBody(p, f1) = Visited(p) \o f1[q]
    BY <1>13, <2>2
  <2> QED
    BY <1>4, <2>1, <2>2
<1> QED
  BY <1>3, <1>14

\* What lies ahead of the iterator at p, and what it has still to list.
Pending(B, p) == B[node[p[Len(p)]].child] \cup UNION {B[node[p[j]].next] : j \in 1 .. Len(p)}
Coming(B, p)  == {p[Len(p)]} \cup Pending(B, p)

(***************************************************************************)
(* The way on leads to all that lies ahead.                                *)
(***************************************************************************)
LEMMA PendingStep ==
  ASSUME NEW at, NEW rank, NEW from, Shape(node, used, root, at, rank, from),
         NEW B, IsBelow(B, node), NEW p \in Strides
  PROVE  /\ AtEnd(p) => Pending(B, p) = {}
         /\ \A q, k : GoesTo(p, q, k) => Pending(B, p) = Coming(B, q)
<1>1. /\ Len(p) \in Nat /\ Len(p) > 0
      /\ \A j \in 1 .. Len(p) : p[j] \in used /\ p[j] \in Index
  BY StrideNodes
<1>2. B[NoNode] = {} /\ \A x \in Index : B[x] = {x} \cup B[node[x].next] \cup B[node[x].child]
  BY DEF IsBelow
<1>3. AtEnd(p) => Pending(B, p) = {}
  BY <1>2 DEF AtEnd, Pending
<1>4. ASSUME NEW q, NEW k, GoesTo(p, q, k) PROVE Pending(B, p) = Coming(B, q)
  <2> DEFINE n == Len(p)
             y == q[k]
             S == UNION {B[node[p[j]].next] : j \in 1 .. k - 1}
  <2>1. q \in Strides /\ k \in 1 .. n + 1 /\ Len(q) = k /\ \A j \in 1 .. k - 1 : q[j] = p[j]
    BY <1>4 DEF GoesTo
  <2>2. k \in Nat /\ k > 0 /\ 1 .. k = (1 .. k - 1) \cup {k} /\ n \in Nat
    BY <1>1, <2>1
  <2>3. y \in Index /\ B[y] = {y} \cup B[node[y].next] \cup B[node[y].child]
    BY <1>2, <2>1, StrideNodes
  <2>4. Coming(B, q) = {y} \cup B[node[y].child] \cup UNION {B[node[q[j]].next] : j \in 1 .. k}
    BY <2>1 DEF Coming, Pending
  <2>5. UNION {B[node[q[j]].next] : j \in 1 .. k} = S \cup B[node[y].next]
    BY <2>1, <2>2
  <2>6. Coming(B, q) = B[y] \cup S
    <3> HIDE DEF S, y
    <3> QED
      BY <2>3, <2>4, <2>5
  <2>7. CASE k = n + 1
    <3>1. y = node[p[n]].child /\ k - 1 = n
      BY <1>4, <2>2, <2>7 DEF GoesTo
    <3>2. Pending(B, p) = B[y] \cup S
      BY <3>1 DEF Pending
    <3> QED
      BY <2>6, <3>2
  <2>8. CASE k <= n
    <3>1. /\ y = node[p[k]].next /\ node[p[n]].child = NoNode
          /\ \A j \in k + 1 .. n : node[p[j]].next = NoNode
      BY <1>4, <2>8 DEF GoesTo
    <3>2. Pending(B, p) = UNION {B[node[p[j]].next] : j \in 1 .. n}
      BY <1>2, <3>1 DEF Pending
    <3>3. 1 .. n = (1 .. k - 1) \cup {k} \cup (k + 1 .. n)
      BY <2>2, <2>8
    <3>4. \A j \in k + 1 .. n : B[node[p[j]].next] = {}
      BY <1>2, <3>1
    <3> DEFINE A(j) == B[node[p[j]].next]
    <3>5. \A j \in k + 1 .. n : A(j) = {}
      BY <3>4
    <3>6. A(k) = B[y]
      BY <3>1
    <3>7. S = UNION {A(j) : j \in 1 .. k - 1} /\ Pending(B, p) = UNION {A(j) : j \in 1 .. n}
      BY <3>2
    <3> HIDE DEF A, y, S, n
    <3>8. Pending(B, p) = S \cup B[y]
      BY <3>3, <3>5, <3>6, <3>7
    <3> QED
      BY <2>6, <3>8
  <2> QED
    BY <2>1, <2>2, <2>7, <2>8
<1> QED
  BY <1>3, <1>4

(***************************************************************************)
(* The nodes of the next stride hang together as well.                     *)
(***************************************************************************)
LEMMA HangsOn ==
  ASSUME NEW at, NEW rank, NEW from, Shape(node, used, root, at, rank, from),
         NEW p \in Strides, Hangs(at, p), NEW q, NEW k, GoesTo(p, q, k)
  PROVE  Hangs(at, q)
<1> DEFINE n == Len(p)
<1>1. /\ n \in Nat /\ n > 0
      /\ \A j \in 1 .. n : p[j] \in used /\ p[j] \in Index
  BY StrideNodes
<1>2. q \in Strides /\ k \in 1 .. n + 1 /\ Len(q) = k /\ \A j \in 1 .. k - 1 : q[j] = p[j]
  BY DEF GoesTo
<1>3. q[k] \in used
  BY <1>2, StrideNodes
<1>4. q[k] # NoNode
  BY <1>3, NoNodeIsNone DEF Shape
<1>5. k <= n => at[q[k]] = at[p[k]]
  <2> SUFFICES ASSUME k <= n PROVE at[q[k]] = at[p[k]]
    OBVIOUS
  <2>1. q[k] = node[p[k]].next /\ p[k] \in used
    BY <1>1, <1>2 DEF GoesTo
  <2> QED
    BY <1>4, <2>1 DEF Shape, NextOf
<1>6. k = n + 1 => at[q[k]] = Word(node, at, p[n])
  <2> SUFFICES ASSUME k = n + 1 PROVE at[q[k]] = Word(node, at, p[n])
    OBVIOUS
  <2>1. q[k] = node[p[n]].child /\ p[n] \in used
    BY <1>1 DEF GoesTo
  <2> QED
    BY <1>4, <2>1 DEF Shape, ChildOf
<1>7. at[q[1]] = <<>>
  <2>1. CASE k = 1
    BY <1>1, <1>5, <2>1 DEF Hangs
  <2>2. CASE k # 1
    <3>1. 1 \in 1 .. k - 1
      BY <1>1, <1>2, <2>2
    <3> QED
      BY <1>2, <3>1 DEF Hangs
  <2> QED
    BY <2>1, <2>2
<1>8. ASSUME NEW j \in 1 .. k - 1 PROVE at[q[j + 1]] = Word(node, at, q[j])
  <2>1. q[j] = p[j]
    BY <1>2
  <2>2. CASE j + 1 = k
    <3>1. CASE k <= n
      <4>1. j \in 1 .. n - 1
        BY <1>1, <1>2, <2>2, <3>1
      <4>2. at[p[k]] = Word(node, at, p[j])
        BY <2>2, <4>1 DEF Hangs
      <4> QED
        BY <1>5, <2>1, <2>2, <3>1, <4>2
    <3>2. CASE k = n + 1
      <4>1. j = n
        BY <1>1, <1>2, <2>2, <3>2
      <4> QED
        BY <1>6, <2>1, <2>2, <3>2, <4>1
    <3> QED
      BY <1>1, <1>2, <3>1, <3>2
  <2>3. CASE j + 1 # k
    <3>1. j + 1 \in 1 .. k - 1 /\ j \in 1 .. n - 1
      BY <1>1, <1>2, <2>3
    <3>2. q[j + 1] = p[j + 1]
      BY <1>2, <3>1
    <3>3. at[p[j + 1]] = Word(node, at, p[j])
      BY <3>1 DEF Hangs
    <3> QED
      BY <2>1, <3>2, <3>3
  <2> QED
    BY <2>2, <2>3
<1> QED
  BY <1>2, <1>7, <1>8 DEF Hangs

(***************************************************************************)
(* The words of a stride begin one another.                                *)
(***************************************************************************)
LEMMA StrideBegins ==
  ASSUME NEW at, NEW rank, NEW from, Shape(node, used, root, at, rank, from),
         NEW p \in Strides, Hangs(at, p), NEW j \in 1 .. Len(p)
  PROVE  /\ Len(Word(node, at, p[j])) <= Len(Word(node, at, p[Len(p)]))
         /\ \A i \in 1 .. Len(Word(node, at, p[j])) :
              Word(node, at, p[Len(p)])[i] = Word(node, at, p[j])[i]
<1> DEFINE n == Len(p)
           w(i) == Word(node, at, p[i])
           l == Len(w(j))
           P(i) == l <= Len(w(i)) /\ \A h \in 1 .. l : w(i)[h] = w(j)[h]
           T == {i \in Nat : j + i <= n => P(j + i)}
<1>1. n \in Nat /\ \A i \in 1 .. n : p[i] \in Index
  BY StrideNodes
<1>2. \A i \in 1 .. n : WordIs(node, at, p[i])
  BY <1>1, WordParts
<1>3. \A i \in 1 .. n : w(i) \in Seq(Nat) /\ Len(w(i)) \in Nat
  BY <1>2 DEF WordIs
<1>4. ASSUME NEW i \in 1 .. n - 1
      PROVE  /\ Len(w(i)) <= Len(w(i + 1))
             /\ \A h \in 1 .. Len(w(i)) : w(i + 1)[h] = w(i)[h]
  <2>1. i \in 1 .. n /\ i + 1 \in 1 .. n
    BY <1>1
  <2>2. at[p[i + 1]] = w(i)
    BY DEF Hangs
  <2> DEFINE y == p[i + 1]
             u == w(i)
             v == w(i + 1)
  <2>3. WordIs(node, at, y) /\ Depth(at, y) = Len(u) /\ at[y] = u /\ v = Word(node, at, y)
    BY <1>2, <2>1, <2>2 DEF Depth
  <2>4. u \in Seq(Nat) /\ v \in Seq(Nat) /\ Len(u) \in Nat
    BY <1>3, <2>1
  <2> HIDE DEF y, u, v
  <2>5. Len(v) = Len(u) + 1 + Size(node, y) /\ Size(node, y) \in Nat
        /\ \A h \in 1 .. Len(u) : v[h] = u[h]
    BY <2>3 DEF WordIs
  <2>6. Len(u) <= Len(v)
    BY <2>4, <2>5
  <2> QED
    BY <2>5, <2>6 DEF u, v
<1> HIDE DEF w
<1>5. 0 \in T
  <2>1. l \in Nat /\ j + 0 = j
    BY <1>3
  <2> QED
    BY <2>1
<1>6. ASSUME NEW i \in T PROVE i + 1 \in T
  <2> SUFFICES ASSUME j + (i + 1) <= n PROVE P(j + (i + 1))
    OBVIOUS
  <2> DEFINE k == j + i
  <2>1. k \in 1 .. n - 1 /\ k \in 1 .. n /\ k + 1 \in 1 .. n /\ j + (i + 1) = k + 1 /\ P(k)
    BY <1>1
  <2> HIDE DEF k
  <2>2. l \in Nat /\ Len(w(k)) \in Nat /\ Len(w(k + 1)) \in Nat
    BY <1>3, <2>1
  <2>3. Len(w(k)) <= Len(w(k + 1)) /\ \A h \in 1 .. Len(w(k)) : w(k + 1)[h] = w(k)[h]
    BY <1>4, <2>1
  <2>4. l <= Len(w(k)) /\ \A h \in 1 .. l : w(k)[h] = w(j)[h]
    BY <2>1
  <2> DEFINE a == Len(w(k))
             b == Len(w(k + 1))
  <2> HIDE DEF l, a, b
  <2>5. l <= b /\ \A h \in 1 .. l : h \in 1 .. a
    BY <2>2, <2>3, <2>4 DEF a, b
  <2>6. \A h \in 1 .. l : w(k + 1)[h] = w(j)[h]
    BY <2>3, <2>4, <2>5 DEF a
  <2>7. l <= Len(w(k + 1))
    BY <2>5 DEF b
  <2>8. P(k + 1)
    BY <2>6, <2>7
  <2> QED
    BY <2>1, <2>8
<1>7. T = Nat
  <2>1. T \in SUBSET Nat
    OBVIOUS
  <2> HIDE DEF T
  <2> QED
    BY <1>5, <1>6, <2>1, NatInduct
<1>8. n - j \in Nat /\ j + (n - j) = n
  BY <1>1
<1>9. n - j \in T
  BY <1>7, <1>8
<1>10. P(n)
  <2> HIDE DEF P
  <2> QED
    BY <1>1, <1>8, <1>9
<1> QED
  BY <1>10 DEF w

(***************************************************************************)
(* A word is before another one that it begins, or that goes on with a     *)
(* greater character where they part.                                      *)
(***************************************************************************)
LEMMA BeforeBy ==
  ASSUME NEW v \in Seq(Nat), NEW w \in Seq(Nat), NEW n \in Nat, n <= Len(v), n < Len(w),
         \A j \in 1 .. n : v[j] = w[j], n = Len(v) \/ v[n + 1] < w[n + 1]
  PROVE  Before(v, w)
<1> DEFINE m == Common(v, w)
<1>1. Agree(v, w, m)
  BY CommonAgrees
<1> HIDE DEF m
<1>2. Len(v) \in Nat /\ Len(w) \in Nat
  OBVIOUS
<1>3. m \in Nat /\ m <= Len(v) /\ m <= Len(w)
  BY <1>1 DEF Agree
<1>4. ~(m < n)
  <2> SUFFICES ASSUME m < n PROVE FALSE
    OBVIOUS
  <2>1. m + 1 \in 1 .. n /\ m < Len(v) /\ m < Len(w)
    BY <1>2, <1>3
  <2>2. v[m + 1] # w[m + 1]
    BY <1>1, <2>1 DEF Agree
  <2> QED
    BY <2>1, <2>2
<1>5. ~(n < m)
  <2> SUFFICES ASSUME n < m PROVE FALSE
    OBVIOUS
  <2>1. n + 1 \in 1 .. m /\ n # Len(v) /\ n + 1 \in 1 .. Len(v)
    BY <1>2, <1>3
  <2>2. v[n + 1] = w[n + 1] /\ v[n + 1] \in Nat
    BY <1>1, <2>1 DEF Agree
  <2>3. v[n + 1] < w[n + 1]
    BY <2>1
  <2> QED
    BY <2>2, <2>3
<1>6. m = n
  BY <1>3, <1>4, <1>5
<1> QED
  BY <1>6 DEF Before, m

(***************************************************************************)
(* What lies ahead comes after where the iterator is.                      *)
(***************************************************************************)
LEMMA PendingAfter ==
  ASSUME NEW at, NEW rank, NEW from, Shape(node, used, root, at, rank, from),
         NEW B, IsBelow(B, node), NEW p \in Strides, Hangs(at, p), NEW y \in Pending(B, p)
  PROVE  y \in used /\ Before(Word(node, at, p[Len(p)]), Word(node, at, y))
<1> DEFINE n == Len(p)
           x == p[n]
           v == Word(node, at, x)
           w == Word(node, at, y)
<1>1. /\ n \in Nat /\ n > 0 /\ x \in used /\ x \in Index
      /\ \A j \in 1 .. n : p[j] \in used /\ p[j] \in Index
  BY StrideNodes
<1>2. B[NoNode] = {} /\ used \subseteq Index
  BY DEF IsBelow, Shape
<1>3. ASSUME NEW s \in used, y \in B[s]
      PROVE  y \in used /\ WordIs(node, at, y)
  <2>1. y \in used
    BY <1>3, BelowClosed
  <2> QED
    BY <1>2, <2>1, WordParts
<1>4. v \in Seq(Nat) /\ Len(v) \in Nat
  BY <1>1, WordParts DEF WordIs
<1>5. CASE y \in B[node[x].child]
  <2>1. node[x].child \in used
    BY <1>1, <1>2, <1>5, LinksDown
  <2>2. y \in used /\ w \in Seq(Nat)
    BY <1>3, <1>5, <2>1 DEF WordIs
  <2>3. Len(v) < Len(w) /\ \A j \in 1 .. Len(v) : w[j] = v[j]
    BY <1>1, <1>5, WordsBeside
  <2> HIDE DEF v, w
  <2>4. Before(v, w)
    <3> DEFINE l == Len(v)
    <3>1. l \in Nat /\ l <= Len(v) /\ l < Len(w) /\ l = Len(v) /\ \A j \in 1 .. l : v[j] = w[j]
      BY <1>4, <2>3
    <3> HIDE DEF l
    <3> QED
      BY <1>4, <2>2, <3>1, BeforeBy
  <2> QED
    BY <2>2, <2>4 DEF v, w
<1>6. ASSUME NEW j \in 1 .. n, y \in B[node[p[j]].next]
      PROVE  y \in used /\ Before(v, w)
  <2> DEFINE z == p[j]
             s == node[z].next
             u == Word(node, at, z)
             d == Depth(at, z)
  <2>1. z \in used /\ z \in Index
    BY <1>1
  <2>2. s \in used /\ at[s] = at[z]
    BY <1>2, <1>6, <2>1 DEF Shape, NextOf
  <2>3. y \in used /\ WordIs(node, at, y)
    BY <1>3, <1>6, <2>2
  <2>4. WordIs(node, at, z)
    BY <2>1, WordParts
  <2>5. WordBelow(node, at, s, y)
    BY <1>6, <2>2, BelowWords
  <2>6. Depth(at, s) = d
    BY <2>2 DEF Depth
  <2>7. d \in Nat /\ d < Len(w) /\ w \in Seq(Nat) /\ \A i \in 1 .. d : w[i] = at[z][i]
    BY <2>2, <2>3, <2>4, <2>5, <2>6 DEF WordBelow, WordIs
  <2>8. node[z].c < w[d + 1]
    BY <1>6, <2>1, WordsBeside
  <2>9. /\ u \in Seq(Nat) /\ Len(u) \in Nat /\ d < Len(u) /\ u[d + 1] = node[z].c
        /\ \A i \in 1 .. d : u[i] = at[z][i]
    <3>1. /\ u \in Seq(Nat) /\ Len(u) = d + 1 + Size(node, z) /\ Size(node, z) \in Nat
          /\ u[d + 1] = node[z].c /\ \A i \in 1 .. d : u[i] = at[z][i]
      BY <2>4 DEF WordIs
    <3> HIDE DEF u, d, z
    <3>2. d < Len(u) /\ Len(u) \in Nat
      BY <2>7, <3>1
    <3> QED
      BY <3>1, <3>2
  <2>10. Len(u) <= Len(v) /\ \A i \in 1 .. Len(u) : v[i] = u[i]
    BY StrideBegins
  <2> HIDE DEF u, d, z, s, v, w
  <2>11. d <= Len(v) /\ d + 1 \in 1 .. Len(u) /\ \A i \in 1 .. d : i \in 1 .. Len(u)
    <3> DEFINE a == Len(u)
               b == Len(v)
    <3>1. a \in Nat /\ b \in Nat /\ d \in Nat /\ d < a /\ a <= b
      BY <1>4, <2>7, <2>9, <2>10
    <3> HIDE DEF a, b
    <3>2. d <= b /\ d + 1 \in 1 .. a /\ \A i \in 1 .. d : i \in 1 .. a
      BY <3>1
    <3> QED
      BY <3>2 DEF a, b
  <2>12. \A i \in 1 .. d : v[i] = w[i]
    BY <2>7, <2>9, <2>10, <2>11
  <2>13. v[d + 1] < w[d + 1]
    BY <2>8, <2>9, <2>10, <2>11
  <2>14. Before(v, w)
    BY <1>4, <2>7, <2>11, <2>12, <2>13, BeforeBy
  <2> QED
    BY <2>3, <2>14
<1>7. y \in B[node[x].child] \/ \E j \in 1 .. n : y \in B[node[p[j]].next]
  BY DEF Pending
<1> QED
  BY <1>5, <1>6, <1>7

\* it lists the words that end with the nodes of Z, with their data, in order.
Lists(at, it, Z) ==
  /\ it \in Seq(Listing)
  /\ \A j \in 1 .. Len(it) : \E z \in Z :
       HasData(z) /\ it[j].word = Word(node, at, z) /\ it[j].data = node[z].data
  /\ \A z \in Z : HasData(z) => \E j \in 1 .. Len(it) :
       it[j].word = Word(node, at, z) /\ it[j].data = node[z].data
  /\ \A j \in 1 .. Len(it) - 1 : Before(it[j].word, it[j + 1].word)

(***************************************************************************)
(* A node before those that are listed goes in front.                      *)
(***************************************************************************)
LEMMA ListsMore ==
  ASSUME NEW at, NEW Z, NEW it, Lists(at, it, Z), NEW x, NEW e \in Listing,
         e.word = Word(node, at, x), e.data = node[x].data,
         \A z \in Z : Before(Word(node, at, x), Word(node, at, z))
  PROVE  /\ HasData(x) => Lists(at, <<e>> \o it, {x} \cup Z)
         /\ ~HasData(x) => Lists(at, <<>> \o it, {x} \cup Z)
<1>1. it \in Seq(Listing) /\ Len(it) \in Nat
  BY DEF Lists
<1>2. ASSUME ~HasData(x) PROVE Lists(at, <<>> \o it, {x} \cup Z)
  <2>1. <<>> \o it = it
    BY <1>1, ConcatEmptySeq
  <2>2. Lists(at, it, {x} \cup Z)
    BY <1>2 DEF Lists
  <2> QED
    BY <2>1, <2>2
<1>3. ASSUME HasData(x) PROVE Lists(at, <<e>> \o it, {x} \cup Z)
  <2> DEFINE s == <<e>>
             t == s \o it
             n == Len(it)
  <2>1. s \in Seq(Listing) /\ Len(s) = 1 /\ s[1] = e
    OBVIOUS
  <2> HIDE DEF s
  <2>2. /\ t \in Seq(Listing) /\ Len(t) = 1 + n
        /\ \A j \in 1 .. 1 + n : t[j] = IF j <= 1 THEN s[j] ELSE it[j - 1]
    <3>1. /\ t \in Seq(Listing) /\ Len(t) = Len(s) + n
          /\ \A j \in 1 .. Len(s) + n : t[j] = IF j <= Len(s) THEN s[j] ELSE it[j - Len(s)]
      <4> HIDE DEF n
      <4> QED
        BY <1>1, <2>1, ConcatProperties DEF n
    <3> HIDE DEF t, n
    <3> QED
      BY <2>1, <3>1
  <2> HIDE DEF t
  <2>3. t[1] = e /\ \A j \in 1 .. n : t[j + 1] = it[j]
    <3>1. 1 \in 1 .. 1 + n /\ 1 <= 1
      BY <1>1
    <3>2. t[1] = e
      BY <2>1, <2>2, <3>1
    <3>3. ASSUME NEW j \in 1 .. n PROVE t[j + 1] = it[j]
      <4>1. j + 1 \in 1 .. 1 + n /\ ~(j + 1 <= 1) /\ j + 1 - 1 = j
        BY <1>1
      <4> QED
        BY <2>2, <4>1
    <3> QED
      BY <3>2, <3>3
  <2>4. \A j \in 1 .. n : \E z \in Z :
          HasData(z) /\ it[j].word = Word(node, at, z) /\ it[j].data = node[z].data
    BY DEF Lists
  <2>5. \A j \in 1 .. 1 + n : j = 1 \/ (j - 1 \in 1 .. n /\ j - 1 + 1 = j)
    BY <1>1
  <2>6. ASSUME NEW j \in 1 .. 1 + n
        PROVE  \E z \in {x} \cup Z :
                 HasData(z) /\ t[j].word = Word(node, at, z) /\ t[j].data = node[z].data
    <3>1. CASE j = 1
      BY <1>3, <2>3, <3>1
    <3>2. CASE j # 1
      <4>1. j - 1 \in 1 .. n /\ t[j] = it[j - 1]
        BY <2>3, <2>5, <3>2
      <4> QED
        BY <2>4, <4>1
    <3> QED
      BY <3>1, <3>2
  <2>7. ASSUME NEW z \in {x} \cup Z, HasData(z)
        PROVE  \E j \in 1 .. 1 + n : t[j].word = Word(node, at, z) /\ t[j].data = node[z].data
    <3>1. CASE z = x
      <4>1. 1 \in 1 .. 1 + n
        BY <1>1
      <4> QED
        BY <2>3, <3>1, <4>1
    <3>2. CASE z \in Z
      <4>1. PICK j \in 1 .. n : it[j].word = Word(node, at, z) /\ it[j].data = node[z].data
        BY <2>7, <3>2 DEF Lists
      <4>2. j + 1 \in 1 .. 1 + n /\ t[j + 1] = it[j]
        BY <1>1, <2>3
      <4> QED
        BY <4>1, <4>2
    <3> QED
      BY <3>1, <3>2
  <2>8. ASSUME NEW j \in 1 .. n PROVE Before(t[j].word, t[j + 1].word)
    <3>1. t[j + 1] = it[j]
      BY <2>3
    <3>2. CASE j = 1
      <4>1. PICK z \in Z : it[j].word = Word(node, at, z)
        BY <2>4
      <4> QED
        BY <2>3, <3>1, <3>2, <4>1
    <3>3. CASE j # 1
      <4>1. j - 1 \in 1 .. n - 1 /\ j - 1 + 1 = j /\ j - 1 \in 1 .. n
        BY <1>1, <3>3
      <4>2. t[j] = it[j - 1]
        BY <2>3, <4>1
      <4>3. Before(it[j - 1].word, it[j - 1 + 1].word)
        BY <4>1 DEF Lists
      <4> QED
        BY <3>1, <4>1, <4>2, <4>3
    <3> QED
      BY <3>2, <3>3
  <2>9. 1 + n - 1 = n
    BY <1>1
  <2>10. Lists(at, t, {x} \cup Z)
    BY <2>2, <2>6, <2>7, <2>8, <2>9 DEF Lists
  <2> QED
    BY <2>10 DEF t, s
<1> QED
  BY <1>2, <1>3

(***************************************************************************)
(* From a stride on, the iterator lists what is coming.                    *)
(***************************************************************************)
LEMMA IterateLists ==
  ASSUME NEW at, NEW rank, NEW from, Shape(node, used, root, at, rank, from),
         NEW B, IsBelow(B, node), NEW p \in Strides, Hangs(at, p)
  PROVE  Lists(at, Iterate[p], Coming(B, p))
<1>1. PICK W : Weighs(W)
  BY WeightExists
<1> DEFINE Right(q) == Hangs(at, q) => Lists(at, Iterate[q], Coming(B, q))
           T == {n \in Nat : \A q \in Strides : Ahead(W, q) = n => Right(q)}
<1>2. \A q \in Strides : Ahead(W, q) \in Nat
  BY <1>1, AheadNat
<1>3. ASSUME NEW n \in Nat, \A k \in Nat : k < n => k \in T
      PROVE  n \in T
  <2> SUFFICES ASSUME NEW q \in Strides, Ahead(W, q) = n, Hangs(at, q)
               PROVE  Lists(at, Iterate[q], Coming(B, q))
    OBVIOUS
  <2> DEFINE x == q[Len(q)]
             e == [word |-> WordOf(q), data |-> node[x].data]
  <2>1. x \in used /\ x \in Index /\ Last(q) = x
    <3>1. /\ Len(q) \in Nat /\ Len(q) > 0 /\ Last(q) = x
          /\ \A j \in 1 .. Len(q) : q[j] \in used /\ q[j] \in Index
      BY StrideNodes
    <3>2. Len(q) \in 1 .. Len(q)
      BY <3>1
    <3> QED
      BY <3>1, <3>2
  <2>2. WordOf(q) \in Seq(Nat) /\ WordOf(q) = Word(node, at, x)
    BY StrideWord
  <2>3. node[x].data \in Data \cup {NoData}
    BY <2>1 DEF Shape, Node
  <2>4. e \in Listing /\ e.word = Word(node, at, x) /\ e.data = node[x].data
    BY <2>2, <2>3 DEF Listing
  <2>5. Visited(q) = IF HasData(x) THEN <<e>> ELSE <<>>
    BY <2>1 DEF Visited
  <2>6. \A z \in Pending(B, q) : Before(Word(node, at, x), Word(node, at, z))
    BY PendingAfter
  <2>7. Coming(B, q) = {x} \cup Pending(B, q)
    BY DEF Coming
  <2> HIDE DEF e, x
  <2>8. ASSUME NEW it, Lists(at, it, Pending(B, q))
        PROVE  Lists(at, Visited(q) \o it, Coming(B, q))
    <3> DEFINE P == Pending(B, q)
    <3>1. Coming(B, q) = {x} \cup P /\ Lists(at, it, P)
          /\ \A z \in P : Before(Word(node, at, x), Word(node, at, z))
      BY <2>6, <2>7, <2>8
    <3> HIDE DEF P
    <3>2. /\ HasData(x) => Lists(at, <<e>> \o it, {x} \cup P)
          /\ ~HasData(x) => Lists(at, <<>> \o it, {x} \cup P)
      BY <2>4, <3>1, ListsMore
    <3> QED
      BY <2>5, <3>1, <3>2
  <2>9. CASE AtEnd(q) /\ Iterate[q] = Visited(q)
    <3>1. Pending(B, q) = {}
      BY <2>9, PendingStep
    <3>2. <<>> \in Seq(Listing) /\ Len(<<>>) = 0
      OBVIOUS
    <3>3. Lists(at, <<>>, Pending(B, q))
      BY <3>1, <3>2 DEF Lists
    <3>4. Lists(at, Visited(q) \o <<>>, Coming(B, q))
      BY <2>8, <3>3
    <3>5. Visited(q) \o <<>> = Visited(q)
      <4>1. Visited(q) \in Seq(Listing)
        BY IterateUnfolds
      <4> QED
        BY <4>1, ConcatEmptySeq
    <3> QED
      BY <2>9, <3>4, <3>5
  <2>10. ASSUME NEW r, NEW k, GoesTo(q, r, k), Iterate[q] = Visited(q) \o Iterate[r]
         PROVE  Lists(at, Iterate[q], Coming(B, q))
    <3>1. r \in Strides
      BY <2>10 DEF GoesTo
    <3>2. Ahead(W, r) < n /\ Ahead(W, r) \in Nat
      BY <1>1, <1>2, <2>10, <3>1, AheadFalls
    <3>3. Hangs(at, r)
      BY <2>10, HangsOn
    <3>4. Lists(at, Iterate[r], Coming(B, r))
      <4>1. Ahead(W, r) \in T
        BY <1>3, <3>2
      <4> QED
        BY <3>1, <3>3, <4>1
    <3>5. Pending(B, q) = Coming(B, r)
      BY <2>10, PendingStep
    <3> QED
      BY <2>8, <2>10, <3>4, <3>5
  <2> QED
    BY <2>9, <2>10, IterateUnfolds
<1>4. T = Nat
  <2>1. T \in SUBSET Nat
    BY DEF T
  <2> HIDE DEF T
  <2> QED
    BY <1>3, <2>1, NatInductBelow
<1>5. Ahead(W, p) \in T
  BY <1>2, <1>4
<1> QED
  BY <1>5

(***************************************************************************)
(* The iterator lists the words that are in, in order.                     *)
(***************************************************************************)
LEMMA IterationLists ==
  ASSUME NEW at, NEW rank, NEW from, Shape(node, used, root, at, rank, from)
  PROVE  Lists(at, Iteration, used)
<1>1. PICK B : IsBelow(B, node)
  BY BelowExists
<1>2. B[root] = used
  BY <1>1, BelowAll
<1>3. CASE root = NoNode
  <2>1. used = {}
    BY <1>1, <1>2, <1>3 DEF IsBelow
  <2>2. <<>> \in Seq(Listing) /\ Len(<<>>) = 0
    OBVIOUS
  <2> QED
    BY <1>3, <2>1, <2>2 DEF Iteration, Lists
<1>4. CASE root # NoNode
  <2> DEFINE p == <<root>>
  <2>1. root \in used /\ root \in Index /\ at[root] = <<>>
    BY <1>4 DEF Shape
  <2>2. p \in Seq(used) /\ p # <<>> /\ Len(p) = 1 /\ p[1] = root
    BY <2>1
  <2> HIDE DEF p
  <2>3. p \in Strides /\ Hangs(at, p)
    BY <2>1, <2>2 DEF Strides, Hangs
  <2>4. Coming(B, p) = {root} \cup B[node[root].child] \cup B[node[root].next]
    BY <2>2 DEF Coming, Pending
  <2>5. Coming(B, p) = used
    BY <1>1, <1>2, <2>1, <2>4 DEF IsBelow
  <2>6. Iteration = Iterate[p]
    BY <1>4 DEF Iteration, p
  <2> QED
    BY <1>1, <2>3, <2>5, <2>6, IterateLists
<1> QED
  BY <1>3, <1>4

(***************************************************************************)
(* The iterator comes by every word that is in, once, with its data, in    *)
(* lexicographic order.                                                    *)
(***************************************************************************)
THEOREM TrieIterates == Spec => []IteratesInOrder
<1>1. TrieInv => IteratesInOrder
  <2> SUFFICES ASSUME TrieInv PROVE IteratesInOrder
    OBVIOUS
  <2> DEFINE it == Iteration
  <2>1. PICK at, rank, from : Shape(node, used, root, at, rank, from)
                              /\ Holds(node, used, at, kv)
    BY DEF TrieInv, Tree
  <2>2. Lists(at, it, used)
    BY <2>1, IterationLists
  <2> HIDE DEF it
  <2>3. DOMAIN it = 1 .. Len(it)
    BY <2>2 DEF Lists
  <2>4. ASSUME NEW j \in 1 .. Len(it)
        PROVE  it[j].word \in DOMAIN kv /\ it[j].data = kv[it[j].word]
    <3>1. PICK z \in used :
            HasData(z) /\ it[j].word = Word(node, at, z) /\ it[j].data = node[z].data
      BY <2>2 DEF Lists
    <3> QED
      BY <2>1, <3>1 DEF Holds, HasData
  <2>5. ASSUME NEW w \in DOMAIN kv
        PROVE  \E j \in 1 .. Len(it) : it[j].word = w /\ it[j].data = kv[w]
    <3>1. PICK z \in used : HasData(z) /\ w = Word(node, at, z) /\ kv[w] = node[z].data
      BY <2>1 DEF Holds, HasData
    <3> QED
      BY <2>2, <3>1 DEF Lists
  <2>6. {<<e.word, e.data>> : e \in Range(it)} = {<<w, kv[w]>> : w \in DOMAIN kv}
    <3>1. Range(it) = {it[j] : j \in 1 .. Len(it)}
      BY <2>3 DEF Range
    <3>2. ASSUME NEW j \in 1 .. Len(it)
          PROVE  <<it[j].word, it[j].data>> \in {<<w, kv[w]>> : w \in DOMAIN kv}
      BY <2>4
    <3>3. ASSUME NEW w \in DOMAIN kv
          PROVE  <<w, kv[w]>> \in {<<e.word, e.data>> : e \in Range(it)}
      BY <2>5, <3>1
    <3> QED
      BY <3>1, <3>2, <3>3
  <2>7. \A j \in 1 .. Len(it) - 1 : Before(it[j].word, it[j + 1].word)
    BY <2>2 DEF Lists
  <2> QED
    BY <2>6, <2>7 DEF IteratesInOrder, it
<1> QED
  BY <1>1, TrieKeepsInv, PTL

=============================================================================

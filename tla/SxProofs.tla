------------------------------ MODULE SxProofs ------------------------------
(***************************************************************************)
(* Proofs about Sx: what the reader of s-expressions holds while it reads  *)
(* any texts, in pieces of any lengths, with allocations that fail and     *)
(* collections in between.  A call is followed step by step with what is   *)
(* so within it, CallOK: the items are linked without a cycle and every    *)
(* link leads to what is there (Sound), the open lists are nested on the   *)
(* stack and cue is the last item of the innermost one (Holds), the        *)
(* buffers hold what is in them (Fits, Decodes).  The recursion over the   *)
(* bytes of a call is an iteration of Byte, so CallOK holds after it too;  *)
(* between two calls Inv is left of it.                                    *)
(***************************************************************************)
EXTENDS Sx, BasicProofs

-----------------------------------------------------------------------------
(* Items that are linked.                                                  *)

Kinds == {"NONE", "NUM", "LIST", "PLAIN", "SQ", "DQ"}
Numerals == {SetStr(NumText(str)).n : str \in Seq(Nat)}
Nodes == [kind : Kinds, next : Nat, lst : Nat, str : Seq(Nat), num : SUBSET Numerals]
Heaps == UNION {[D -> Nodes] : D \in SUBSET Nat}

\* A link leads to an item that is there, and newer.
Later(h, x, y) == y = Null \/ (y \in DOMAIN h /\ x < y)
Linked(h) ==
  /\ h \in Heaps /\ Null \notin DOMAIN h
  /\ \A x \in DOMAIN h : Later(h, x, h[x].next) /\ Later(h, x, h[x].lst)

\* No address is above m.
Below(h, m) == m \in Nat /\ \A x \in DOMAIN h : x <= m
Bounded(h) == \E m \in Nat : Below(h, m)

Places(h) == {Null} \cup DOMAIN h

\* The parts of an item are of their kinds.
LEMMA NodeParts ==
  ASSUME NEW h \in Heaps
  PROVE  /\ DOMAIN h \subseteq Nat /\ h = [x \in DOMAIN h |-> h[x]]
         /\ \A x \in DOMAIN h :
              /\ h[x] \in Nodes /\ h[x].next \in Nat /\ h[x].lst \in Nat
              /\ h[x].kind \in Kinds /\ h[x].str \in Seq(Nat) /\ h[x].num \in SUBSET Numerals
<1>1. PICK D \in SUBSET Nat : h \in [D -> Nodes]
  BY DEF Heaps
<1>2. ASSUME NEW x \in DOMAIN h
      PROVE  /\ h[x] \in Nodes /\ h[x].next \in Nat /\ h[x].lst \in Nat
             /\ h[x].kind \in Kinds /\ h[x].str \in Seq(Nat) /\ h[x].num \in SUBSET Numerals
  <2>1. h[x] \in Nodes
    BY <1>1
  <2> QED
    BY <2>1 DEF Nodes
<1> QED
  BY <1>1, <1>2

(***************************************************************************)
(* What the last item is.                                                  *)
(***************************************************************************)
LEMMA LastItemIs ==
  ASSUME NEW h, Linked(h), Bounded(h)
  PROVE  /\ LastItem(h, Null) = Null
         /\ \A x \in DOMAIN h :
              LastItem(h, x) = IF h[x].next = Null THEN x ELSE LastItem(h, h[x].next)
<1>0. h \in Heaps /\ Null \notin DOMAIN h /\ DOMAIN h \subseteq Nat
  BY NodeParts DEF Linked
<1> DEFINE D == Places(h)
<1>1. PICK m \in Nat : \A x \in DOMAIN h : x <= m
  BY DEF Bounded, Below
<1> DEFINE rank == [y \in D |-> IF y = Null THEN 0 ELSE m + 1 - y]
           F == [q \in D \X [D -> D] |->
                   IF q[1] = Null THEN Null ELSE IF h[q[1]].next = Null THEN q[1] ELSE q[2][h[q[1]].next]]
           Body(f) == [y \in D |-> IF y = Null THEN Null ELSE IF h[y].next = Null THEN y ELSE f[h[y].next]]
           last == CHOOSE f : f = Body(f)
<1>2. ASSUME NEW x \in DOMAIN h, h[x].next # Null
      PROVE  h[x].next \in DOMAIN h /\ h[x].next > x /\ h[x].next \in D
  BY <1>2 DEF Linked, Later, Places
<1>3. rank \in [D -> Nat]
  <2>1. ASSUME NEW y \in D PROVE (IF y = Null THEN 0 ELSE m + 1 - y) \in Nat
    BY <1>0, <1>1 DEF Places, Null
  <2> QED
    BY <2>1
<1>4. F \in [D \X [D -> D] -> D]
  <2>1. ASSUME NEW q \in D \X [D -> D]
        PROVE  (IF q[1] = Null THEN Null ELSE IF h[q[1]].next = Null THEN q[1] ELSE q[2][h[q[1]].next]) \in D
    <3>1. q[1] \in D /\ q[2] \in [D -> D] /\ Null \in D
      BY DEF Places
    <3>2. CASE q[1] = Null
      BY <3>1, <3>2
    <3>3. CASE q[1] # Null
      <4>1. q[1] \in DOMAIN h
        BY <3>1, <3>3 DEF Places
      <4> QED
        BY <1>2, <3>1, <3>3, <4>1
    <3> QED
      BY <3>2, <3>3
  <2> QED
    BY <2>1
<1>5. LooksBelow(D, D, rank, F)
  <2> SUFFICES ASSUME NEW a \in D, NEW f \in [D -> D], NEW g \in [D -> D],
                      \A y \in D : rank[y] < rank[a] => f[y] = g[y]
               PROVE  F[<<a, f>>] = F[<<a, g>>]
    BY DEF LooksBelow
  <2>1. CASE a = Null
    BY <2>1
  <2>2. CASE a # Null
    <3>1. a \in DOMAIN h
      BY <2>2 DEF Places
    <3>2. CASE h[a].next = Null
      BY <2>2, <3>2
    <3>3. CASE h[a].next # Null
      <4> DEFINE y == h[a].next
      <4>1. y \in DOMAIN h /\ y > a /\ y \in D /\ y # Null
        BY <1>2, <3>1, <3>3
      <4>2. y \in Nat /\ a \in Nat /\ y <= m /\ a <= m
        BY <1>0, <1>1, <3>1, <4>1
      <4>3. rank[y] = m + 1 - y /\ rank[a] = m + 1 - a
        BY <2>2, <4>1
      <4> HIDE DEF y
      <4>4. rank[y] < rank[a]
        BY <4>1, <4>2, <4>3
      <4>5. f[y] = g[y]
        BY <4>1, <4>4
      <4> QED
        BY <2>2, <3>3, <4>5 DEF y
    <3> QED
      BY <3>2, <3>3
  <2> QED
    BY <2>1, <2>2
<1>6. Solvable(D, D, F)
  <2>1. D # {}
    BY DEF Places
  <2> HIDE DEF D, F, rank
  <2> QED
    BY <1>3, <1>4, <1>5, <2>1, RecursionSolved
<1>7. PICK f \in [D -> D] : \A y \in D : f[y] = F[<<y, f>>]
  BY <1>6 DEF Solvable
<1>8. f = Body(f)
  BY <1>7
<1>9. last = Body(last)
  <2> HIDE DEF Body
  <2> QED
    BY <1>8
<1>10. \A y : LastItem(h, y) = last[y]
  BY DEF LastItem, Places
<1> HIDE DEF last
<1>11. last[Null] = Null
  BY <1>9 DEF Places
<1>12. ASSUME NEW x \in DOMAIN h
       PROVE  last[x] = IF h[x].next = Null THEN x ELSE last[h[x].next]
  <2>1. x \in D /\ x # Null
    BY <1>0 DEF Places
  <2> QED
    BY <1>9, <2>1
<1> QED
  BY <1>10, <1>11, <1>12

(***************************************************************************)
(* Induction along what is linked: from the last item to the first.        *)
(***************************************************************************)
LEMMA ByNext ==
  ASSUME NEW h, Linked(h), Bounded(h), NEW S,
         \A x \in DOMAIN h : (h[x].next = Null \/ h[x].next \in S) => x \in S
  PROVE  DOMAIN h \subseteq S
<1>1. PICK m \in Nat : \A x \in DOMAIN h : x <= m
  BY DEF Bounded, Below
<1>2. DOMAIN h \subseteq Nat
  BY NodeParts DEF Linked
<1> DEFINE T == {n \in Nat : \A x \in DOMAIN h : x + n = m => x \in S}
<1>3. ASSUME NEW n \in Nat, \A k \in Nat : k < n => k \in T
      PROVE  n \in T
  <2> SUFFICES ASSUME NEW x \in DOMAIN h, x + n = m PROVE x \in S
    OBVIOUS
  <2>1. CASE h[x].next = Null
    BY <2>1
  <2>2. CASE h[x].next # Null
    <3> DEFINE y == h[x].next
    <3>1. y \in DOMAIN h /\ x < y
      BY <2>2 DEF Linked, Later
    <3>2. y \in Nat /\ x \in Nat /\ y <= m
      BY <3>1, <1>1, <1>2
    <3> HIDE DEF y
    <3>3. m - y \in Nat /\ m - y < n /\ y + (m - y) = m
      BY <3>1, <3>2
    <3>4. y \in S
      BY <1>3, <3>1, <3>3
    <3> QED
      BY <3>4 DEF y
  <2> QED
    BY <2>1, <2>2
<1>4. T = Nat
  <2>1. T \in SUBSET Nat
    OBVIOUS
  <2> HIDE DEF T
  <2> QED
    BY <1>3, <2>1, NatInductBelow
<1> SUFFICES ASSUME NEW x \in DOMAIN h PROVE x \in S
  OBVIOUS
<1>5. x \in Nat /\ m - x \in Nat /\ x + (m - x) = m
  BY <1>1, <1>2
<1> QED
  BY <1>4, <1>5

(***************************************************************************)
(* Where the last item is: there, not before the first, with nothing       *)
(* linked behind it.                                                       *)
(***************************************************************************)
LEMMA LastItemPlace ==
  ASSUME NEW h, Linked(h), Bounded(h), NEW x \in DOMAIN h
  PROVE  /\ LastItem(h, x) \in DOMAIN h /\ LastItem(h, x) >= x
         /\ h[LastItem(h, x)].next = Null
<1> DEFINE S == {y \in DOMAIN h : /\ LastItem(h, y) \in DOMAIN h /\ LastItem(h, y) >= y
                                  /\ h[LastItem(h, y)].next = Null}
<1>0. DOMAIN h \subseteq Nat
  BY NodeParts DEF Linked
<1>1. ASSUME NEW y \in DOMAIN h, h[y].next = Null \/ h[y].next \in S
      PROVE  y \in S
  <2>0. LastItem(h, y) = IF h[y].next = Null THEN y ELSE LastItem(h, h[y].next)
    BY LastItemIs
  <2>1. CASE h[y].next = Null
    <3>1. y >= y
      BY <1>0
    <3> QED
      BY <2>0, <2>1, <3>1
  <2>2. CASE h[y].next # Null
    <3> DEFINE z == h[y].next
               l == LastItem(h, z)
    <3>1. z \in DOMAIN h /\ y < z /\ l \in DOMAIN h /\ l >= z /\ h[l].next = Null /\ LastItem(h, y) = l
      BY <1>1, <2>0, <2>2 DEF Linked, Later
    <3>2. y \in Nat /\ z \in Nat /\ l \in Nat
      BY <1>0, <3>1
    <3> HIDE DEF z, l
    <3>3. l >= y
      BY <3>1, <3>2
    <3> QED
      BY <3>1, <3>3
  <2> QED
    BY <2>1, <2>2
<1>2. DOMAIN h \subseteq S
  <2> HIDE DEF S
  <2> QED
    BY <1>1, ByNext
<1> QED
  BY <1>2

(***************************************************************************)
(* The last item is known from what is linked behind each.                 *)
(***************************************************************************)
LEMMA SameNext ==
  ASSUME NEW h, NEW g, Linked(h), Bounded(h), Linked(g), Bounded(g),
         \A x \in DOMAIN h : x \in DOMAIN g /\ g[x].next = h[x].next
  PROVE  \A x \in Places(h) : LastItem(g, x) = LastItem(h, x)
<1> DEFINE S == {y \in DOMAIN h : LastItem(g, y) = LastItem(h, y)}
<1>1. ASSUME NEW y \in DOMAIN h, h[y].next = Null \/ h[y].next \in S
      PROVE  y \in S
  <2>1. LastItem(h, y) = IF h[y].next = Null THEN y ELSE LastItem(h, h[y].next)
    BY LastItemIs
  <2>2. LastItem(g, y) = IF g[y].next = Null THEN y ELSE LastItem(g, g[y].next)
    BY LastItemIs
  <2> QED
    BY <1>1, <2>1, <2>2
<1>2. DOMAIN h \subseteq S
  <2> HIDE DEF S
  <2> QED
    BY <1>1, ByNext
<1>3. LastItem(h, Null) = Null /\ LastItem(g, Null) = Null
  BY LastItemIs
<1> QED
  BY <1>2, <1>3 DEF Places

(***************************************************************************)
(* When an item x is linked behind the last item c, x is the last one      *)
(* wherever c was.                                                         *)
(***************************************************************************)
LEMMA LinkedBehind ==
  ASSUME NEW h, NEW g, Linked(h), Bounded(h), Linked(g), Bounded(g),
         NEW c \in DOMAIN h, NEW x \in DOMAIN g, h[c].next = Null, g[c].next = x, g[x].next = Null,
         \A y \in DOMAIN h : y \in DOMAIN g /\ (y # c => g[y].next = h[y].next)
  PROVE  \A y \in Places(h) : LastItem(g, y) = IF LastItem(h, y) = c THEN x ELSE LastItem(h, y)
<1> DEFINE S == {y \in DOMAIN h : LastItem(g, y) = IF LastItem(h, y) = c THEN x ELSE LastItem(h, y)}
<1>0. Null \notin DOMAIN g /\ Null \notin DOMAIN h
  BY DEF Linked
<1>1. ASSUME NEW y \in DOMAIN h, h[y].next = Null \/ h[y].next \in S
      PROVE  y \in S
  <2>1. LastItem(h, y) = IF h[y].next = Null THEN y ELSE LastItem(h, h[y].next)
    BY LastItemIs
  <2>2. LastItem(g, y) = IF g[y].next = Null THEN y ELSE LastItem(g, g[y].next)
    BY LastItemIs
  <2>3. CASE y = c
    <3>1. LastItem(g, x) = x
      BY LastItemIs
    <3>2. LastItem(h, y) = c
      BY <2>1, <2>3
    <3>3. LastItem(g, y) = x
      BY <1>0, <2>2, <2>3, <3>1
    <3> QED
      BY <3>2, <3>3
  <2>4. CASE y # c
    <3>1. g[y].next = h[y].next
      BY <2>4
    <3>2. CASE h[y].next = Null
      BY <2>1, <2>2, <2>4, <3>1, <3>2
    <3>3. CASE h[y].next # Null
      BY <1>1, <2>1, <2>2, <3>1, <3>3
    <3> QED
      BY <3>2, <3>3
  <2> QED
    BY <2>3, <2>4
<1>2. DOMAIN h \subseteq S
  <2> HIDE DEF S
  <2> QED
    BY <1>1, ByNext
<1>3. LastItem(h, Null) = Null /\ LastItem(g, Null) = Null
  BY LastItemIs
<1> QED
  BY <1>0, <1>2, <1>3 DEF Places

Sound(h) == Linked(h) /\ Bounded(h)

\* h with one item more.
Grown(h, x, node) == [y \in DOMAIN h \cup {x} |-> IF y = x THEN node ELSE h[y]]

GrownBy(h, x, node, g) ==
  /\ DOMAIN g = DOMAIN h \cup {x} /\ x \notin DOMAIN h /\ g[x] = node
  /\ \A y \in DOMAIN h : g[y] = h[y]
  /\ Sound(g)

\* An item that nothing is linked to yet, at a new address.
Alone(node) == node \in Nodes /\ node.next = Null /\ node.lst = Null
Above(h, x) == x \in Nat /\ x # Null /\ \A y \in DOMAIN h : y < x

(***************************************************************************)
(* gc_new gives a new address.                                             *)
(***************************************************************************)
LEMMA FreshAbove ==
  ASSUME NEW h, Sound(h)
  PROVE  Above(h, Max({0} \cup DOMAIN h) + 1)
<1> DEFINE S == {0} \cup DOMAIN h
           top == Max(S)
<1>1. PICK m \in Nat : \A x \in DOMAIN h : x <= m
  BY DEF Sound, Bounded, Below
<1>2. DOMAIN h \subseteq Nat
  BY NodeParts DEF Sound, Linked
<1>3. S \in SUBSET Nat /\ S # {} /\ \A y \in S : y <= m
  BY <1>1, <1>2
<1>4. \E y \in S : \A z \in S : z <= y
  <2> HIDE DEF S
  <2> QED
    BY <1>3, GreatestNat
<1>5. \E y \in S : \A z \in S : y >= z
  <2> HIDE DEF S
  <2>1. PICK y \in S : \A z \in S : z <= y
    BY <1>4
  <2>2. \A z \in S : y >= z
    BY <1>3, <2>1
  <2> QED
    BY <2>2
<1>6. top \in S /\ \A z \in S : top >= z
  <2> HIDE DEF S
  <2> QED
    BY <1>5 DEF Max
<1> HIDE DEF top
<1>7. top \in Nat
  BY <1>3, <1>6
<1>8. ASSUME NEW y \in DOMAIN h PROVE y < top + 1
  BY <1>2, <1>6, <1>7
<1>9. top + 1 \in Nat /\ top + 1 # Null
  BY <1>7 DEF Null
<1> QED
  BY <1>8, <1>9 DEF Above, top

(***************************************************************************)
(* A new item leaves the heap sound.                                       *)
(***************************************************************************)
LEMMA GrownIs ==
  ASSUME NEW h, Sound(h), NEW x, Above(h, x), NEW node, Alone(node)
  PROVE  GrownBy(h, x, node, Grown(h, x, node))
<1> DEFINE g == Grown(h, x, node)
<1>0. h \in Heaps /\ Null \notin DOMAIN h /\ DOMAIN h \subseteq Nat
  BY NodeParts DEF Sound, Linked
<1>1. x \notin DOMAIN h
  <2> SUFFICES ASSUME x \in DOMAIN h PROVE FALSE
    OBVIOUS
  <2> QED
    BY <1>0 DEF Above
<1>2. /\ DOMAIN g = DOMAIN h \cup {x} /\ g[x] = node
      /\ \A y \in DOMAIN h : g[y] = h[y]
      /\ g = [y \in DOMAIN h \cup {x} |-> g[y]]
  BY <1>1 DEF Grown
<1> HIDE DEF g
<1>3. g \in Heaps
  <2>1. DOMAIN h \cup {x} \in SUBSET Nat
    BY <1>0 DEF Above
  <2>2. \A y \in DOMAIN h \cup {x} : g[y] \in Nodes
    <3>1. \A y \in DOMAIN h : h[y] \in Nodes
      BY <1>0, NodeParts
    <3> QED
      BY <1>2, <3>1 DEF Alone
  <2>3. g \in [DOMAIN h \cup {x} -> Nodes]
    BY <1>2, <2>2
  <2> QED
    BY <2>1, <2>3 DEF Heaps
<1>4. \A y \in DOMAIN g : Later(g, y, g[y].next) /\ Later(g, y, g[y].lst)
  <2> SUFFICES ASSUME NEW y \in DOMAIN g PROVE Later(g, y, g[y].next) /\ Later(g, y, g[y].lst)
    OBVIOUS
  <2>1. CASE y = x
    BY <1>2, <2>1 DEF Alone, Later
  <2>2. CASE y # x
    <3>1. y \in DOMAIN h /\ g[y] = h[y]
      BY <1>2, <2>2
    <3>2. Later(h, y, h[y].next) /\ Later(h, y, h[y].lst)
      BY <3>1 DEF Sound, Linked
    <3> QED
      BY <1>2, <3>1, <3>2 DEF Later
  <2> QED
    BY <2>1, <2>2
<1>5. Bounded(g)
  <2>1. x \in Nat /\ \A y \in DOMAIN g : y <= x
    <3>1. x \in Nat /\ x <= x
      BY DEF Above
    <3>2. ASSUME NEW y \in DOMAIN h PROVE y <= x
      <4>1. y < x /\ y \in Nat
        BY <1>0 DEF Above
      <4> QED
        BY <3>1, <4>1
    <3> QED
      BY <1>2, <3>1, <3>2
  <2> QED
    BY <2>1 DEF Bounded, Below
<1>6. Null \notin DOMAIN g
  BY <1>0, <1>2 DEF Above
<1> QED
  BY <1>1, <1>2, <1>3, <1>4, <1>5, <1>6 DEF GrownBy, Sound, Linked, g

\* g is h with x behind c, or first in c.
NextIs(h, c, x, g) ==
  /\ DOMAIN g = DOMAIN h /\ Sound(g) /\ g[c].next = x
  /\ \A y \in DOMAIN h : /\ g[y].kind = h[y].kind /\ g[y].str = h[y].str /\ g[y].lst = h[y].lst
                         /\ y # c => g[y] = h[y]
LstIs(h, c, x, g) ==
  /\ DOMAIN g = DOMAIN h /\ Sound(g) /\ g[c].lst = x
  /\ \A y \in DOMAIN h : /\ g[y].kind = h[y].kind /\ g[y].str = h[y].str /\ g[y].next = h[y].next
                         /\ y # c => g[y] = h[y]

(***************************************************************************)
(* What is linked to a newer item leaves the heap sound.                   *)
(***************************************************************************)
LEMMA NextSet ==
  ASSUME NEW h, Sound(h), NEW c \in DOMAIN h, NEW x \in DOMAIN h, c < x, NEW g,
         g = [h EXCEPT ![c].next = x]
  PROVE  NextIs(h, c, x, g)
<1>0. /\ h \in Heaps /\ Null \notin DOMAIN h /\ DOMAIN h \subseteq Nat
      /\ \A y \in DOMAIN h : h[y] \in Nodes
  BY NodeParts DEF Sound, Linked
<1> DEFINE node == [h[c] EXCEPT !.next = x]
<1>1. /\ DOMAIN g = DOMAIN h /\ g[c] = node /\ \A y \in DOMAIN h : y # c => g[y] = h[y]
      /\ g = [y \in DOMAIN h |-> g[y]]
  OBVIOUS
<1>2. /\ node \in Nodes /\ node.next = x /\ node.kind = h[c].kind
      /\ node.str = h[c].str /\ node.lst = h[c].lst
  <2>1. h[c] \in Nodes /\ x \in Nat
    BY <1>0
  <2> QED
    BY <2>1 DEF Nodes
<1> HIDE DEF node
<1>3. \A y \in DOMAIN h : g[y] \in Nodes
  BY <1>0, <1>1, <1>2
<1>4. g \in Heaps
  <2>1. g \in [DOMAIN h -> Nodes]
    BY <1>1, <1>3
  <2> QED
    BY <1>0, <2>1 DEF Heaps
<1>5. \A y \in DOMAIN g : Later(g, y, g[y].next) /\ Later(g, y, g[y].lst)
  <2> SUFFICES ASSUME NEW y \in DOMAIN h PROVE Later(g, y, g[y].next) /\ Later(g, y, g[y].lst)
    BY <1>1
  <2>1. Later(h, y, h[y].next) /\ Later(h, y, h[y].lst)
    BY DEF Sound, Linked
  <2>2. CASE y = c
    BY <1>1, <1>2, <2>1, <2>2 DEF Later
  <2>3. CASE y # c
    BY <1>1, <2>1, <2>3 DEF Later
  <2> QED
    BY <2>2, <2>3
<1>6. Bounded(g)
  BY <1>1 DEF Sound, Bounded, Below
<1>7. Sound(g)
  BY <1>0, <1>1, <1>4, <1>5, <1>6 DEF Sound, Linked
<1>8. ASSUME NEW y \in DOMAIN h
      PROVE  g[y].kind = h[y].kind /\ g[y].str = h[y].str /\ g[y].lst = h[y].lst
  BY <1>1, <1>2
<1> QED
  BY <1>1, <1>2, <1>7, <1>8 DEF NextIs

\* Linking a newer item as the first of a list leaves the heap sound.
LEMMA LstSet ==
  ASSUME NEW h, Sound(h), NEW c \in DOMAIN h, NEW x \in DOMAIN h, c < x, NEW g,
         g = [h EXCEPT ![c].lst = x]
  PROVE  LstIs(h, c, x, g)
<1>0. /\ h \in Heaps /\ Null \notin DOMAIN h /\ DOMAIN h \subseteq Nat
      /\ \A y \in DOMAIN h : h[y] \in Nodes
  BY NodeParts DEF Sound, Linked
<1> DEFINE node == [h[c] EXCEPT !.lst = x]
<1>1. /\ DOMAIN g = DOMAIN h /\ g[c] = node /\ \A y \in DOMAIN h : y # c => g[y] = h[y]
      /\ g = [y \in DOMAIN h |-> g[y]]
  OBVIOUS
<1>2. /\ node \in Nodes /\ node.lst = x /\ node.kind = h[c].kind
      /\ node.str = h[c].str /\ node.next = h[c].next
  <2>1. h[c] \in Nodes /\ x \in Nat
    BY <1>0
  <2> QED
    BY <2>1 DEF Nodes
<1> HIDE DEF node
<1>3. \A y \in DOMAIN h : g[y] \in Nodes
  BY <1>0, <1>1, <1>2
<1>4. g \in Heaps
  <2>1. g \in [DOMAIN h -> Nodes]
    BY <1>1, <1>3
  <2> QED
    BY <1>0, <2>1 DEF Heaps
<1>5. \A y \in DOMAIN g : Later(g, y, g[y].next) /\ Later(g, y, g[y].lst)
  <2> SUFFICES ASSUME NEW y \in DOMAIN h PROVE Later(g, y, g[y].next) /\ Later(g, y, g[y].lst)
    BY <1>1
  <2>1. Later(h, y, h[y].next) /\ Later(h, y, h[y].lst)
    BY DEF Sound, Linked
  <2>2. CASE y = c
    BY <1>1, <1>2, <2>1, <2>2 DEF Later
  <2>3. CASE y # c
    BY <1>1, <2>1, <2>3 DEF Later
  <2> QED
    BY <2>2, <2>3
<1>6. Bounded(g)
  BY <1>1 DEF Sound, Bounded, Below
<1>7. Sound(g)
  BY <1>0, <1>1, <1>4, <1>5, <1>6 DEF Sound, Linked
<1>8. ASSUME NEW y \in DOMAIN h
      PROVE  g[y].kind = h[y].kind /\ g[y].str = h[y].str /\ g[y].next = h[y].next
  BY <1>1, <1>2
<1> QED
  BY <1>1, <1>2, <1>7, <1>8 DEF LstIs

-----------------------------------------------------------------------------
(* The open lists.                                                         *)

\* The first item of all, or of the i-th open list.
First(h, root, open, i) == IF i = 0 THEN root ELSE h[open[i]].lst

\* Each open list is the last item of the one below it, and newer.
Innermost(h, root, open, i) ==
  h[open[i]].kind = "LIST" /\ LastItem(h, First(h, root, open, i - 1)) = open[i]
Rising(open) == \A i, j \in 1 .. Len(open) : i < j => open[i] < open[j]
Nested(h, root, open) ==
  /\ open \in Seq(DOMAIN h) /\ root \in Places(h) /\ Rising(open)
  /\ \A i \in 1 .. Len(open) : Innermost(h, root, open, i)

\* cue is where the next item goes.
AtEnd(h, root, open, cue) == cue = LastItem(h, First(h, root, open, Len(open)))

(***************************************************************************)
(* The open lists are there, and so is what comes first in them.           *)
(***************************************************************************)
LEMMA OpenIn ==
  ASSUME NEW h, Sound(h), NEW root, NEW open, Nested(h, root, open)
  PROVE  /\ Len(open) \in Nat
         /\ \A i \in 1 .. Len(open) : open[i] \in DOMAIN h /\ open[i] \in Nat
         /\ \A i \in 0 .. Len(open) : First(h, root, open, i) \in Places(h)
<1>1. open \in Seq(DOMAIN h)
  BY DEF Nested
<1>2. Len(open) \in Nat /\ \A i \in 1 .. Len(open) : open[i] \in DOMAIN h
  <2> HIDE DEF Nested
  <2> DEFINE D == DOMAIN h
  <2>1. open \in Seq(D)
    BY <1>1
  <2> HIDE DEF D
  <2>2. Len(open) \in Nat /\ \A i \in 1 .. Len(open) : open[i] \in D
    BY <2>1, ElementOfSeq, LenProperties
  <2> QED
    BY <2>2 DEF D
<1>3. DOMAIN h \subseteq Nat
  BY NodeParts DEF Sound, Linked
<1>4. ASSUME NEW i \in 0 .. Len(open) PROVE First(h, root, open, i) \in Places(h)
  <2>1. CASE i = 0
    BY <2>1 DEF Nested, First
  <2>2. CASE i # 0
    <3>1. i \in 1 .. Len(open)
      BY <1>2, <2>2
    <3>2. Later(h, open[i], h[open[i]].lst)
      BY <1>2, <3>1 DEF Sound, Linked
    <3> QED
      BY <2>2, <3>2 DEF First, Later, Places
  <2> QED
    BY <2>1, <2>2
<1> QED
  BY <1>2, <1>3, <1>4

(***************************************************************************)
(* The last item of an open list is newer than the open lists.             *)
(***************************************************************************)
LEMMA CueAbove ==
  ASSUME NEW h, Sound(h), NEW root, NEW open, Nested(h, root, open),
         NEW cue, AtEnd(h, root, open, cue), cue # Null
  PROVE  cue \in DOMAIN h /\ h[cue].next = Null /\ \A i \in 1 .. Len(open) : open[i] < cue
<1> DEFINE n == Len(open)
           first == First(h, root, open, n)
<1>1. n \in Nat /\ first \in Places(h)
  BY OpenIn
<1>2. cue = LastItem(h, first)
  BY DEF AtEnd
<1>3. first # Null /\ first \in DOMAIN h
  <2>1. LastItem(h, Null) = Null
    BY LastItemIs DEF Sound
  <2> QED
    BY <1>1, <1>2, <2>1 DEF Places
<1>4. cue \in DOMAIN h /\ cue >= first /\ h[cue].next = Null
  <2> HIDE DEF first
  <2> QED
    BY <1>2, <1>3, LastItemPlace DEF Sound
<1>5. DOMAIN h \subseteq Nat
  BY NodeParts DEF Sound, Linked
<1>6. ASSUME NEW i \in 1 .. n PROVE open[i] < cue
  <2>1. n \in 1 .. n /\ n # 0 /\ i <= n
    BY <1>1
  <2>2. open[i] \in Nat /\ open[n] \in Nat /\ open[n] \in DOMAIN h
    BY <2>1, OpenIn
  <2>3. open[i] <= open[n]
    <3>1. CASE i = n
      BY <2>2, <3>1
    <3>2. CASE i # n
      <4>1. i < n
        BY <1>1, <2>1, <3>2
      <4>2. open[i] < open[n]
        BY <2>1, <4>1 DEF Nested, Rising
      <4> QED
        BY <2>2, <4>2
    <3> QED
      BY <3>1, <3>2
  <2>4. first = h[open[n]].lst
    BY <2>1 DEF First
  <2>5. open[n] < first
    <3>1. Later(h, open[n], h[open[n]].lst)
      BY <2>2 DEF Sound, Linked
    <3> QED
      BY <1>3, <2>4, <3>1 DEF Later
  <2> DEFINE a == open[i]
             z == open[n]
  <2>6. a \in Nat /\ z \in Nat /\ first \in Nat /\ cue \in Nat /\ a <= z /\ z < first /\ first <= cue
    BY <1>3, <1>4, <1>5, <2>2, <2>3, <2>5
  <2>7. open[i] < cue <=> a < cue
    OBVIOUS
  <2> HIDE DEF a, z, first
  <2>8. a < cue
    BY <2>6
  <2> QED
    BY <2>7, <2>8
<1> QED
  BY <1>4, <1>6

(***************************************************************************)
(* When each open list still is the last item of the one below, they nest. *)
(***************************************************************************)
LEMMA NestedStays ==
  ASSUME NEW h, Sound(h), NEW root, NEW open, Nested(h, root, open), NEW g,
         \A y \in DOMAIN h : y \in DOMAIN g /\ g[y].kind = h[y].kind,
         \A i \in 1 .. Len(open) :
           /\ First(g, root, open, i - 1) = First(h, root, open, i - 1)
           /\ LastItem(g, First(h, root, open, i - 1)) = LastItem(h, First(h, root, open, i - 1))
  PROVE  Nested(g, root, open)
<1>1. \A i \in 1 .. Len(open) : open[i] \in DOMAIN h
  BY OpenIn
<1>2. \A i \in 1 .. Len(open) : Innermost(g, root, open, i)
  BY <1>1 DEF Nested, Innermost
<1>3. root \in Places(g) /\ Rising(open)
  BY DEF Nested, Places
<1>4. open \in Seq(DOMAIN g)
  <2> DEFINE D == DOMAIN h
             E == DOMAIN g
  <2>1. open \in Seq(D) /\ D \subseteq E
    BY DEF Nested
  <2>2. \A i \in 1 .. Len(open) : open[i] \in E
    BY <1>1, <2>1
  <2> HIDE DEF D, E
  <2>3. open = [i \in 1 .. Len(open) |-> open[i]] /\ Len(open) \in Nat
    BY <2>1, LenProperties
  <2>4. open \in Seq(E)
    BY <2>1, SeqMonotonic
  <2> QED
    BY <2>4 DEF E
<1> QED
  BY <1>2, <1>3, <1>4 DEF Nested

(***************************************************************************)
(* A new item that nothing is linked to changes nothing.                   *)
(***************************************************************************)
LEMMA NestedGrown ==
  ASSUME NEW h, Sound(h), NEW x, Above(h, x), NEW node, Alone(node),
         NEW root, NEW open, Nested(h, root, open)
  PROVE  Nested(Grown(h, x, node), root, open)
<1> DEFINE g == Grown(h, x, node)
<1>0. GrownBy(h, x, node, g)
  BY GrownIs
<1> HIDE DEF g
<1>1. /\ DOMAIN g = DOMAIN h \cup {x}
      /\ \A y \in DOMAIN h : g[y] = h[y]
      /\ Sound(g)
  BY <1>0 DEF GrownBy
<1>2. \A y \in Places(h) : LastItem(g, y) = LastItem(h, y)
  BY <1>1, SameNext DEF Sound
<1>3. \A i \in 1 .. Len(open) : i - 1 \in 0 .. Len(open) /\ (i - 1 # 0 => i - 1 \in 1 .. Len(open))
  BY OpenIn
<1>4. \A i \in 1 .. Len(open) : First(g, root, open, i - 1) = First(h, root, open, i - 1)
  BY <1>1, <1>3, OpenIn DEF First
<1>5. \A i \in 1 .. Len(open) : First(h, root, open, i - 1) \in Places(h)
  BY <1>3, OpenIn
<1>6. Nested(g, root, open)
  BY <1>1, <1>2, <1>4, <1>5, NestedStays
<1> QED
  BY <1>6 DEF g

-----------------------------------------------------------------------------
(* ajoin of a new item.                                                    *)

\* k is the heap h with x, joined to what is open; root becomes first.
Joined(h, root, open, x, node, k, first) ==
  /\ Sound(k) /\ DOMAIN k = DOMAIN h \cup {x}
  /\ Nested(k, first, open) /\ AtEnd(k, first, open, x)
  /\ k[x].kind = node.kind /\ k[x].str = node.str /\ k[x].lst = Null
  /\ \A y \in DOMAIN h : k[y].kind = h[y].kind /\ k[y].str = h[y].str

\* What is the case when an item is to be joined.
Joining(h, root, open, cue, x, node) ==
  /\ Sound(h) /\ Nested(h, root, open) /\ AtEnd(h, root, open, cue)
  /\ Above(h, x) /\ Alone(node)

(***************************************************************************)
(* Behind the last item.                                                   *)
(***************************************************************************)
LEMMA JoinNext ==
  ASSUME NEW h, NEW root, NEW open, NEW cue, NEW x, NEW node,
         Joining(h, root, open, cue, x, node), cue # Null
  PROVE  Joined(h, root, open, x, node, [Grown(h, x, node) EXCEPT ![cue].next = x], root)
<1> DEFINE g == Grown(h, x, node)
           k == [g EXCEPT ![cue].next = x]
<1>0. Sound(h) /\ Nested(h, root, open) /\ AtEnd(h, root, open, cue) /\ Above(h, x) /\ Alone(node)
  BY DEF Joining
<1>1. /\ DOMAIN g = DOMAIN h \cup {x} /\ x \notin DOMAIN h /\ g[x] = node
      /\ \A y \in DOMAIN h : g[y] = h[y]
      /\ Sound(g)
  BY <1>0, GrownIs DEF GrownBy
<1>2. cue \in DOMAIN h /\ h[cue].next = Null /\ \A i \in 1 .. Len(open) : open[i] < cue
  BY <1>0, CueAbove
<1> HIDE DEF g
<1>3. cue \in DOMAIN g /\ x \in DOMAIN g /\ cue < x
  BY <1>0, <1>1, <1>2 DEF Above
<1>4. /\ DOMAIN k = DOMAIN g /\ Sound(k) /\ k[cue].next = x
      /\ \A y \in DOMAIN g : /\ k[y].kind = g[y].kind /\ k[y].str = g[y].str /\ k[y].lst = g[y].lst
                             /\ y # cue => k[y] = g[y]
  <2> DEFINE z == k
  <2>1. z = [g EXCEPT ![cue].next = x]
    OBVIOUS
  <2> HIDE DEF z
  <2>2. /\ DOMAIN z = DOMAIN g /\ Sound(z) /\ z[cue].next = x
        /\ \A y \in DOMAIN g : /\ z[y].kind = g[y].kind /\ z[y].str = g[y].str /\ z[y].lst = g[y].lst
                               /\ y # cue => z[y] = g[y]
    <3>1. Sound(g)
      BY <1>1
    <3>2. NextIs(g, cue, x, z)
      BY <1>3, <2>1, <3>1, NextSet
    <3> QED
      BY <3>2 DEF NextIs
  <2> QED
    BY <2>2 DEF z
<1> HIDE DEF k
<1>5. k[x].next = Null /\ k[x] = node
  BY <1>1, <1>2, <1>3, <1>4, <1>0 DEF Alone
<1>6. \A y \in DOMAIN h : y \in DOMAIN k /\ (y # cue => k[y].next = h[y].next)
  BY <1>1, <1>4
<1>7. \A y \in Places(h) : LastItem(k, y) = IF LastItem(h, y) = cue THEN x ELSE LastItem(h, y)
  <2>1. x \in DOMAIN k
    BY <1>1, <1>4
  <2> QED
    BY <1>0, <1>2, <1>4, <1>5, <1>6, <2>1, LinkedBehind DEF Sound
<1>8. \A i \in 1 .. Len(open) : i - 1 \in 0 .. Len(open) /\ (i - 1 # 0 => i - 1 \in 1 .. Len(open))
  BY <1>0, OpenIn
<1>9. \A i \in 0 .. Len(open) : First(k, root, open, i) = First(h, root, open, i)
  <2> SUFFICES ASSUME NEW i \in 0 .. Len(open) PROVE First(k, root, open, i) = First(h, root, open, i)
    OBVIOUS
  <2>1. CASE i = 0
    BY <2>1 DEF First
  <2>2. CASE i # 0
    <3>1. open[i] \in DOMAIN h
      <4>1. Len(open) \in Nat
        BY <1>0, OpenIn
      <4>2. i \in 1 .. Len(open)
        BY <2>2, <4>1
      <4> QED
        BY <1>0, <4>2, OpenIn
    <3>2. k[open[i]].lst = h[open[i]].lst
      BY <1>1, <1>4, <3>1
    <3> QED
      BY <2>2, <3>2 DEF First
  <2> QED
    BY <2>1, <2>2
<1>10. ASSUME NEW i \in 1 .. Len(open)
       PROVE  LastItem(k, First(h, root, open, i - 1)) = LastItem(h, First(h, root, open, i - 1))
  <2>1. First(h, root, open, i - 1) \in Places(h)
    BY <1>0, <1>8, OpenIn
  <2>2. LastItem(h, First(h, root, open, i - 1)) = open[i]
    BY <1>0 DEF Nested, Innermost
  <2>3. open[i] # cue
    <3>1. open[i] < cue /\ open[i] \in Nat
      BY <1>0, <1>2, OpenIn
    <3> QED
      BY <3>1
  <2> QED
    BY <1>7, <2>1, <2>2, <2>3
<1>11. Nested(k, root, open)
  <2>1. \A y \in DOMAIN h : y \in DOMAIN k /\ k[y].kind = h[y].kind
    BY <1>1, <1>4
  <2>2. \A i \in 1 .. Len(open) : First(k, root, open, i - 1) = First(h, root, open, i - 1)
    BY <1>8, <1>9
  <2> QED
    BY <1>0, <1>10, <2>1, <2>2, NestedStays
<1>12. AtEnd(k, root, open, x)
  <2>1. Len(open) \in 0 .. Len(open) /\ First(h, root, open, Len(open)) \in Places(h)
    <3>1. Len(open) \in Nat
      BY <1>0, OpenIn
    <3>2. Len(open) \in 0 .. Len(open)
      BY <3>1
    <3> QED
      BY <1>0, <3>2, OpenIn
  <2>2. LastItem(h, First(h, root, open, Len(open))) = cue
    BY <1>0 DEF AtEnd
  <2>3. LastItem(k, First(h, root, open, Len(open))) = x
    BY <1>7, <2>1, <2>2
  <2> QED
    BY <1>9, <2>1, <2>3 DEF AtEnd
<1>13. Joined(h, root, open, x, node, k, root)
  <2>1. \A y \in DOMAIN h : k[y].kind = h[y].kind /\ k[y].str = h[y].str
    BY <1>1, <1>4
  <2>2. k[x].kind = node.kind /\ k[x].str = node.str /\ k[x].lst = Null
    BY <1>0, <1>5 DEF Alone
  <2> QED
    BY <1>1, <1>4, <1>11, <1>12, <2>1, <2>2 DEF Joined
<1> QED
  BY <1>13 DEF k, g

(***************************************************************************)
(* As the first of the innermost open list.                                *)
(***************************************************************************)
LEMMA JoinLst ==
  ASSUME NEW h, NEW root, NEW open, NEW cue, NEW x, NEW node,
         Joining(h, root, open, cue, x, node), cue = Null, Len(open) # 0
  PROVE  Joined(h, root, open, x, node,
                [Grown(h, x, node) EXCEPT ![open[Len(open)]].lst = x], root)
<1> DEFINE g == Grown(h, x, node)
           n == Len(open)
           c == open[n]
           k == [g EXCEPT ![c].lst = x]
<1>0. Sound(h) /\ Nested(h, root, open) /\ AtEnd(h, root, open, cue) /\ Above(h, x) /\ Alone(node)
  BY DEF Joining
<1>1. /\ DOMAIN g = DOMAIN h \cup {x} /\ x \notin DOMAIN h /\ g[x] = node
      /\ \A y \in DOMAIN h : g[y] = h[y]
      /\ Sound(g)
  BY <1>0, GrownIs DEF GrownBy
<1>2. n \in Nat /\ n \in 1 .. n /\ c \in DOMAIN h
  <2>1. n \in Nat
    BY <1>0, OpenIn
  <2>2. n \in 1 .. n
    BY <2>1
  <2> QED
    BY <1>0, <2>1, <2>2, OpenIn
<1> HIDE DEF g
<1>3. c \in DOMAIN g /\ x \in DOMAIN g /\ c < x
  BY <1>0, <1>1, <1>2 DEF Above
<1>4. /\ DOMAIN k = DOMAIN g /\ Sound(k) /\ k[c].lst = x
      /\ \A y \in DOMAIN g : /\ k[y].kind = g[y].kind /\ k[y].str = g[y].str /\ k[y].next = g[y].next
                             /\ y # c => k[y] = g[y]
  <2> DEFINE z == k
  <2>1. z = [g EXCEPT ![c].lst = x]
    OBVIOUS
  <2> HIDE DEF z, c
  <2>2. /\ DOMAIN z = DOMAIN g /\ Sound(z) /\ z[c].lst = x
        /\ \A y \in DOMAIN g : /\ z[y].kind = g[y].kind /\ z[y].str = g[y].str /\ z[y].next = g[y].next
                               /\ y # c => z[y] = g[y]
    <3>1. Sound(g)
      BY <1>1
    <3>2. LstIs(g, c, x, z)
      BY <1>3, <2>1, <3>1, LstSet
    <3> QED
      BY <3>2 DEF LstIs
  <2> QED
    BY <2>2 DEF z
<1> HIDE DEF k
<1>5. k[x].next = Null /\ k[x] = node
  BY <1>1, <1>2, <1>3, <1>4, <1>0 DEF Alone
<1>6. \A y \in DOMAIN h : y \in DOMAIN k /\ k[y].next = h[y].next
  BY <1>1, <1>4
<1>7. \A y \in Places(h) : LastItem(k, y) = LastItem(h, y)
  BY <1>0, <1>4, <1>6, SameNext DEF Sound
<1>8. \A i \in 1 .. n : i - 1 \in 0 .. n /\ i - 1 # n /\ (i - 1 # 0 => i - 1 \in 1 .. n)
  BY <1>2
<1>9. ASSUME NEW i \in 0 .. n, i # n
      PROVE  First(k, root, open, i) = First(h, root, open, i)
  <2>1. CASE i = 0
    BY <2>1 DEF First
  <2>2. CASE i # 0
    <3>1. i \in 1 .. n /\ i < n
      BY <1>2, <1>9, <2>2
    <3>2. open[i] \in DOMAIN h /\ open[i] \in Nat
      BY <1>0, <3>1, OpenIn
    <3>3. open[i] # c
      <4>1. open[i] < open[n]
        BY <1>0, <1>2, <3>1 DEF Nested, Rising
      <4> QED
        BY <3>2, <4>1
    <3>4. k[open[i]].lst = h[open[i]].lst
      BY <1>1, <1>4, <3>2, <3>3
    <3> QED
      BY <2>2, <3>4 DEF First
  <2> QED
    BY <2>1, <2>2
<1>10. Nested(k, root, open)
  <2>1. \A y \in DOMAIN h : y \in DOMAIN k /\ k[y].kind = h[y].kind
    BY <1>1, <1>4
  <2>2. \A i \in 1 .. n : First(k, root, open, i - 1) = First(h, root, open, i - 1)
    BY <1>8, <1>9
  <2>3. \A i \in 1 .. n :
          LastItem(k, First(h, root, open, i - 1)) = LastItem(h, First(h, root, open, i - 1))
    BY <1>0, <1>7, <1>8, OpenIn
  <2> QED
    BY <1>0, <2>1, <2>2, <2>3, NestedStays
<1>11. AtEnd(k, root, open, x)
  <2>1. First(k, root, open, n) = x
    BY <1>4 DEF First
  <2>2. LastItem(k, x) = x
    BY <1>1, <1>4, <1>5, LastItemIs DEF Sound
  <2> QED
    BY <2>1, <2>2 DEF AtEnd
<1>12. Joined(h, root, open, x, node, k, root)
  <2>1. \A y \in DOMAIN h : k[y].kind = h[y].kind /\ k[y].str = h[y].str
    BY <1>1, <1>4
  <2>2. k[x].kind = node.kind /\ k[x].str = node.str /\ k[x].lst = Null
    BY <1>0, <1>5 DEF Alone
  <2> QED
    BY <1>1, <1>4, <1>10, <1>11, <2>1, <2>2 DEF Joined
<1> QED
  BY <1>12 DEF k, g

(***************************************************************************)
(* As the first of all.                                                    *)
(***************************************************************************)
LEMMA JoinRoot ==
  ASSUME NEW h, NEW root, NEW open, NEW cue, NEW x, NEW node,
         Joining(h, root, open, cue, x, node), Len(open) = 0
  PROVE  Joined(h, root, open, x, node, Grown(h, x, node), x)
<1> DEFINE g == Grown(h, x, node)
<1>0. Sound(h) /\ Nested(h, root, open) /\ Above(h, x) /\ Alone(node)
  BY DEF Joining
<1>1. /\ DOMAIN g = DOMAIN h \cup {x} /\ x \notin DOMAIN h /\ g[x] = node
      /\ \A y \in DOMAIN h : g[y] = h[y]
      /\ Sound(g)
  BY <1>0, GrownIs DEF GrownBy
<1>2. Nested(g, root, open)
  BY <1>0, NestedGrown
<1> HIDE DEF g
<1>3. Nested(g, x, open)
  <2>1. \A i : i \notin 1 .. Len(open)
    OBVIOUS
  <2>2. x \in Places(g)
    BY <1>1 DEF Places
  <2> QED
    BY <1>2, <2>1, <2>2 DEF Nested
<1>4. AtEnd(g, x, open, x)
  <2>1. LastItem(g, x) = x
    BY <1>0, <1>1, LastItemIs DEF Sound, Alone
  <2> QED
    BY <2>1 DEF AtEnd, First
<1>5. Joined(h, root, open, x, node, g, x)
  <2>1. g[x].kind = node.kind /\ g[x].str = node.str /\ g[x].lst = Null
    BY <1>0, <1>1 DEF Alone
  <2> QED
    BY <1>1, <1>3, <1>4, <2>1 DEF Joined
<1> QED
  BY <1>5 DEF g

-----------------------------------------------------------------------------
(* The parser within a call.                                               *)

States == {"START", "INTERMEDIATE", "COMMENT", "STRING", "ESTRING", "ESC", "OCT", "HEX", "UNI",
           "ATOM_END", "ERROR"}
Stacks == [d : Seq(Nat), room : Nat, past : BOOLEAN]
Decoders == [s : 0 .. 8, c : Nat, r : Seq(Nat)]
Parsers == [s : States, depth : Nat, at : {"NONE", "PLAIN", "SQ", "DQ"}, ag : Seq(Nat), room : Nat,
            sg : Seq(Nat), u : Decoders, cue : Nat, root : Nat, stack : Stacks]
Calls == [b : Parsers, heap : Heaps, strs : SUBSET Seq(Nat), seen : Seq(Nat), hit : BOOLEAN,
          fail : Nat, err : BOOLEAN, stop : BOOLEAN]

\* Strings that are there are interned.
Known(h, ss) == \A x \in DOMAIN h : h[x].kind \in {"PLAIN", "SQ", "DQ"} => h[x].str \in ss

\* The items that are held, and where the next one goes.
Holds(p, h, ss) ==
  /\ Sound(h) /\ Known(h, ss) /\ Nested(h, p.root, p.stack.d)
  /\ p.cue \in Places(h) /\ p.depth = Len(p.stack.d)
  /\ p.s # "ERROR" => AtEnd(h, p.root, p.stack.d, p.cue) /\ ~p.stack.past

\* The buffers hold what is in them.
Fits(p) ==
  /\ Len(p.ag) <= p.room /\ (p.room = 0 \/ p.room >= 4)
  /\ Len(p.sg) <= 4
  /\ Len(p.stack.d) <= p.stack.room

\* How many bytes of a character are still to come, at most.
ToCome(s) == CASE s \in {0, 1} -> 0 [] s = 2 -> 1 [] s \in 3 .. 5 -> 2 [] s \in 6 .. 8 -> 3
Decodes(u) == Len(u.r) + ToCome(u.s) <= 4

Ends(r) ==
  /\ r.b.u.s = Malformed => r.stop
  /\ r.err => r.stop /\ r.b.s = "ERROR"

CallOK(r) ==
  r \in Calls /\ Holds(r.b, r.heap, r.strs) /\ Fits(r.b) /\ Decodes(r.b.u) /\ Ends(r)

\* A call that goes on.
Running(r) == CallOK(r) /\ ~r.stop /\ r.b.s # "ERROR"

(***************************************************************************)
(* The parts of a call.                                                    *)
(***************************************************************************)
LEMMA CallParts ==
  ASSUME NEW r \in Calls
  PROVE  /\ r.b \in Parsers /\ r.heap \in Heaps /\ r.strs \in SUBSET Seq(Nat) /\ r.seen \in Seq(Nat)
         /\ r.hit \in BOOLEAN /\ r.fail \in Nat /\ r.err \in BOOLEAN /\ r.stop \in BOOLEAN
         /\ r.b.s \in States /\ r.b.depth \in Nat /\ r.b.at \in {"NONE", "PLAIN", "SQ", "DQ"}
         /\ r.b.ag \in Seq(Nat) /\ r.b.room \in Nat /\ r.b.sg \in Seq(Nat) /\ r.b.u \in Decoders
         /\ r.b.cue \in Nat /\ r.b.root \in Nat /\ r.b.stack \in Stacks
         /\ r.b.stack.d \in Seq(Nat) /\ r.b.stack.room \in Nat /\ r.b.stack.past \in BOOLEAN
         /\ r.b.u.s \in 0 .. 8 /\ r.b.u.c \in Nat /\ r.b.u.r \in Seq(Nat)
<1>1. /\ r.b \in Parsers /\ r.heap \in Heaps /\ r.strs \in SUBSET Seq(Nat) /\ r.seen \in Seq(Nat)
      /\ r.hit \in BOOLEAN /\ r.fail \in Nat /\ r.err \in BOOLEAN /\ r.stop \in BOOLEAN
  BY DEF Calls
<1>2. /\ r.b.s \in States /\ r.b.depth \in Nat /\ r.b.at \in {"NONE", "PLAIN", "SQ", "DQ"}
      /\ r.b.ag \in Seq(Nat) /\ r.b.room \in Nat /\ r.b.sg \in Seq(Nat) /\ r.b.u \in Decoders
      /\ r.b.cue \in Nat /\ r.b.root \in Nat /\ r.b.stack \in Stacks
  BY <1>1 DEF Parsers
<1>3. r.b.stack.d \in Seq(Nat) /\ r.b.stack.room \in Nat /\ r.b.stack.past \in BOOLEAN
  BY <1>2 DEF Stacks
<1>4. r.b.u.s \in 0 .. 8 /\ r.b.u.c \in Nat /\ r.b.u.r \in Seq(Nat)
  BY <1>2 DEF Decoders
<1> QED
  BY <1>1, <1>2, <1>3, <1>4

\* The call q holds what r does, and is as far in the text and on the stack.
SameItems(r, q) ==
  /\ q.heap = r.heap /\ q.strs = r.strs /\ q.b.root = r.b.root /\ q.b.cue = r.b.cue
  /\ q.b.stack = r.b.stack /\ q.b.depth = r.b.depth /\ q.b.u = r.b.u /\ q.err = r.err /\ q.stop = r.stop

(***************************************************************************)
(* An allocation that fails or not changes nothing else.                   *)
(***************************************************************************)
LEMMA Allocated ==
  ASSUME NEW r \in Calls
  PROVE  /\ Spent(r) \in Calls /\ SameItems(r, Spent(r)) /\ Spent(r).b = r.b
         /\ Failed(r) \in Calls /\ SameItems(r, Failed(r)) /\ Failed(r).b = r.b
<1> DEFINE f == IF r.fail > 0 THEN r.fail - 1 ELSE 0
<1>1. f \in Nat
  BY CallParts
<1>2. Spent(r) = [r EXCEPT !.fail = f]
  BY DEF Spent
<1> HIDE DEF f
<1>3. Spent(r) \in Calls /\ SameItems(r, Spent(r)) /\ Spent(r).b = r.b
  BY <1>1, <1>2 DEF Calls, SameItems
<1>4. Failed(r) \in Calls /\ SameItems(r, Failed(r)) /\ Failed(r).b = r.b
  BY DEF Failed, Calls, SameItems
<1> QED
  BY <1>3, <1>4

(***************************************************************************)
(* What leaves the items alone keeps them, unless it is in error.          *)
(***************************************************************************)
LEMMA ItemsKept ==
  ASSUME NEW r, CallOK(r), NEW q \in Calls, SameItems(r, q), Fits(q.b),
         q.b.s = r.b.s \/ (~r.err /\ r.b.s # "ERROR")
  PROVE  CallOK(q)
<1>1. Holds(q.b, q.heap, q.strs)
  BY DEF CallOK, Holds, SameItems
<1>2. Decodes(q.b.u) /\ Ends(q)
  BY DEF CallOK, SameItems, Ends
<1> QED
  BY <1>1, <1>2 DEF CallOK

(***************************************************************************)
(* ag_append leaves everything else alone, and the buffer is large enough. *)
(***************************************************************************)
LEMMA Appends ==
  ASSUME NEW r, CallOK(r), NEW bytes \in Seq(Nat), Len(bytes) \in 1 .. 4
  PROVE  /\ CallOK(AgAppend(r, bytes)) /\ SameItems(r, AgAppend(r, bytes))
         /\ AgAppend(r, bytes).b.s = r.b.s
<1> DEFINE q == AgAppend(r, bytes)
           ag == r.b.ag \o bytes
           room == IF r.b.room = 0 THEN ((Len(bytes) + AgUnit - 1) \div AgUnit) * AgUnit
                                   ELSE 2 * r.b.room
<1>0. r \in Calls /\ Fits(r.b)
  BY DEF CallOK
<1>1. /\ ag \in Seq(Nat) /\ Len(ag) = Len(r.b.ag) + Len(bytes) /\ Len(r.b.ag) \in Nat
      /\ Len(bytes) \in Nat
  <2>1. r.b.ag \in Seq(Nat)
    BY <1>0, CallParts
  <2> DEFINE x == r.b.ag
  <2>2. x \in Seq(Nat)
    BY <2>1
  <2> HIDE DEF x
  <2>3. x \o bytes \in Seq(Nat) /\ Len(x \o bytes) = Len(x) + Len(bytes)
    BY <2>2, ConcatProperties
  <2>4. Len(x) \in Nat /\ Len(bytes) \in Nat
    BY <2>2, LenProperties
  <2> QED
    BY <2>3, <2>4 DEF x
<1>2. room \in Nat /\ room >= 4 /\ Len(ag) <= room
  <2> DEFINE n == Len(bytes)
             l == Len(r.b.ag)
             old == r.b.room
             units == (n + AgUnit - 1) \div AgUnit
  <2>1. n \in 1 .. 4 /\ l \in Nat /\ old \in Nat /\ l <= old /\ (old = 0 \/ old >= 4) /\ Len(ag) = l + n
    BY <1>0, <1>1, CallParts DEF Fits
  <2>2. AgUnit \in Nat /\ AgUnit >= 4
    BY AgUnitAssumption
  <2>3. room = IF old = 0 THEN units * AgUnit ELSE 2 * old
    OBVIOUS
  <2> DEFINE size == Len(ag)
  <2>4. size = l + n
    BY <2>1
  <2>5. units = 1
    <3> HIDE DEF n
    <3>1. n - 1 \in Nat /\ n - 1 < AgUnit /\ n + AgUnit - 1 = AgUnit * 1 + (n - 1)
      BY <2>1, <2>2
    <3> DEFINE v == n + AgUnit - 1
               d == n - 1
    <3>2. v = AgUnit * 1 + d /\ d \in Nat /\ d < AgUnit
      BY <3>1
    <3>3. units = v \div AgUnit
      OBVIOUS
    <3> HIDE DEF v, d, units
    <3>4. v \div AgUnit = 1
      BY <2>2, <3>2, DivisionUnique
    <3> QED
      BY <3>3, <3>4
  <2>6. Len(ag) <= room <=> size <= room
    OBVIOUS
  <2> HIDE DEF n, l, old, units, room, size
  <2>7. CASE old = 0
    BY <2>1, <2>2, <2>3, <2>4, <2>5, <2>6, <2>7
  <2>8. CASE old # 0
    BY <2>1, <2>3, <2>4, <2>6, <2>8
  <2> QED
    BY <2>7, <2>8
<1> DEFINE p == Spent(r)
<1>3. p \in Calls /\ SameItems(r, p) /\ p.b = r.b
  BY <1>0, Allocated
<1> DEFINE fits == r.b.room > 0 /\ r.b.room - Len(r.b.ag) >= Len(bytes)
<1>4. CASE fits
  <2>1. q = [r EXCEPT !.b.ag = ag]
    BY <1>4 DEF AgAppend
  <2> HIDE DEF ag, q, fits, room
  <2>2. q \in Calls /\ SameItems(r, q) /\ q.b.s = r.b.s
    BY <1>0, <1>1, <2>1 DEF Calls, Parsers, SameItems
  <2>3. q.b.ag = ag /\ q.b.room = r.b.room /\ q.b.sg = r.b.sg /\ q.b.stack = r.b.stack
    BY <1>0, <2>1 DEF Calls, Parsers
  <2>4. Len(ag) <= r.b.room
    <3> DEFINE l == Len(r.b.ag)
               n == Len(bytes)
               old == r.b.room
               size == Len(ag)
    <3>1. size = l + n /\ l \in Nat /\ n \in Nat /\ old \in Nat /\ old - l >= n
      BY <1>0, <1>1, <1>4, CallParts DEF fits
    <3>2. Len(ag) <= r.b.room <=> size <= old
      OBVIOUS
    <3> HIDE DEF l, n, old, size
    <3>3. size <= old
      BY <3>1
    <3> QED
      BY <3>2, <3>3
  <2>5. Fits(q.b)
    BY <1>0, <2>3, <2>4 DEF Fits
  <2> QED
    BY <2>2, <2>5, ItemsKept DEF q
<1>5. CASE ~fits /\ Fails(r)
  <2>1. q = Failed(r)
    BY <1>5 DEF AgAppend
  <2> HIDE DEF q
  <2>2. q \in Calls /\ SameItems(r, q) /\ q.b = r.b
    BY <1>0, <2>1, Allocated
  <2> QED
    BY <1>0, <2>2, ItemsKept DEF q
<1>6. CASE ~fits /\ ~Fails(r)
  <2>1. q = [p EXCEPT !.b.ag = ag, !.b.room = room]
    <3>1. p.b.ag = r.b.ag /\ p.b.room = r.b.room
      BY <1>3
    <3>2. q = [p EXCEPT !.b.ag = @ \o bytes,
                        !.b.room = IF @ = 0 THEN ((Len(bytes) + AgUnit - 1) \div AgUnit) * AgUnit ELSE 2 * @]
      BY <1>6 DEF AgAppend
    <3> HIDE DEF p, q
    <3>3. q = [p EXCEPT !.b.ag = p.b.ag \o bytes,
                        !.b.room = IF p.b.room = 0 THEN ((Len(bytes) + AgUnit - 1) \div AgUnit) * AgUnit
                                                   ELSE 2 * p.b.room]
      BY <3>2
    <3> QED
      BY <3>1, <3>3
  <2> HIDE DEF p, ag, room, q, fits
  <2>2. q \in Calls /\ SameItems(p, q) /\ q.b.s = p.b.s
    BY <1>1, <1>2, <1>3, <2>1 DEF Calls, Parsers, SameItems
  <2>3. q.b.ag = ag /\ q.b.room = room /\ q.b.sg = p.b.sg /\ q.b.stack = p.b.stack
    BY <1>3, <2>1 DEF Calls, Parsers
  <2>4. Fits(q.b)
    BY <1>0, <1>2, <1>3, <2>3 DEF Fits
  <2>5. SameItems(r, q) /\ q.b.s = r.b.s
    BY <1>3, <2>2 DEF SameItems
  <2> QED
    BY <2>2, <2>4, <2>5, ItemsKept DEF q
<1> QED
  BY <1>4, <1>5, <1>6

-----------------------------------------------------------------------------
(* The stack of open lists.                                                *)

\* d with x pushed, and popped.
PushedOn(d, x, e, S) ==
  /\ e \in Seq(S) /\ Len(e) = Len(d) + 1 /\ e[Len(d) + 1] = x
  /\ \A i \in 1 .. Len(d) : e[i] = d[i]
PoppedOff(d, e, S) ==
  /\ e \in Seq(S) /\ Len(e) = Len(d) - 1
  /\ \A i \in 1 .. Len(d) - 1 : e[i] = d[i]

\* Append pushes.
LEMMA Pushes ==
  ASSUME NEW S, NEW d \in Seq(S), NEW x \in S
  PROVE  PushedOn(d, x, Append(d, x), S)
<1>1. /\ Append(d, x) \in Seq(S) /\ Len(Append(d, x)) = Len(d) + 1
      /\ \A i \in 1 .. Len(d) : Append(d, x)[i] = d[i]
      /\ Append(d, x)[Len(d) + 1] = x
  BY AppendProperties
<1> QED
  BY <1>1 DEF PushedOn

\* Front pops.
LEMMA Pops ==
  ASSUME NEW S, NEW d \in Seq(S), Len(d) # 0
  PROVE  PoppedOff(d, Front(d), S)
<1> DEFINE n == Len(d)
<1>1. n \in Nat /\ n # 0
  BY LenProperties
<1>2. Front(d) = SubSeq(d, 1, n - 1)
  BY DEF Front
<1> HIDE DEF n
<1>3. \A i \in 1 .. n - 1 : d[i] \in S
  BY <1>1, ElementOfSeq DEF n
<1>4. 1 \in Int /\ n - 1 \in Int
  BY <1>1
<1> DEFINE e == SubSeq(d, 1, n - 1)
<1>5. /\ e \in Seq(S) /\ Len(e) = IF 1 <= n - 1 THEN (n - 1) - 1 + 1 ELSE 0
      /\ \A i \in 1 .. (n - 1) - 1 + 1 : e[i] = d[1 + i - 1]
  <2>1. /\ SubSeq(d, 1, n - 1) \in Seq(S)
        /\ Len(SubSeq(d, 1, n - 1)) = IF 1 <= n - 1 THEN (n - 1) - 1 + 1 ELSE 0
        /\ \A i \in 1 .. (n - 1) - 1 + 1 : SubSeq(d, 1, n - 1)[i] = d[1 + i - 1]
    BY <1>3, <1>4, SubSeqProperties
  <2> QED
    BY <2>1
<1> HIDE DEF e
<1>6. Len(e) = n - 1
  BY <1>1, <1>5
<1>7. ASSUME NEW i \in 1 .. n - 1 PROVE e[i] = d[i]
  <2>1. i \in 1 .. (n - 1) - 1 + 1 /\ 1 + i - 1 = i
    BY <1>1
  <2> QED
    BY <1>5, <2>1
<1>8. PoppedOff(d, e, S)
  BY <1>5, <1>6, <1>7 DEF PoppedOff, n
<1> QED
  BY <1>2, <1>8 DEF e

(***************************************************************************)
(* The open lists with the last item of the innermost one, which is an     *)
(* empty list itself.                                                      *)
(***************************************************************************)
LEMMA NestedPushed ==
  ASSUME NEW h, Sound(h), NEW root, NEW open, Nested(h, root, open),
         NEW x \in DOMAIN h, AtEnd(h, root, open, x), h[x].kind = "LIST", h[x].lst = Null
  PROVE  Nested(h, root, Append(open, x)) /\ AtEnd(h, root, Append(open, x), Null)
<1> DEFINE n == Len(open)
           e == Append(open, x)
           D == DOMAIN h
<1>1. n \in Nat /\ \A i \in 1 .. n : open[i] \in Nat
  BY OpenIn
<1>2. open \in Seq(D)
  BY DEF Nested
<1>3. PushedOn(open, x, e, D)
  <2> HIDE DEF D
  <2>1. x \in D
    BY DEF D
  <2> QED
    BY <1>2, <2>1, Pushes
<1>4. e \in Seq(D) /\ Len(e) = n + 1 /\ e[n + 1] = x /\ \A i \in 1 .. n : e[i] = open[i]
  BY <1>3 DEF PushedOn
<1> HIDE DEF e, D
<1>5. x # Null
  BY DEF Sound, Linked
<1>6. \A i \in 1 .. n : open[i] < x
  BY <1>5, CueAbove
<1>7. Rising(e)
  <2> SUFFICES ASSUME NEW i \in 1 .. n + 1, NEW j \in 1 .. n + 1, i < j PROVE e[i] < e[j]
    BY <1>4 DEF Rising
  <2>1. i \in 1 .. n
    BY <1>1
  <2>2. CASE j = n + 1
    BY <1>4, <1>6, <2>1, <2>2
  <2>3. CASE j # n + 1
    <3>1. j \in 1 .. n
      BY <1>1, <2>3
    <3>2. open[i] < open[j]
      BY <2>1, <3>1 DEF Nested, Rising
    <3> QED
      BY <1>4, <2>1, <3>1, <3>2
  <2> QED
    BY <2>2, <2>3
<1>8. \A i \in 0 .. n : First(h, root, e, i) = First(h, root, open, i)
  <2>1. \A i \in 0 .. n : i = 0 \/ i \in 1 .. n
    BY <1>1
  <2> QED
    BY <1>4, <2>1 DEF First
<1>9. ASSUME NEW i \in 1 .. n + 1 PROVE Innermost(h, root, e, i)
  <2>1. CASE i = n + 1
    <3>1. i - 1 = n /\ n \in 0 .. n /\ e[i] = x
      BY <1>1, <1>4, <2>1
    <3>2. LastItem(h, First(h, root, e, i - 1)) = x
      BY <1>8, <3>1 DEF AtEnd
    <3> QED
      BY <3>1, <3>2 DEF Innermost
  <2>2. CASE i # n + 1
    <3>1. i \in 1 .. n /\ i - 1 \in 0 .. n
      BY <1>1, <2>2
    <3>2. Innermost(h, root, open, i)
      BY <3>1 DEF Nested
    <3> QED
      BY <1>4, <1>8, <3>1, <3>2 DEF Innermost
  <2> QED
    BY <2>1, <2>2
<1>10. Nested(h, root, e)
  <2>1. root \in Places(h) /\ e \in Seq(DOMAIN h)
    BY <1>4 DEF Nested, D
  <2> QED
    BY <1>4, <1>7, <1>9, <2>1 DEF Nested
<1>11. AtEnd(h, root, e, Null)
  <2>1. LastItem(h, Null) = Null
    BY LastItemIs DEF Sound
  <2>2. First(h, root, e, n + 1) = Null
    BY <1>1, <1>4 DEF First
  <2> QED
    BY <1>4, <2>1, <2>2 DEF AtEnd
<1> QED
  BY <1>10, <1>11 DEF e

(***************************************************************************)
(* And without the innermost one, which is the last item of the next.      *)
(***************************************************************************)
LEMMA NestedPopped ==
  ASSUME NEW h, Sound(h), NEW root, NEW open, Nested(h, root, open), Len(open) # 0
  PROVE  /\ Nested(h, root, Front(open)) /\ AtEnd(h, root, Front(open), open[Len(open)])
         /\ open[Len(open)] \in DOMAIN h
<1> DEFINE n == Len(open)
           e == Front(open)
           D == DOMAIN h
<1>1. n \in Nat /\ n # 0 /\ \A i \in 1 .. n : open[i] \in DOMAIN h
  BY OpenIn
<1>2. open \in Seq(D)
  BY DEF Nested
<1>3. PoppedOff(open, e, D)
  <2> HIDE DEF D
  <2> QED
    BY <1>2, Pops
<1>4. e \in Seq(D) /\ Len(e) = n - 1 /\ \A i \in 1 .. n - 1 : e[i] = open[i]
  BY <1>3 DEF PoppedOff
<1> HIDE DEF e, D
<1>5. Rising(e)
  <2>1. \A i \in 1 .. n - 1 : i \in 1 .. n
    BY <1>1
  <2> QED
    BY <1>4, <2>1 DEF Nested, Rising
<1>6. \A i \in 0 .. n - 1 : First(h, root, e, i) = First(h, root, open, i)
  <2>1. \A i \in 0 .. n - 1 : i = 0 \/ i \in 1 .. n - 1
    BY <1>1
  <2> QED
    BY <1>4, <2>1 DEF First
<1>7. ASSUME NEW i \in 1 .. n - 1 PROVE Innermost(h, root, e, i)
  <2>1. i \in 1 .. n /\ i - 1 \in 0 .. n - 1
    BY <1>1
  <2>2. Innermost(h, root, open, i)
    BY <2>1 DEF Nested
  <2> QED
    BY <1>4, <1>6, <2>1, <2>2 DEF Innermost
<1>8. Nested(h, root, e)
  <2>1. root \in Places(h) /\ e \in Seq(DOMAIN h)
    BY <1>4 DEF Nested, D
  <2> QED
    BY <1>4, <1>5, <1>7, <2>1 DEF Nested
<1>9. n \in 1 .. n /\ n - 1 \in 0 .. n - 1
  BY <1>1
<1>10. AtEnd(h, root, e, open[n])
  <2>1. Innermost(h, root, open, n)
    BY <1>9 DEF Nested
  <2> QED
    BY <1>4, <1>6, <1>9, <2>1 DEF Innermost, AtEnd
<1> QED
  BY <1>1, <1>8, <1>9, <1>10 DEF e

(***************************************************************************)
(* The top of the stack.                                                   *)
(***************************************************************************)
LEMMA TopIs ==
  ASSUME NEW h, Sound(h), NEW root, NEW k \in Stacks, Nested(h, root, k.d), ~k.past
  PROVE  /\ Len(k.d) = 0 => StackTop(k) = Null /\ k.d = <<>>
         /\ Len(k.d) # 0 => StackTop(k) = k.d[Len(k.d)] /\ StackTop(k) # Null /\ k.d # <<>>
<1> DEFINE d == k.d
<1>1. d \in Seq(Nat)
  BY DEF Stacks
<1>2. Len(d) \in Nat /\ \A i \in 1 .. Len(d) : d[i] \in DOMAIN h
  BY OpenIn
<1>3. Len(d) = 0 <=> d = <<>>
  <2> HIDE DEF d
  <2> QED
    BY <1>1, EmptySeq
<1>4. Len(d) # 0 => Len(d) \in 1 .. Len(d)
  BY <1>2
<1>5. Null \notin DOMAIN h
  BY DEF Sound, Linked
<1> QED
  BY <1>2, <1>3, <1>4, <1>5 DEF StackTop, Last

-----------------------------------------------------------------------------
(* ajoin, gc_new and what is made of an item.                              *)

\* The call q has the texts of r, and goes on as r does.
SameTexts(r, q) ==
  /\ q.b.s = r.b.s /\ q.b.at = r.b.at /\ q.b.ag = r.b.ag /\ q.b.room = r.b.room /\ q.b.sg = r.b.sg
  /\ q.b.u = r.b.u /\ q.err = r.err /\ q.stop = r.stop
SameStack(r, q) == q.b.stack = r.b.stack /\ q.b.depth = r.b.depth /\ q.b.cue = r.b.cue

\* q is r after x was joined, where h is the heap before x was there.
Joins(r, h, x, node, q) ==
  /\ q \in Calls /\ q.strs = r.strs /\ SameTexts(r, q) /\ SameStack(r, q)
  /\ Joined(h, r.b.root, r.b.stack.d, x, node, q.heap, q.b.root)

\* ajoin makes an item that is linked to nothing yet the last one.
LEMMA JoinMakes ==
  ASSUME NEW r \in Calls, NEW h, NEW x, NEW node,
         Joining(h, r.b.root, r.b.stack.d, r.b.cue, x, node), r.heap = Grown(h, x, node),
         ~r.b.stack.past
  PROVE  Joins(r, h, x, node, Join(r, x))
<1> DEFINE q == Join(r, x)
           g == Grown(h, x, node)
           root == r.b.root
           open == r.b.stack.d
           cue == r.b.cue
<1>0. /\ r.b \in Parsers /\ r.heap \in Heaps /\ cue \in Nat /\ root \in Nat /\ r.b.stack \in Stacks
  BY CallParts
<1>1. Sound(h) /\ Nested(h, root, open) /\ Above(h, x) /\ x \in Nat
  BY DEF Joining, Above
<1>2. /\ Len(open) = 0 => StackTop(r.b.stack) = Null
      /\ Len(open) # 0 => StackTop(r.b.stack) = open[Len(open)] /\ StackTop(r.b.stack) # Null
  BY <1>0, <1>1, TopIs
<1>3. CASE cue # Null
  <2> DEFINE k == [g EXCEPT ![cue].next = x]
  <2>1. Joined(h, root, open, x, node, k, root)
    BY <1>3, JoinNext
  <2>2. q = [r EXCEPT !.heap = k]
    <3>1. q = [r EXCEPT !.heap[r.b.cue].next = x]
      BY <1>3 DEF Join
    <3>2. [r EXCEPT !.heap[r.b.cue].next = x] = [r EXCEPT !.heap = [r.heap EXCEPT ![r.b.cue].next = x]]
      OBVIOUS
    <3> QED
      BY <3>1, <3>2
  <2>3. k \in Heaps
    BY <2>1 DEF Joined, Sound, Linked
  <2> HIDE DEF k, q
  <2>4. q \in Calls /\ q.heap = k /\ q.b = r.b /\ q.strs = r.strs /\ q.err = r.err /\ q.stop = r.stop
    BY <2>2, <2>3 DEF Calls
  <2>5. Joins(r, h, x, node, q)
    BY <2>1, <2>4 DEF Joins, SameTexts, SameStack
  <2> QED
    BY <2>5 DEF q
<1>4. CASE cue = Null /\ Len(open) # 0
  <2> DEFINE c == open[Len(open)]
             k == [g EXCEPT ![c].lst = x]
  <2>1. Joined(h, root, open, x, node, k, root)
    BY <1>4, JoinLst
  <2>2. q = [r EXCEPT !.heap = k]
    <3>1. q = [r EXCEPT !.heap[StackTop(r.b.stack)].lst = x]
      BY <1>2, <1>4 DEF Join
    <3>2. [r EXCEPT !.heap[StackTop(r.b.stack)].lst = x]
            = [r EXCEPT !.heap = [r.heap EXCEPT ![StackTop(r.b.stack)].lst = x]]
      OBVIOUS
    <3>3. StackTop(r.b.stack) = c
      BY <1>2, <1>4, SMTT(30)
    <3> QED
      BY <3>1, <3>2, <3>3
  <2>3. k \in Heaps
    BY <2>1, ZenonT(40) DEF Joined, Sound, Linked
  <2> HIDE DEF k, q
  <2>4. q \in Calls /\ q.heap = k /\ q.b = r.b /\ q.strs = r.strs /\ q.err = r.err /\ q.stop = r.stop
    BY <2>2, <2>3 DEF Calls
  <2>5. Joins(r, h, x, node, q)
    BY <2>1, <2>4 DEF Joins, SameTexts, SameStack
  <2> QED
    BY <2>5 DEF q
<1>5. CASE cue = Null /\ Len(open) = 0
  <2>1. Joined(h, root, open, x, node, r.heap, x)
    BY <1>5, JoinRoot
  <2>2. q = [r EXCEPT !.b.root = x]
    BY <1>2, <1>5 DEF Join
  <2> HIDE DEF q
  <2>3. /\ q \in Calls /\ q.heap = r.heap /\ q.strs = r.strs /\ q.b.root = x
        /\ SameTexts(r, q) /\ SameStack(r, q)
    BY <1>1, <2>2 DEF Calls, Parsers, SameTexts, SameStack
  <2>4. Joins(r, h, x, node, q)
    BY <2>1, <2>3 DEF Joins
  <2> QED
    BY <2>4 DEF q
<1> QED
  BY <1>3, <1>4, <1>5

(***************************************************************************)
(* gc_new of an item at a new address.                                     *)
(***************************************************************************)
\* q is r with the item x, which is alone.
NewItem(r, x, node, q) ==
  /\ q \in Calls /\ q.heap = Grown(r.heap, x, node) /\ q.strs = r.strs
  /\ q.b = r.b /\ q.err = r.err /\ q.stop = r.stop

\* gc_new adds one item and changes nothing else but what allocations are left.
LEMMA WithNodeIs ==
  ASSUME NEW r \in Calls, NEW x, NEW node, Grown(r.heap, x, node) \in Heaps
  PROVE  NewItem(r, x, node, WithNode(r, x, node))
<1> DEFINE p == Spent(r)
           q == WithNode(r, x, node)
           g == Grown(r.heap, x, node)
<1>1. p \in Calls /\ p.heap = r.heap /\ p.b = r.b /\ p.strs = r.strs /\ p.err = r.err /\ p.stop = r.stop
  BY Allocated DEF SameItems
<1>2. q = [p EXCEPT !.heap = g]
  <2>1. q = [p EXCEPT !.heap = [y \in DOMAIN p.heap \cup {x} |-> IF y = x THEN node ELSE p.heap[y]]]
    BY DEF WithNode
  <2> HIDE DEF p, q
  <2> QED
    BY <1>1, <2>1 DEF Grown
<1> HIDE DEF p, q, g
<1>3. g \in Heaps
  BY DEF g
<1>4. q \in Calls /\ q.heap = g /\ q.strs = p.strs /\ q.b = p.b /\ q.err = p.err /\ q.stop = p.stop
  BY <1>1, <1>2, <1>3 DEF Calls
<1> QED
  BY <1>1, <1>4 DEF NewItem, q, g

\* A new item of some kind, with a string or a number, is linked to nothing.
LEMMA NodeAlone ==
  ASSUME NEW kind \in Kinds, NEW str \in Seq(Nat), NEW num \in SUBSET Numerals
  PROVE  /\ Alone(NewNode)
         /\ Alone([NewNode EXCEPT !.kind = kind])
         /\ Alone([NewNode EXCEPT !.kind = kind, !.str = str])
         /\ Alone([NewNode EXCEPT !.kind = kind, !.num = num])
<1>1. <<>> \in Seq(Nat) /\ {} \in SUBSET Numerals /\ Null \in Nat /\ "NONE" \in Kinds
  BY EmptySeq DEF Null, Kinds
<1> QED
  BY <1>1 DEF Alone, NewNode, Nodes

(***************************************************************************)
(* An error, and an item that is not joined to anything, keep what is held.*)
(***************************************************************************)
LEMMA ErrorKeeps ==
  ASSUME NEW r, CallOK(r)
  PROVE  CallOK(Error(r)) /\ Error(r).stop
<1> DEFINE q == Error(r)
<1>0. r \in Calls
  BY DEF CallOK
<1>1. /\ q \in Calls /\ q.heap = r.heap /\ q.strs = r.strs /\ q.b.s = "ERROR" /\ q.stop /\ q.err
      /\ q.b.root = r.b.root /\ q.b.cue = r.b.cue /\ q.b.stack = r.b.stack /\ q.b.depth = r.b.depth
      /\ q.b.u = r.b.u /\ q.b.ag = r.b.ag /\ q.b.room = r.b.room /\ q.b.sg = r.b.sg
  BY <1>0 DEF Error, Calls, Parsers, States
<1> HIDE DEF q
<1>2. Holds(q.b, q.heap, q.strs) /\ Fits(q.b) /\ Decodes(q.b.u) /\ Ends(q)
  BY <1>1 DEF CallOK, Holds, Fits, Ends
<1>3. CallOK(q) /\ q.stop
  BY <1>1, <1>2 DEF CallOK
<1> QED
  BY <1>3 DEF q

\* When the items are held and the rest of a call is the same, it is a call still.
LEMMA RestKept ==
  ASSUME NEW r, CallOK(r), NEW q \in Calls, SameTexts(r, q), q.b.stack = r.b.stack,
         Holds(q.b, q.heap, q.strs)
  PROVE  CallOK(q)
<1>1. Fits(q.b) /\ Decodes(q.b.u) /\ Ends(q)
  BY DEF CallOK, Fits, Ends, SameTexts
<1> QED
  BY <1>1 DEF CallOK

\* An allocation that fails keeps what is so within a call.
LEMMA FailedKeeps ==
  ASSUME NEW r, CallOK(r)
  PROVE  CallOK(Failed(r))
<1>1. Failed(r) \in Calls /\ SameItems(r, Failed(r)) /\ Failed(r).b = r.b
  BY Allocated DEF CallOK
<1> QED
  BY <1>1, ItemsKept DEF CallOK

\* A new item that is of no kind and linked to nothing yet (its atom failed) changes nothing held.
LEMMA BareKeeps ==
  ASSUME NEW r, CallOK(r), NEW x, Above(r.heap, x), NEW q, NewItem(r, x, NewNode, q)
  PROVE  CallOK(q)
<1> DEFINE h == r.heap
           g == q.heap
<1>0. r \in Calls /\ Sound(h) /\ Known(h, r.strs) /\ Nested(h, r.b.root, r.b.stack.d)
  BY DEF CallOK, Holds
<1>1. Alone(NewNode)
  <2>1. "NONE" \in Kinds /\ <<>> \in Seq(Nat) /\ {} \in SUBSET Numerals
    BY EmptySeq DEF Kinds
  <2> QED
    BY <2>1, NodeAlone
<1>2. g = Grown(h, x, NewNode) /\ q \in Calls /\ q.b = r.b /\ q.strs = r.strs /\ q.err = r.err /\ q.stop = r.stop
  BY DEF NewItem
<1>3. GrownBy(h, x, NewNode, Grown(h, x, NewNode))
  BY <1>0, <1>1, GrownIs
<1>4. Nested(g, r.b.root, r.b.stack.d)
  BY <1>0, <1>1, <1>2, NestedGrown
<1> HIDE DEF g
<1>5. GrownBy(h, x, NewNode, g)
  BY <1>2, <1>3
<1>6. /\ DOMAIN g = DOMAIN h \cup {x} /\ g[x] = NewNode
      /\ \A y \in DOMAIN h : g[y] = h[y]
      /\ Sound(g)
  BY <1>5 DEF GrownBy
<1>7. Known(g, r.strs)
  BY <1>0, <1>6 DEF Known, NewNode
<1>8. r.b.cue \in Places(g)
  BY <1>6 DEF CallOK, Holds, Places
<1>9. ASSUME r.b.s # "ERROR" PROVE AtEnd(g, r.b.root, r.b.stack.d, r.b.cue)
  <2> DEFINE n == Len(r.b.stack.d)
  <2>1. \A y \in Places(h) : LastItem(g, y) = LastItem(h, y)
    BY <1>0, <1>6, SameNext DEF Sound
  <2>2. n \in 0 .. n /\ (n # 0 => n \in 1 .. n)
    <3>1. n \in Nat
      BY <1>0, OpenIn
    <3> QED
      BY <3>1
  <2>3. First(h, r.b.root, r.b.stack.d, n) \in Places(h)
    BY <1>0, <2>2, OpenIn
  <2>4. First(g, r.b.root, r.b.stack.d, n) = First(h, r.b.root, r.b.stack.d, n)
    <3>1. n # 0 => r.b.stack.d[n] \in DOMAIN h
      BY <1>0, <2>2, OpenIn
    <3> QED
      BY <1>6, <3>1 DEF First
  <2>5. AtEnd(h, r.b.root, r.b.stack.d, r.b.cue)
    BY <1>9 DEF CallOK, Holds
  <2> QED
    BY <2>1, <2>3, <2>4, <2>5 DEF AtEnd
<1>10. Holds(q.b, g, q.strs)
  <2>1. r.b.depth = Len(r.b.stack.d) /\ (r.b.s # "ERROR" => ~r.b.stack.past)
    BY DEF CallOK, Holds
  <2> QED
    BY <1>2, <1>4, <1>6, <1>7, <1>8, <1>9, <2>1 DEF Holds
<1> QED
  BY <1>2, <1>10, RestKept DEF SameTexts, g

-----------------------------------------------------------------------------
(* What ends an item.                                                      *)

\* A step of the parser that went well, or ended the call.
Went(q, s) == CallOK(q) /\ (q.stop \/ q.b.s = s)

(***************************************************************************)
(* new_atom: the item is joined and known, or the parser is in error.      *)
(***************************************************************************)
LEMMA AtomMade ==
  ASSUME NEW r, Running(r), NEW digits \in BOOLEAN, NEW num \in SUBSET Numerals
  PROVE  Went(Atom(r, digits, num), "INTERMEDIATE")
<1> DEFINE x == Fresh(r)
           h == r.heap
           str == r.b.ag
           needs == IF digits THEN num # {} ELSE str \notin r.strs
           node == IF digits THEN [NewNode EXCEPT !.kind = "NUM", !.num = num]
                             ELSE [NewNode EXCEPT !.kind = r.b.at, !.str = str]
           bare == WithNode(r, x, NewNode)
           p == IF needs THEN Spent(bare) ELSE bare
           ss == IF digits THEN r.strs ELSE r.strs \cup {str}
           done == [p EXCEPT !.heap[x] = node, !.strs = IF digits THEN @ ELSE @ \cup {str}]
           j == Join(done, x)
           a == Atom(r, digits, num)
<1>0. /\ CallOK(r) /\ ~r.stop /\ r.b.s # "ERROR" /\ r \in Calls
      /\ Sound(h) /\ Known(h, r.strs) /\ Nested(h, r.b.root, r.b.stack.d)
      /\ AtEnd(h, r.b.root, r.b.stack.d, r.b.cue) /\ r.b.depth = Len(r.b.stack.d)
      /\ ~r.b.stack.past
  BY DEF Running, CallOK, Holds
<1>1. Above(h, x)
  BY <1>0, FreshAbove DEF Fresh
<1>2. Alone(NewNode) /\ Alone(node)
  <2>1. /\ "NONE" \in Kinds /\ "NUM" \in Kinds /\ r.b.at \in Kinds /\ <<>> \in Seq(Nat)
        /\ {} \in SUBSET Numerals /\ str \in Seq(Nat)
    BY <1>0, CallParts, EmptySeq, SMTT(30) DEF Kinds
  <2> HIDE DEF str
  <2>2. Alone(NewNode) /\ Alone([NewNode EXCEPT !.kind = "NUM", !.num = num])
    BY <2>1, NodeAlone, ZenonT(40)
  <2>3. Alone([NewNode EXCEPT !.kind = r.b.at, !.str = str])
    BY <2>1, NodeAlone
  <2> QED
    BY <2>2, <2>3
<1>3. a = IF Fails(r) THEN Error(Failed(r))
          ELSE IF needs /\ Fails(bare) THEN Error(Failed(bare))
          ELSE [j EXCEPT !.b.cue = x, !.b.at = "NONE", !.b.s = "INTERMEDIATE"]
  BY DEF Atom
<1> HIDE DEF a, j, x
<1>4. GrownBy(h, x, NewNode, Grown(h, x, NewNode)) /\ GrownBy(h, x, node, Grown(h, x, node))
  BY <1>0, <1>1, <1>2, GrownIs
<1>5. Grown(h, x, NewNode) \in Heaps /\ Grown(h, x, node) \in Heaps
  BY <1>4 DEF GrownBy, Sound, Linked
<1>6. NewItem(r, x, NewNode, bare)
  BY <1>0, <1>5, WithNodeIs
<1> HIDE DEF bare
<1>7. CASE Fails(r)
  BY <1>0, <1>3, <1>7, FailedKeeps, ErrorKeeps DEF a, Went
<1>8. CASE ~Fails(r) /\ needs /\ Fails(bare)
  <2>1. CallOK(bare)
    BY <1>0, <1>1, <1>6, BareKeeps
  <2>2. CallOK(Error(Failed(bare))) /\ Error(Failed(bare)).stop
    BY <2>1, FailedKeeps, ErrorKeeps
  <2> QED
    BY <1>3, <1>8, <2>2 DEF a, Went
<1>9. CASE ~Fails(r) /\ ~(needs /\ Fails(bare))
  <2>1. /\ bare \in Calls /\ bare.heap = Grown(h, x, NewNode) /\ bare.strs = r.strs
        /\ bare.b = r.b /\ bare.err = r.err /\ bare.stop = r.stop
    BY <1>6 DEF NewItem
  <2>2. /\ p \in Calls /\ p.heap = Grown(h, x, NewNode) /\ p.strs = r.strs
        /\ p.b = r.b /\ p.err = r.err /\ p.stop = r.stop
    BY <2>1, Allocated DEF SameItems
  <2> HIDE DEF p
  <2>3. done = [p EXCEPT !.heap = Grown(h, x, node), !.strs = ss]
    <3>1. [p.heap EXCEPT ![x] = node] = Grown(h, x, node)
      BY <2>2 DEF Grown
    <3>2. done = [p EXCEPT !.heap = [p.heap EXCEPT ![x] = node], !.strs = IF digits THEN p.strs ELSE p.strs \cup {str}]
      OBVIOUS
    <3> HIDE DEF done
    <3> QED
      BY <2>2, <3>1, <3>2
  <2>4. ss \in SUBSET Seq(Nat)
    BY <1>0, CallParts
  <2> HIDE DEF done, node, needs
  <2>5. /\ done \in Calls /\ done.heap = Grown(h, x, node) /\ done.strs = ss
        /\ done.b = r.b /\ done.err = r.err /\ done.stop = r.stop
    <3> HIDE DEF ss
    <3> QED
      BY <1>5, <2>2, <2>3, <2>4 DEF Calls
  <2>6. Joining(h, done.b.root, done.b.stack.d, done.b.cue, x, node)
    BY <1>0, <1>1, <1>2, <2>5 DEF Joining
  <2>7. Joins(done, h, x, node, j)
    BY <1>0, <2>5, <2>6, JoinMakes DEF j
  <2> HIDE DEF j
  <2>8. /\ j \in Calls /\ j.strs = ss /\ SameTexts(r, j) /\ SameStack(r, j)
        /\ Joined(h, r.b.root, r.b.stack.d, x, node, j.heap, j.b.root)
    BY <2>5, <2>7 DEF Joins, SameTexts, SameStack
  <2>9. a = [j EXCEPT !.b.cue = x, !.b.at = "NONE", !.b.s = "INTERMEDIATE"]
    BY <1>3, <1>9
  <2>10. /\ a \in Calls /\ a.heap = j.heap /\ a.strs = ss /\ a.b.root = j.b.root /\ a.b.cue = x
         /\ a.b.s = "INTERMEDIATE" /\ a.b.ag = j.b.ag /\ a.b.room = j.b.room /\ a.b.sg = j.b.sg
         /\ a.b.u = j.b.u /\ a.b.stack = j.b.stack /\ a.b.depth = j.b.depth
         /\ a.err = j.err /\ a.stop = j.stop
    <3>1. x \in Nat
      BY <1>1 DEF Above
    <3> HIDE DEF ss
    <3> QED
      BY <2>8, <2>9, <3>1 DEF Calls, Parsers, States
  <2>11. Known(a.heap, a.strs)
    <3>1. /\ DOMAIN j.heap = DOMAIN h \cup {x}
          /\ j.heap[x].kind = node.kind /\ j.heap[x].str = node.str
          /\ \A y \in DOMAIN h : j.heap[y].kind = h[y].kind /\ j.heap[y].str = h[y].str
      BY <2>8 DEF Joined
    <3>2. node.kind \in {"PLAIN", "SQ", "DQ"} => node.str \in ss
      <4>1. CASE digits
        BY <4>1 DEF node, NewNode
      <4>2. CASE ~digits
        BY <4>2 DEF node, NewNode
      <4> QED
        BY <4>1, <4>2
    <3>3. \A y \in DOMAIN h : h[y].kind \in {"PLAIN", "SQ", "DQ"} => h[y].str \in ss
      BY <1>0 DEF Known
    <3> HIDE DEF ss
    <3> QED
      BY <2>10, <3>1, <3>2, <3>3 DEF Known
  <2> HIDE DEF ss
  <2>12. Holds(a.b, a.heap, a.strs)
    <3>1. /\ Sound(a.heap) /\ Nested(a.heap, a.b.root, a.b.stack.d)
          /\ AtEnd(a.heap, a.b.root, a.b.stack.d, a.b.cue) /\ a.b.cue \in Places(a.heap)
          /\ a.b.depth = Len(a.b.stack.d) /\ ~a.b.stack.past
      BY <1>0, <2>8, <2>10 DEF Joined, SameStack, Places
    <3> QED
      BY <2>11, <3>1 DEF Holds
  <2>13. Fits(a.b) /\ Decodes(a.b.u) /\ Ends(a)
    BY <1>0, <2>8, <2>10 DEF SameTexts, SameStack, CallOK, Fits, Ends
  <2>14. CallOK(a) /\ a.b.s = "INTERMEDIATE"
    BY <2>10, <2>12, <2>13 DEF CallOK
  <2> QED
    BY <2>14 DEF Went, a
<1> QED
  BY <1>7, <1>8, <1>9

\* SXBS_ATOM_END ends in an error, or joins an atom or a number and goes on.
LEMMA AtomEnds ==
  ASSUME NEW r, Running(r)
  PROVE  Went(AtomEnd(r), "INTERMEDIATE")
<1>1. NumberOf(r.b.ag) \in SUBSET Numerals /\ {} \in SUBSET Numerals
  <2>1. r.b.ag \in Seq(Nat)
    BY CallParts DEF Running, CallOK
  <2> QED
    BY <2>1 DEF NumberOf, Numerals
<1>2. TRUE \in BOOLEAN /\ FALSE \in BOOLEAN
  OBVIOUS
<1>3. Went(Atom(r, TRUE, NumberOf(r.b.ag)), "INTERMEDIATE")
  BY <1>1, <1>2, AtomMade
<1>4. Went(Atom(r, FALSE, {}), "INTERMEDIATE")
  BY <1>1, <1>2, AtomMade
<1> QED
  BY <1>3, <1>4 DEF AtomEnd

(***************************************************************************)
(* The vector of the stack, when an element is pushed or popped.           *)
(***************************************************************************)
LEMMA StackPushed ==
  ASSUME NEW k \in Stacks, NEW x \in Nat, Len(k.d) <= k.room
  PROVE  /\ StackPush(k, x) \in Stacks /\ StackPush(k, x).d = Append(k.d, x)
         /\ StackPush(k, x).past = k.past
         /\ Len(Append(k.d, x)) = Len(k.d) + 1
         /\ Len(StackPush(k, x).d) <= StackPush(k, x).room
<1> DEFINE e == Append(k.d, x)
           room == IF StackFull(k) THEN k.room + StackMin ELSE k.room
           q == StackPush(k, x)
<1>1. k.d \in Seq(Nat) /\ k.room \in Nat /\ k.past \in BOOLEAN
  BY DEF Stacks
<1>2. e \in Seq(Nat) /\ Len(e) = Len(k.d) + 1 /\ Len(k.d) \in Nat
  <2> DEFINE d == k.d
  <2>1. d \in Seq(Nat)
    BY <1>1
  <2> HIDE DEF d
  <2>2. PushedOn(d, x, Append(d, x), Nat)
    BY <2>1, Pushes
  <2>3. Len(d) \in Nat
    BY <2>1, LenProperties
  <2> QED
    BY <2>2, <2>3 DEF PushedOn, d
<1>3. q = [k EXCEPT !.d = e, !.room = room]
  BY DEF StackPush
<1> HIDE DEF e, q
<1>4. room \in Nat /\ Len(k.d) + 1 <= room
  <2> DEFINE l == Len(k.d)
             m == k.room
  <2>1. l \in Nat /\ m \in Nat /\ l <= m /\ StackMin \in Nat /\ StackMin >= 1
    BY <1>1, <1>2, StackMinAssumption
  <2>2. room = IF l = m THEN m + StackMin ELSE m
    BY DEF StackFull
  <2>3. room \in Nat /\ Len(k.d) + 1 <= room <=> room \in Nat /\ l + 1 <= room
    OBVIOUS
  <2> HIDE DEF l, m, room
  <2> QED
    BY <2>1, <2>2, <2>3
<1> HIDE DEF room
<1>5. q \in Stacks /\ q.d = e /\ q.room = room /\ q.past = k.past
  BY <1>1, <1>2, <1>3, <1>4 DEF Stacks
<1> QED
  BY <1>2, <1>4, <1>5 DEF q, e

\* gc_stack_pop takes the innermost list off, and there is room still.
LEMMA StackPopped ==
  ASSUME NEW k \in Stacks, ~k.past, Len(k.d) # 0, Len(k.d) <= k.room
  PROVE  /\ StackPop(k) \in Stacks /\ StackPop(k).d = Front(k.d) /\ ~StackPop(k).past
         /\ Len(Front(k.d)) = Len(k.d) - 1
         /\ Len(StackPop(k).d) <= StackPop(k).room
<1> DEFINE e == Front(k.d)
           q == StackPop(k)
<1>1. k.d \in Seq(Nat) /\ k.room \in Nat /\ k.past \in BOOLEAN
  BY DEF Stacks
<1>2. e \in Seq(Nat) /\ Len(e) = Len(k.d) - 1 /\ Len(k.d) \in Nat
  <2> DEFINE d == k.d
  <2>1. d \in Seq(Nat) /\ Len(d) # 0
    BY <1>1
  <2> HIDE DEF d
  <2>2. PoppedOff(d, Front(d), Nat)
    BY <2>1, Pops
  <2>3. Len(d) \in Nat
    BY <2>1, LenProperties
  <2> QED
    BY <2>2, <2>3 DEF PoppedOff, d
<1>3. k.d # <<>>
  BY EmptySeq
<1>4. q = [k EXCEPT !.d = e]
  BY <1>3 DEF StackPop
<1> HIDE DEF e, q
<1>5. q \in Stacks /\ q.d = e /\ q.room = k.room /\ ~q.past
  BY <1>1, <1>2, <1>4 DEF Stacks
<1>6. Len(e) <= k.room
  BY <1>1, <1>2
<1> QED
  BY <1>2, <1>5, <1>6 DEF q, e

(***************************************************************************)
(* A list is joined and opened, or the parser is in error.                 *)
(***************************************************************************)
LEMMA ListStarts ==
  ASSUME NEW r, Running(r)
  PROVE  Went(ListStart(r), "INTERMEDIATE")
<1> DEFINE x == Fresh(r)
           h == r.heap
           node == [NewNode EXCEPT !.kind = "LIST"]
           w == WithNode(r, x, node)
           j == Join(w, x)
           p == IF StackFull(j.b.stack) THEN Spent(j) ELSE j
           a == ListStart(r)
<1>0. /\ CallOK(r) /\ ~r.stop /\ r.b.s # "ERROR" /\ r \in Calls
      /\ Sound(h) /\ Known(h, r.strs) /\ Nested(h, r.b.root, r.b.stack.d)
      /\ AtEnd(h, r.b.root, r.b.stack.d, r.b.cue) /\ r.b.depth = Len(r.b.stack.d)
      /\ ~r.b.stack.past
      /\ r.b.cue \in Places(h)
  BY DEF Running, CallOK, Holds
<1>1. Above(h, x)
  BY <1>0, FreshAbove DEF Fresh
<1>2. Alone(node) /\ node.kind = "LIST"
  <2>1. "LIST" \in Kinds /\ <<>> \in Seq(Nat) /\ {} \in SUBSET Numerals
    BY EmptySeq DEF Kinds
  <2> QED
    BY <2>1, NodeAlone DEF NewNode
<1>3. a = IF Fails(r) THEN Error(Failed(r))
          ELSE IF StackFull(j.b.stack) /\ Fails(j) THEN Error([Failed(j) EXCEPT !.b.stack = StackPushFails(@)])
          ELSE [p EXCEPT !.b.stack = StackPush(@, x), !.b.cue = Null,
                         !.b.depth = @ + 1, !.b.s = "INTERMEDIATE"]
  BY DEF ListStart
<1> HIDE DEF a, x
<1>4. Grown(h, x, node) \in Heaps
  <2>1. GrownBy(h, x, node, Grown(h, x, node))
    BY <1>0, <1>1, <1>2, GrownIs
  <2> QED
    BY <2>1 DEF GrownBy, Sound, Linked
<1>5. NewItem(r, x, node, w)
  BY <1>0, <1>4, WithNodeIs
<1> HIDE DEF w, node
<1>6. /\ w \in Calls /\ w.heap = Grown(h, x, node) /\ w.strs = r.strs
      /\ w.b = r.b /\ w.err = r.err /\ w.stop = r.stop
  BY <1>5 DEF NewItem
<1>7. Joins(w, h, x, node, j)
  <2>1. Joining(h, w.b.root, w.b.stack.d, w.b.cue, x, node)
    BY <1>0, <1>1, <1>2, <1>6 DEF Joining
  <2> QED
    BY <1>0, <1>6, <2>1, JoinMakes
<1> HIDE DEF j
<1>8. /\ j \in Calls /\ j.strs = r.strs /\ SameTexts(r, j) /\ SameStack(r, j)
      /\ Joined(h, r.b.root, r.b.stack.d, x, node, j.heap, j.b.root)
  BY <1>6, <1>7 DEF Joins, SameTexts, SameStack
<1>9. /\ Sound(j.heap) /\ DOMAIN j.heap = DOMAIN h \cup {x}
      /\ Nested(j.heap, j.b.root, r.b.stack.d) /\ AtEnd(j.heap, j.b.root, r.b.stack.d, x)
      /\ j.heap[x].kind = "LIST" /\ j.heap[x].lst = Null
      /\ \A y \in DOMAIN h : j.heap[y].kind = h[y].kind /\ j.heap[y].str = h[y].str
  BY <1>2, <1>8 DEF Joined
<1>10. Known(j.heap, r.strs) /\ r.b.cue \in Places(j.heap)
  BY <1>0, <1>9 DEF Known, Places
<1>11. /\ r.b.stack \in Stacks /\ Len(r.b.stack.d) <= r.b.stack.room /\ x \in Nat
       /\ Len(r.b.stack.d) \in Nat
  <2>1. r.b.stack \in Stacks /\ Len(r.b.stack.d) <= r.b.stack.room /\ x \in Nat
    BY <1>0, <1>1, CallParts DEF CallOK, Fits, Above
  <2> QED
    BY <1>0, <2>1, OpenIn
<1>12. CASE Fails(r)
  BY <1>0, <1>3, <1>12, FailedKeeps, ErrorKeeps DEF a, Went
<1>13. CASE ~Fails(r) /\ StackFull(j.b.stack) /\ Fails(j)
  <2> DEFINE f == Failed(j)
             k == StackPushFails(j.b.stack)
             g == [f EXCEPT !.b.stack = k]
  <2>1. f \in Calls /\ f.heap = j.heap /\ f.strs = j.strs /\ f.b = j.b /\ f.err = j.err /\ f.stop = j.stop
    BY <1>8, Allocated DEF SameItems
  <2>2. k \in Stacks /\ k.d = r.b.stack.d /\ k.room = r.b.stack.room
    BY <1>8, <1>11 DEF SameStack, StackPushFails, Stacks
  <2>3. a = Error(g)
    <3>1. [Failed(j) EXCEPT !.b.stack = StackPushFails(@)] = [f EXCEPT !.b.stack = StackPushFails(f.b.stack)]
      BY DEF f
    <3> HIDE DEF f
    <3> QED
      BY <1>3, <1>13, <2>1, <3>1
  <2> HIDE DEF f, k
  <2>4. /\ a \in Calls /\ a.heap = j.heap /\ a.strs = j.strs /\ a.b.s = "ERROR" /\ a.stop /\ a.err
        /\ a.b.root = j.b.root /\ a.b.cue = j.b.cue /\ a.b.stack = k /\ a.b.depth = j.b.depth
        /\ a.b.u = j.b.u /\ a.b.ag = j.b.ag /\ a.b.room = j.b.room /\ a.b.sg = j.b.sg
    BY <2>1, <2>2, <2>3, <1>8, ZenonT(40) DEF Error, Calls, Parsers, States
  <2>5. Holds(a.b, a.heap, a.strs)
    BY <1>0, <1>8, <1>9, <1>10, <2>2, <2>4 DEF Holds, SameStack
  <2>6. Fits(a.b) /\ Decodes(a.b.u) /\ Ends(a)
    BY <1>0, <1>8, <2>2, <2>4 DEF SameTexts, CallOK, Fits, Ends
  <2> QED
    BY <2>4, <2>5, <2>6 DEF CallOK, Went, a
<1>14. CASE ~Fails(r) /\ ~(StackFull(j.b.stack) /\ Fails(j))
  <2> DEFINE k == StackPush(r.b.stack, x)
  <2>1. p \in Calls /\ p.heap = j.heap /\ p.strs = j.strs /\ p.b = j.b /\ p.err = j.err /\ p.stop = j.stop
    BY <1>8, Allocated DEF SameItems
  <2> HIDE DEF p
  <2>2. /\ k \in Stacks /\ k.d = Append(r.b.stack.d, x) /\ Len(k.d) = Len(r.b.stack.d) + 1
        /\ Len(k.d) <= k.room /\ ~k.past
    BY <1>0, <1>11, StackPushed
  <2>3. a = [p EXCEPT !.b.stack = k, !.b.cue = Null, !.b.depth = p.b.depth + 1, !.b.s = "INTERMEDIATE"]
    <3>1. p.b.stack = r.b.stack
      BY <1>8, <2>1 DEF SameStack
    <3> QED
      BY <1>3, <1>14, <3>1
  <2>4. p.b.depth + 1 \in Nat /\ p.b.depth = Len(r.b.stack.d)
    BY <1>0, <1>8, <1>11, <2>1 DEF SameStack
  <2> HIDE DEF k
  <2>5. /\ a \in Calls /\ a.heap = j.heap /\ a.strs = j.strs /\ a.b.s = "INTERMEDIATE"
        /\ a.stop = j.stop /\ a.err = j.err
        /\ a.b.root = j.b.root /\ a.b.cue = Null /\ a.b.stack = k /\ a.b.depth = p.b.depth + 1
        /\ a.b.u = j.b.u /\ a.b.ag = j.b.ag /\ a.b.room = j.b.room /\ a.b.sg = j.b.sg
    <3> DEFINE depth == p.b.depth + 1
    <3>1. depth \in Nat /\ Null \in Nat
      BY <2>4 DEF Null
    <3>2. a = [p EXCEPT !.b.stack = k, !.b.cue = Null, !.b.depth = depth, !.b.s = "INTERMEDIATE"]
      BY <2>3
    <3>3. depth = p.b.depth + 1
      OBVIOUS
    <3> HIDE DEF depth
    <3> QED
      BY <2>1, <2>2, <3>1, <3>2, <3>3, ZenonT(40) DEF Calls, Parsers, States
  <2>6. Holds(a.b, a.heap, a.strs)
    <3>1. Nested(j.heap, j.b.root, k.d) /\ AtEnd(j.heap, j.b.root, k.d, Null)
      <4>1. x \in DOMAIN j.heap
        BY <1>9
      <4> QED
        BY <1>9, <2>2, <4>1, NestedPushed
    <3>2. Known(a.heap, a.strs) /\ Null \in Places(a.heap)
      BY <1>8, <1>10, <2>5 DEF Places
    <3>3. a.b.depth = Len(a.b.stack.d)
      BY <2>2, <2>4, <2>5
    <3> QED
      BY <1>9, <2>2, <2>5, <3>1, <3>2, <3>3 DEF Holds
  <2>7. Fits(a.b) /\ Decodes(a.b.u) /\ Ends(a)
    BY <1>0, <1>8, <2>2, <2>5 DEF SameTexts, CallOK, Fits, Ends
  <2> QED
    BY <2>5, <2>6, <2>7 DEF CallOK, Went, a
<1> QED
  BY <1>12, <1>13, <1>14

(***************************************************************************)
(* The innermost list is closed; it is the last item of the next one.      *)
(***************************************************************************)
LEMMA ListEnds ==
  ASSUME NEW r, Running(r)
  PROVE  Went(ListEnd(r), "INTERMEDIATE")
<1> DEFINE h == r.heap
           d == r.b.stack.d
           a == ListEnd(r)
           k == StackPop(r.b.stack)
           top == d[Len(d)]
<1>0. /\ CallOK(r) /\ ~r.stop /\ r.b.s # "ERROR" /\ r \in Calls
      /\ Sound(h) /\ Known(h, r.strs) /\ Nested(h, r.b.root, d) /\ r.b.depth = Len(d)
      /\ ~r.b.stack.past /\ Fits(r.b) /\ Decodes(r.b.u) /\ Ends(r)
  BY DEF Running, CallOK, Holds
<1>1. CASE r.b.depth = 0
  BY <1>0, <1>1, ErrorKeeps DEF ListEnd, Went
<1>2. CASE r.b.depth # 0
  <2>1. Len(d) # 0 /\ Len(d) \in Nat /\ r.b.stack \in Stacks /\ Len(d) <= r.b.stack.room
    BY <1>0, <1>2, CallParts, OpenIn DEF Fits
  <2>2. StackTop(r.b.stack) = top
    BY <1>0, <2>1, TopIs
  <2>3. k \in Stacks /\ k.d = Front(d) /\ Len(Front(d)) = Len(d) - 1 /\ Len(k.d) <= k.room
        /\ ~k.past
    BY <1>0, <2>1, StackPopped
  <2>4. Nested(h, r.b.root, Front(d)) /\ AtEnd(h, r.b.root, Front(d), top) /\ top \in DOMAIN h
    BY <1>0, <2>1, NestedPopped
  <2>5. top \in Nat
    BY <1>0, <2>4, NodeParts DEF Sound, Linked
  <2> DEFINE depth == r.b.depth - 1
  <2>6. depth \in Nat /\ depth = Len(Front(d))
    BY <1>0, <2>1, <2>3
  <2>7. a = [r EXCEPT !.b.cue = top, !.b.stack = k, !.b.depth = depth, !.b.s = "INTERMEDIATE"]
    BY <1>2, <2>2 DEF ListEnd
  <2> HIDE DEF a, k, top, depth
  <2>8. /\ a \in Calls /\ a.heap = h /\ a.strs = r.strs /\ a.b.s = "INTERMEDIATE"
        /\ a.stop = r.stop /\ a.err = r.err
        /\ a.b.root = r.b.root /\ a.b.cue = top /\ a.b.stack = k /\ a.b.depth = depth
        /\ a.b.u = r.b.u /\ a.b.ag = r.b.ag /\ a.b.room = r.b.room /\ a.b.sg = r.b.sg
    BY <1>0, <2>3, <2>5, <2>6, <2>7 DEF Calls, Parsers, States
  <2>9. Holds(a.b, a.heap, a.strs)
    BY <1>0, <2>3, <2>4, <2>6, <2>8 DEF Holds, Places
  <2>10. Fits(a.b) /\ Decodes(a.b.u) /\ Ends(a)
    BY <1>0, <2>3, <2>8 DEF Fits, Ends
  <2> QED
    BY <2>8, <2>9, <2>10 DEF CallOK, Went, a
<1> QED
  BY <1>1, <1>2

-----------------------------------------------------------------------------
(* What a character adds to an atom.                                       *)

\* What ag_append is given.
Few(bytes) == bytes \in Seq(Nat) /\ Len(bytes) \in 1 .. 4

\* Sequences of one to four bytes.
LEMMA FewBytes ==
  /\ \A x \in Nat : Few(<<x>>)
  /\ \A x, y \in Nat : Few(<<x, y>>)
  /\ \A x, y, z \in Nat : Few(<<x, y, z>>)
  /\ \A x, y, z, w \in Nat : Few(<<x, y, z, w>>)
BY DEF Few

\* ag_append of a few bytes lets the call go on in its state.
LEMMA AppendKeeps ==
  ASSUME NEW r, Running(r), NEW bytes, Few(bytes)
  PROVE  Running(AgAppend(r, bytes)) /\ AgAppend(r, bytes).b.s = r.b.s
<1>1. CallOK(AgAppend(r, bytes)) /\ SameItems(r, AgAppend(r, bytes)) /\ AgAppend(r, bytes).b.s = r.b.s
  BY Appends DEF Few, Running
<1> QED
  BY <1>1 DEF Running, SameItems

(***************************************************************************)
(* The parser goes on in another state.                                    *)
(***************************************************************************)
LEMMA StateSet ==
  ASSUME NEW r, Running(r), NEW s \in States \ {"ERROR"}
  PROVE  Running([r EXCEPT !.b.s = s]) /\ [r EXCEPT !.b.s = s].b.s = s
<1> DEFINE q == [r EXCEPT !.b.s = s]
<1>0. r \in Calls /\ CallOK(r) /\ ~r.stop /\ r.b.s # "ERROR" /\ Fits(r.b) /\ ~r.err
  BY DEF Running, CallOK, Ends
<1>1. q \in Calls /\ SameItems(r, q) /\ q.b.s = s /\ q.stop = r.stop
  BY <1>0 DEF Calls, Parsers, SameItems
<1>2. Fits(q.b)
  <2>1. q.b.ag = r.b.ag /\ q.b.room = r.b.room /\ q.b.sg = r.b.sg /\ q.b.stack = r.b.stack
    BY <1>0 DEF Calls, Parsers
  <2> HIDE DEF q
  <2> QED
    BY <1>0, <2>1 DEF Fits
<1> HIDE DEF q
<1>3. CallOK(q)
  BY <1>0, <1>1, <1>2, ItemsKept
<1> QED
  BY <1>0, <1>1, <1>3 DEF Running, q

\* A call goes on in another state with other digits of an escape.
LEMMA EscapeSet ==
  ASSUME NEW r, Running(r), NEW s \in States \ {"ERROR"}, NEW ds \in Seq(Nat), Len(ds) <= 4
  PROVE  Running([r EXCEPT !.b.s = s, !.b.sg = ds])
<1> DEFINE q == [r EXCEPT !.b.s = s, !.b.sg = ds]
<1>0. r \in Calls /\ CallOK(r) /\ ~r.stop /\ r.b.s # "ERROR" /\ Fits(r.b) /\ ~r.err
  BY DEF Running, CallOK, Ends
<1>1. q \in Calls /\ SameItems(r, q) /\ q.b.s = s /\ q.stop = r.stop
  BY <1>0 DEF Calls, Parsers, SameItems
<1>2. Fits(q.b)
  <2>1. q.b.ag = r.b.ag /\ q.b.room = r.b.room /\ q.b.sg = ds /\ q.b.stack = r.b.stack
    BY <1>0 DEF Calls, Parsers
  <2> HIDE DEF q
  <2> QED
    BY <1>0, <2>1 DEF Fits
<1> HIDE DEF q
<1>3. CallOK(q)
  BY <1>0, <1>1, <1>2, ItemsKept
<1> QED
  BY <1>0, <1>1, <1>3 DEF Running, q

\* A call goes on in another state with another kind of atom.
LEMMA KindSet ==
  ASSUME NEW r, Running(r), NEW s \in States \ {"ERROR"}, NEW at \in {"NONE", "PLAIN", "SQ", "DQ"}
  PROVE  Running([r EXCEPT !.b.at = at, !.b.s = s])
<1> DEFINE q == [r EXCEPT !.b.at = at, !.b.s = s]
<1>0. r \in Calls /\ CallOK(r) /\ ~r.stop /\ r.b.s # "ERROR" /\ Fits(r.b) /\ ~r.err
  BY DEF Running, CallOK, Ends
<1>1. q \in Calls /\ SameItems(r, q) /\ q.b.s = s /\ q.stop = r.stop
  BY <1>0 DEF Calls, Parsers, SameItems
<1>2. Fits(q.b)
  <2>1. q.b.ag = r.b.ag /\ q.b.room = r.b.room /\ q.b.sg = r.b.sg /\ q.b.stack = r.b.stack
    BY <1>0 DEF Calls, Parsers
  <2> HIDE DEF q
  <2> QED
    BY <1>0, <2>1 DEF Fits
<1> HIDE DEF q
<1>3. CallOK(q)
  BY <1>0, <1>1, <1>2, ItemsKept
<1> QED
  BY <1>0, <1>1, <1>3 DEF Running, q

\* A call goes on with an empty buffer.
LEMMA AtomEmpty ==
  ASSUME NEW r, Running(r)
  PROVE  Running([r EXCEPT !.b.ag = <<>>])
<1> DEFINE p == [r EXCEPT !.b.ag = <<>>]
<1>0. r \in Calls /\ CallOK(r) /\ ~r.stop /\ r.b.s # "ERROR" /\ Fits(r.b) /\ ~r.err
  BY DEF Running, CallOK, Ends
<1>1. p \in Calls /\ SameItems(r, p) /\ p.b.s = r.b.s /\ p.stop = r.stop
  <2>1. <<>> \in Seq(Nat)
    BY EmptySeq
  <2> QED
    BY <1>0, <2>1 DEF Calls, Parsers, SameItems
<1>2. Fits(p.b)
  <2>1. p.b.ag = <<>> /\ p.b.room = r.b.room /\ p.b.sg = r.b.sg /\ p.b.stack = r.b.stack
    BY <1>0 DEF Calls, Parsers
  <2>2. Len(<<>>) = 0 /\ r.b.room \in Nat
    BY <1>0, EmptySeq, CallParts
  <2>3. Len(p.b.ag) <= p.b.room
    BY <2>1, <2>2
  <2> HIDE DEF p
  <2> QED
    BY <1>0, <2>1, <2>3 DEF Fits
<1> HIDE DEF p
<1>3. CallOK(p)
  BY <1>0, <1>1, <1>2, ItemsKept
<1> QED
  BY <1>0, <1>1, <1>3 DEF Running, p

\* SXBS_ATOM_START keeps what is so within a call.
LEMMA AtomStarts ==
  ASSUME NEW r, Running(r), NEW c, NEW cs, Few(cs)
  PROVE  CallOK(AtomStart(r, c, cs))
<1> DEFINE empty == [r EXCEPT !.b.ag = <<>>]
           at == IF c = DQuote THEN "DQ" ELSE "SQ"
<1>1. Running(empty)
  BY AtomEmpty
<1> HIDE DEF empty
<1>2. Running(AgAppend(empty, cs))
  BY <1>1, AppendKeeps, SMTT(30)
<1>3. Running([empty EXCEPT !.b.at = at, !.b.s = "ESTRING"])
  <2>1. at \in {"NONE", "PLAIN", "SQ", "DQ"} /\ "ESTRING" \in States \ {"ERROR"}
    BY SMTT(30) DEF States
  <2> HIDE DEF at
  <2> QED
    BY <1>1, <2>1, KindSet, ZenonT(40)
<1>4. Running([AgAppend(empty, cs) EXCEPT !.b.at = "PLAIN", !.b.s = "STRING"])
  <2>1. "PLAIN" \in {"NONE", "PLAIN", "SQ", "DQ"} /\ "STRING" \in States \ {"ERROR"}
    BY DEF States
  <2> QED
    BY <1>2, <2>1, KindSet, ZenonT(40)
<1>5. \/ AtomStart(r, c, cs) = [empty EXCEPT !.b.at = at, !.b.s = "ESTRING"]
      \/ AtomStart(r, c, cs) = [AgAppend(empty, cs) EXCEPT !.b.at = "PLAIN", !.b.s = "STRING"]
  BY DEF AtomStart, empty
<1> QED
  BY <1>3, <1>4, <1>5 DEF Running

-----------------------------------------------------------------------------
(* Escapes.                                                                *)

\* u8_encode gives one to four bytes.
LEMMA EncodedFew ==
  ASSUME NEW u \in Nat
  PROVE  Few(Utf8Encode(u))
<1> DEFINE a == u \div 64
           b1 == u \div 4096
           b2 == u \div 262144
           p == u % 64
           q == a % 64
           s == b1 % 64
           two == u >= 128 /\ u < 2047
           three == u >= 2047 /\ u < 65535
           four == u >= 65535
<1>1. /\ a \in Nat /\ b1 \in Nat /\ b2 \in Nat /\ p \in Nat /\ q \in Nat /\ s \in Nat
  BY SMT
<1>2. u < 128 \/ two \/ three \/ four
  BY SMT
<1>3. /\ two => ~(u < 128) /\ ~three /\ ~four
      /\ three => ~(u < 128) /\ ~two /\ ~four
      /\ four => ~(u < 128) /\ ~two /\ ~three
  BY SMT
<1>4. Utf8Encode(u) = CASE u < 128 -> <<u>>
                        [] two -> <<192 + a, 128 + p>>
                        [] three -> <<224 + b1, 128 + q, 128 + p>>
                        [] four -> <<240 + b2, 128 + s, 128 + q, 128 + p>>
  BY SMT DEF Utf8Encode
<1> HIDE DEF a, b1, b2, p, q, s, two, three, four
<1>5. /\ 192 + a \in Nat /\ 224 + b1 \in Nat /\ 240 + b2 \in Nat
      /\ 128 + p \in Nat /\ 128 + q \in Nat /\ 128 + s \in Nat
  BY <1>1, SMT
<1>6. CASE u < 128
  <2>1. Utf8Encode(u) = <<u>>
    BY <1>3, <1>4, <1>6, SMT
  <2> QED
    BY <2>1, FewBytes
<1>7. CASE two
  <2>1. Utf8Encode(u) = <<192 + a, 128 + p>>
    BY <1>3, <1>4, <1>7, SMT
  <2> QED
    BY <1>5, <2>1, FewBytes
<1>8. CASE three
  <2>1. Utf8Encode(u) = <<224 + b1, 128 + q, 128 + p>>
    BY <1>3, <1>4, <1>8, SMT
  <2> QED
    BY <1>5, <2>1, FewBytes
<1>9. CASE four
  <2>1. Utf8Encode(u) = <<240 + b2, 128 + s, 128 + q, 128 + p>>
    BY <1>3, <1>4, <1>9, SMT
  <2> QED
    BY <1>5, <2>1, FewBytes
<1> QED
  BY <1>2, <1>6, <1>7, <1>8, <1>9

\* An escape is written as one to four bytes.
LEMMA EscapeFew ==
  ASSUME NEW s \in Escapes, NEW ds \in Seq(Nat)
  PROVE  Few(EscapeBytes(s, ds))
<1>0. s \in {"OCT", "HEX", "UNI"}
  BY DEF Escapes
<1>1. Radix(s) \in Nat /\ 16 \in Nat
  BY DEF Radix
<1>2. DigitsValue(16, ds) \in Nat /\ DigitsValue(Radix(s), ds) \in Nat
  BY <1>1, DigitsValueNat
<1>3. CASE ds = <<>>
  <2> DEFINE letter == IF s = "HEX" THEN 120 ELSE 117
  <2>1. EscapeBytes(s, ds) = <<Backslash, letter>>
    BY <1>3 DEF EscapeBytes
  <2>2. Backslash \in Nat /\ letter \in Nat
    BY DEF Backslash
  <2> HIDE DEF letter
  <2> QED
    BY <2>1, <2>2, FewBytes
<1>4. CASE ds # <<>> /\ s = "UNI"
  <2>1. EscapeBytes(s, ds) = Utf8Encode(DigitsValue(16, ds))
    BY <1>4 DEF EscapeBytes
  <2> QED
    BY <1>2, <2>1, EncodedFew
<1>5. CASE ds # <<>> /\ s # "UNI"
  <2> DEFINE v == DigitsValue(Radix(s), ds)
             m == v % 256
  <2>1. EscapeBytes(s, ds) = <<m>>
    BY <1>5 DEF EscapeBytes
  <2>2. v \in Nat
    BY <1>2
  <2>3. m \in Nat
    <3> HIDE DEF v
    <3> QED
      BY <2>2
  <2> HIDE DEF m
  <2> QED
    BY <2>1, <2>3, FewBytes
<1> QED
  BY <1>3, <1>4, <1>5

\* The value of a digit is a natural number.
LEMMA HexDigitNat ==
  ASSUME NEW c \in Nat
  PROVE  HexDigit(c) \in Nat
BY DEF HexDigit

\* SXBS_ES_ESC keeps what is so within a call.
LEMMA EscapeStarts ==
  ASSUME NEW r, Running(r), NEW c \in Nat, NEW cs, Few(cs)
  PROVE  CallOK(EscapeStart(r, c, cs))
<1> DEFINE in == [r EXCEPT !.b.s = "ESTRING"]
           a == EscapeStart(r, c, cs)
<1>1. Running(in)
  BY StateSet DEF States
<1>2. /\ "OCT" \in States \ {"ERROR"} /\ "HEX" \in States \ {"ERROR"} /\ "UNI" \in States \ {"ERROR"}
  BY DEF States
<1>3. <<>> \in Seq(Nat) /\ Len(<<>>) <= 4
  BY EmptySeq
<1> DEFINE quoted == c \in {Backslash, DQuote}
           control == c \in DOMAIN Control
           octal == c \in 48 .. 55
<1>4. DOMAIN Control = {97, 98, 102, 110, 114, 116, 118} /\ \A d \in DOMAIN Control : Control[d] \in Nat
  BY DEF Control
<1>5. /\ quoted => ~control /\ ~octal /\ c # 120 /\ c # 117
      /\ control => ~quoted /\ ~octal /\ c # 120 /\ c # 117
      /\ octal => ~quoted /\ ~control /\ c # 120 /\ c # 117
      /\ c = 120 => ~quoted /\ ~control /\ ~octal /\ c # 117
      /\ c = 117 => ~quoted /\ ~control /\ ~octal /\ c # 120
  BY <1>4 DEF Backslash, DQuote
<1>6. a = CASE quoted -> AgAppend(in, cs)
            [] control -> AgAppend(in, <<Control[c]>>)
            [] octal -> [r EXCEPT !.b.s = "OCT", !.b.sg = <<c - 48>>]
            [] c = 120 -> [r EXCEPT !.b.s = "HEX", !.b.sg = <<>>]
            [] c = 117 -> [r EXCEPT !.b.s = "UNI", !.b.sg = <<>>]
            [] OTHER -> AgAppend(AgAppend(in, <<Backslash>>), cs)
  BY DEF EscapeStart
<1> HIDE DEF a, in
<1>7. CASE quoted
  <2>1. a = AgAppend(in, cs)
    <3> HIDE DEF quoted, control, octal
    <3> QED
      BY <1>5, <1>6, <1>7, Zenon
  <2>2. Running(a)
    BY <1>1, <2>1, AppendKeeps
  <2> QED
    BY <2>2 DEF Running, a
<1>8. CASE control
  <2>1. a = AgAppend(in, <<Control[c]>>)
    <3> HIDE DEF quoted, control, octal
    <3> QED
      BY <1>5, <1>6, <1>8, Zenon
  <2>2. Few(<<Control[c]>>)
    BY <1>4, <1>8, FewBytes
  <2>3. Running(a)
    BY <1>1, <2>1, <2>2, AppendKeeps
  <2> QED
    BY <2>3 DEF Running, a
<1>9. CASE octal
  <2> DEFINE digit == c - 48
  <2>1. a = [r EXCEPT !.b.s = "OCT", !.b.sg = <<digit>>]
    <3> HIDE DEF quoted, control, octal
    <3> QED
      BY <1>5, <1>6, <1>9, Zenon
  <2>2. digit \in Nat
    BY <1>9
  <2> HIDE DEF digit
  <2>3. <<digit>> \in Seq(Nat) /\ Len(<<digit>>) <= 4
    BY <2>2
  <2>4. Running(a)
    BY <1>2, <2>1, <2>3, EscapeSet
  <2> QED
    BY <2>4 DEF Running, a
<1>10. CASE c = 120
  <2>1. a = [r EXCEPT !.b.s = "HEX", !.b.sg = <<>>]
    <3> HIDE DEF quoted, control, octal
    <3> QED
      BY <1>5, <1>6, <1>10, ZenonT(40)
  <2>2. Running(a)
    BY <1>2, <1>3, <2>1, EscapeSet
  <2> QED
    BY <2>2 DEF Running, a
<1>11. CASE c = 117
  <2>1. a = [r EXCEPT !.b.s = "UNI", !.b.sg = <<>>]
    <3> HIDE DEF quoted, control, octal
    <3> QED
      BY <1>5, <1>6, <1>11, ZenonT(40)
  <2>2. Running(a)
    BY <1>2, <1>3, <2>1, EscapeSet
  <2> QED
    BY <2>2 DEF Running, a
<1>12. CASE ~quoted /\ ~control /\ ~octal /\ c # 120 /\ c # 117
  <2>1. a = AgAppend(AgAppend(in, <<Backslash>>), cs)
    <3> HIDE DEF quoted, control, octal
    <3> QED
      BY <1>6, <1>12, Zenon
  <2>2. Few(<<Backslash>>)
    BY FewBytes DEF Backslash
  <2>3. Running(AgAppend(in, <<Backslash>>))
    BY <1>1, <2>2, AppendKeeps
  <2>4. Running(a)
    BY <2>1, <2>3, AppendKeeps
  <2> QED
    BY <2>4 DEF Running, a
<1> QED
  BY <1>7, <1>8, <1>9, <1>10, <1>11, <1>12

-----------------------------------------------------------------------------
(* A character.                                                            *)

\* What ends before a character ends: then the state takes the character in.
TakesIn(e, c) == e.b.s # "ATOM_END" /\ (e.b.s \in Escapes => MoreDigits(e.b, c))

\* After an atom or an escape has ended before c, the call has stopped or its state takes c in.
LEMMA EndsBefore ==
  ASSUME NEW r, CallOK(r), ~r.stop, NEW c \in Nat
  PROVE  CallOK(Ended(r, c)) /\ (Ended(r, c).stop \/ TakesIn(Ended(r, c), c))
<1> DEFINE e == Ended(r, c)
           in == [r EXCEPT !.b.s = "ESTRING"]
<1>1. CASE (r.b.s = "STRING" /\ c \in Delimiters) \/ r.b.s = "ATOM_END"
  <2>1. Running(r)
    BY <1>1 DEF Running
  <2>2. e = AtomEnd(r)
    <3>1. r.b.s \notin Escapes
      BY <1>1 DEF Escapes
    <3> QED
      BY <1>1, <3>1 DEF Ended
  <2>3. Went(e, "INTERMEDIATE")
    BY <2>1, <2>2, AtomEnds
  <2> QED
    BY <2>3 DEF Went, TakesIn, Escapes
<1>2. CASE r.b.s \in Escapes /\ ~MoreDigits(r.b, c)
  <2>1. Running(r)
    BY <1>2 DEF Running, Escapes
  <2>2. e = AgAppend(in, EscapeBytes(r.b.s, r.b.sg))
    <3>1. r.b.s # "STRING" /\ r.b.s # "ATOM_END"
      BY <1>2 DEF Escapes
    <3> QED
      BY <1>2, <3>1 DEF Ended
  <2>3. Running(in) /\ in.b.s = "ESTRING"
    BY <2>1, StateSet DEF States
  <2>4. Few(EscapeBytes(r.b.s, r.b.sg))
    <3>1. r.b.sg \in Seq(Nat)
      BY CallParts DEF CallOK
    <3> QED
      BY <1>2, <3>1, EscapeFew
  <2> HIDE DEF e, in
  <2>5. Running(e) /\ e.b.s = "ESTRING"
    BY <2>2, <2>3, <2>4, AppendKeeps
  <2> QED
    BY <2>5 DEF Running, TakesIn, Escapes, e
<1>3. CASE /\ ~((r.b.s = "STRING" /\ c \in Delimiters) \/ r.b.s = "ATOM_END")
           /\ ~(r.b.s \in Escapes /\ ~MoreDigits(r.b, c))
  <2>1. e = r
    BY <1>3 DEF Ended
  <2> QED
    BY <1>3, <2>1 DEF TakesIn
<1> QED
  BY <1>1, <1>2, <1>3

\* A call goes on with other digits of an escape, four at the most.
LEMMA DigitSet ==
  ASSUME NEW r, Running(r), NEW ds \in Seq(Nat), Len(ds) <= 4
  PROVE  Running([r EXCEPT !.b.sg = ds])
<1> DEFINE q == [r EXCEPT !.b.sg = ds]
<1>0. r \in Calls /\ CallOK(r) /\ ~r.stop /\ r.b.s # "ERROR" /\ Fits(r.b) /\ ~r.err
  BY DEF Running, CallOK, Ends
<1>1. q \in Calls /\ SameItems(r, q) /\ q.b.s = r.b.s /\ q.stop = r.stop
  BY <1>0 DEF Calls, Parsers, SameItems
<1>2. Fits(q.b)
  <2>1. q.b.ag = r.b.ag /\ q.b.room = r.b.room /\ q.b.sg = ds /\ q.b.stack = r.b.stack
    BY <1>0 DEF Calls, Parsers
  <2> HIDE DEF q
  <2> QED
    BY <1>0, <2>1 DEF Fits
<1> HIDE DEF q
<1>3. CallOK(q)
  BY <1>0, <1>1, <1>2, ItemsKept
<1> QED
  BY <1>0, <1>1, <1>3 DEF Running, q

\* A call that stops keeps what is so within it.
LEMMA Stops ==
  ASSUME NEW r, CallOK(r)
  PROVE  CallOK([r EXCEPT !.stop = TRUE])
<1> DEFINE q == [r EXCEPT !.stop = TRUE]
<1>0. r \in Calls
  BY DEF CallOK
<1>1. q \in Calls /\ q.b = r.b /\ q.heap = r.heap /\ q.strs = r.strs /\ q.err = r.err /\ q.stop
  BY <1>0 DEF Calls
<1> HIDE DEF q
<1>2. CallOK(q)
  BY <1>1 DEF CallOK, Ends
<1> QED
  BY <1>2 DEF q

(***************************************************************************)
(* A state takes a character in.                                           *)
(***************************************************************************)
LEMMA TakesCharacter ==
  ASSUME NEW r, CallOK(r), ~r.stop, NEW c \in Nat, TakesIn(r, c), NEW cs, Few(cs)
  PROVE  CallOK(TakenIn(r, c, cs))
<1> DEFINE a == TakenIn(r, c, cs)
           to(s) == [r EXCEPT !.b.s = s]
<1> DEFINE item == CASE c \in White -> to("INTERMEDIATE")
                     [] c = Semi -> to("COMMENT")
                     [] c = LPar -> ListStart(r)
                     [] c = RPar -> ListEnd(r)
                     [] OTHER -> AtomStart(r, c, cs)
           comment == IF c = NL THEN to("INTERMEDIATE") ELSE r
           quoted == CASE c = (IF r.b.at = "DQ" THEN DQuote ELSE SQuote) -> to("ATOM_END")
                       [] r.b.at = "DQ" /\ c = Backslash -> to("ESC")
                       [] OTHER -> AgAppend(r, cs)
           digit == [r EXCEPT !.b.sg = Append(@, HexDigit(c))]
           stopped == [r EXCEPT !.stop = TRUE]
<1>0. r.b.s \in States /\ r.b.s # "ATOM_END"
  BY CallParts DEF CallOK, TakesIn
<1>1. a = CASE r.b.s \in {"START", "INTERMEDIATE"} -> item
            [] r.b.s = "COMMENT" -> comment
            [] r.b.s = "STRING" -> AgAppend(r, cs)
            [] r.b.s = "ESTRING" -> quoted
            [] r.b.s = "ESC" -> EscapeStart(r, c, cs)
            [] r.b.s \in Escapes -> digit
            [] r.b.s = "ERROR" -> stopped
  BY DEF TakenIn
<1>2. /\ r.b.s \in {"START", "INTERMEDIATE"} => a = item
      /\ r.b.s = "COMMENT" => a = comment
      /\ r.b.s = "STRING" => a = AgAppend(r, cs)
      /\ r.b.s = "ESTRING" => a = quoted
      /\ r.b.s = "ESC" => a = EscapeStart(r, c, cs)
      /\ r.b.s \in Escapes => a = digit
      /\ r.b.s = "ERROR" => a = stopped
  <2> HIDE DEF a, item, comment, quoted, digit, stopped
  <2> QED
    BY <1>1 DEF Escapes
<1>3. CASE r.b.s = "ERROR"
  <2>1. a = [r EXCEPT !.stop = TRUE]
    BY <1>3, <1>2
  <2> QED
    BY <2>1, Stops
<1>4. ASSUME r.b.s # "ERROR" PROVE Running(r) /\ CallOK(r)
  BY <1>4 DEF Running
<1>5. ASSUME r.b.s # "ERROR", NEW s \in States \ {"ERROR"} PROVE CallOK(to(s))
  <2>1. Running(to(s))
    BY <1>4, <1>5, StateSet
  <2> QED
    BY <2>1 DEF Running
<1>6. CASE r.b.s \in {"START", "INTERMEDIATE"}
  <2>1. a = CASE c \in White -> to("INTERMEDIATE")
              [] c = Semi -> to("COMMENT")
              [] c = LPar -> ListStart(r)
              [] c = RPar -> ListEnd(r)
              [] OTHER -> AtomStart(r, c, cs)
    BY <1>6, <1>2
  <2>2. /\ Semi \notin White /\ LPar \notin White /\ RPar \notin White
        /\ Semi # LPar /\ Semi # RPar /\ LPar # RPar
    BY DEF Semi, LPar, RPar, White
  <2>3. r.b.s # "ERROR"
    BY <1>6
  <2> HIDE DEF a, to
  <2>4. CASE c \in White
    <3>1. a = to("INTERMEDIATE")
      BY <2>1, <2>2, <2>4
    <3> QED
      BY <1>5, <2>3, <3>1 DEF States, a
  <2>5. CASE c = Semi
    <3>1. a = to("COMMENT")
      BY <2>1, <2>2, <2>5
    <3> QED
      BY <1>5, <2>3, <3>1 DEF States, a
  <2>6. CASE c = LPar
    <3>1. a = ListStart(r)
      BY <2>1, <2>2, <2>6
    <3> QED
      BY <1>4, <2>3, <3>1, ListStarts DEF Went, a
  <2>7. CASE c = RPar
    <3>1. a = ListEnd(r)
      BY <2>1, <2>2, <2>7
    <3> QED
      BY <1>4, <2>3, <3>1, ListEnds DEF Went, a
  <2>8. CASE c \notin White /\ c # Semi /\ c # LPar /\ c # RPar
    <3>1. a = AtomStart(r, c, cs)
      BY <2>1, <2>8
    <3> QED
      BY <1>4, <2>3, <3>1, AtomStarts DEF a
  <2> QED
    BY <2>4, <2>5, <2>6, <2>7, <2>8
<1>7. CASE r.b.s = "COMMENT"
  <2>1. a = IF c = NL THEN to("INTERMEDIATE") ELSE r
    BY <1>7, <1>2
  <2> HIDE DEF to, a
  <2>2. "INTERMEDIATE" \in States \ {"ERROR"}
    BY DEF States
  <2>3. CallOK(to("INTERMEDIATE"))
    BY <1>5, <1>7, <2>2
  <2> QED
    BY <2>1, <2>3 DEF a
<1>8. CASE r.b.s = "STRING"
  <2>1. a = AgAppend(r, cs)
    BY <1>8, <1>2
  <2>2. Running(AgAppend(r, cs))
    BY <1>4, <1>8, AppendKeeps
  <2> QED
    BY <2>1, <2>2 DEF Running
<1>9. CASE r.b.s = "ESTRING"
  <2>1. a = CASE c = (IF r.b.at = "DQ" THEN DQuote ELSE SQuote) -> to("ATOM_END")
              [] r.b.at = "DQ" /\ c = Backslash -> to("ESC")
              [] OTHER -> AgAppend(r, cs)
    BY <1>9, <1>2
  <2>2. Running(AgAppend(r, cs))
    BY <1>4, <1>9, AppendKeeps
  <2>3. "ATOM_END" \in States \ {"ERROR"} /\ "ESC" \in States \ {"ERROR"}
    BY DEF States
  <2> HIDE DEF to, a
  <2>4. a = to("ATOM_END") \/ a = to("ESC") \/ a = AgAppend(r, cs)
    <3>1. DQuote # Backslash
      BY DEF DQuote, Backslash
    <3> QED
      BY <2>1, <3>1
  <2>5. CallOK(to("ATOM_END")) /\ CallOK(to("ESC"))
    BY <1>5, <1>9, <2>3
  <2> QED
    BY <2>2, <2>4, <2>5 DEF Running, a
<1>10. CASE r.b.s = "ESC"
  <2>1. a = EscapeStart(r, c, cs)
    BY <1>10, <1>2
  <2> QED
    BY <1>4, <1>10, <2>1, EscapeStarts
<1>11. CASE r.b.s \in Escapes
  <2> DEFINE sg == r.b.sg
             nibble == HexDigit(c)
             ds == Append(sg, nibble)
  <2>0. r.b.s # "ERROR" /\ r.b.s \in {"OCT", "HEX", "UNI"}
    BY <1>11 DEF Escapes
  <2>1. a = [r EXCEPT !.b.sg = ds]
    BY <1>11, <1>2
  <2>2. sg \in Seq(Nat) /\ nibble \in Nat
    BY CallParts, HexDigitNat DEF CallOK
  <2>3. MoreDigits(r.b, c)
    BY <1>11 DEF TakesIn
  <2>4. Len(sg) < MostDigits(r.b.s, sg)
    BY <2>3 DEF MoreDigits
  <2>5. MostDigits(r.b.s, sg) \in {2, 3, 4}
    BY <2>0 DEF MostDigits
  <2> HIDE DEF sg, nibble, a
  <2>6. ds \in Seq(Nat) /\ Len(ds) = Len(sg) + 1 /\ Len(sg) \in Nat
    <3>1. PushedOn(sg, nibble, Append(sg, nibble), Nat)
      BY <2>2, Pushes
    <3>2. Len(sg) \in Nat
      BY <2>2, LenProperties
    <3> QED
      BY <3>1, <3>2 DEF PushedOn
  <2> DEFINE l == Len(sg)
             most == MostDigits(r.b.s, sg)
  <2>7. l \in Nat /\ most \in {2, 3, 4} /\ l < most
    BY <2>4, <2>5, <2>6
  <2>8. Len(ds) = l + 1
    BY <2>6
  <2> HIDE DEF ds, l, most
  <2>9. l + 1 <= 4
    BY <2>7
  <2>10. Len(ds) <= 4
    BY <2>8, <2>9
  <2>11. Running(a)
    BY <1>4, <2>0, <2>1, <2>6, <2>10, DigitSet
  <2> QED
    BY <2>11 DEF Running, a
<1> QED
  BY <1>0, <1>3, <1>6, <1>7, <1>8, <1>9, <1>10, <1>11 DEF States, Escapes

\* sxb_ev keeps what is so within a call.
LEMMA Characters ==
  ASSUME NEW r, CallOK(r), ~r.stop, NEW c \in Nat, NEW cs, Few(cs)
  PROVE  CallOK(Char(r, c, cs))
<1> DEFINE e == Ended(r, c)
<1>1. CallOK(e) /\ (e.stop \/ TakesIn(e, c))
  BY EndsBefore
<1>2. Char(r, c, cs) = IF e.stop THEN e ELSE TakenIn(e, c, cs)
  BY DEF Char, Onward
<1> HIDE DEF e
<1> QED
  BY <1>1, <1>2, TakesCharacter

-----------------------------------------------------------------------------
(* A byte.                                                                 *)

\* The classes of bytes.
LEMMA ClassIn ==
  ASSUME NEW x \in Nat
  PROVE  Class(x) \in 0 .. 11
BY DEF Class

\* As bytes of a character come, fewer are to come.
LEMMA NextStateIn ==
  ASSUME NEW s \in 0 .. 8, s # Malformed, NEW k \in 0 .. 11
  PROVE  /\ NextState(s, k) \in 0 .. 8 /\ ToCome(NextState(s, k)) \in 0 .. 3 /\ ToCome(s) \in 0 .. 3
         /\ s # Complete => ToCome(NextState(s, k)) + 1 <= ToCome(s)
<1> DEFINE table == <<0, 1, 2, 3, 5, 8, 7, 1, 1, 1, 4, 6>>
           t == NextState(s, k)
<1>1. table[k + 1] \in 0 .. 8
  <2>1. table \in [1 .. 12 -> 0 .. 8]
    OBVIOUS
  <2>2. k + 1 \in 1 .. 12
    OBVIOUS
  <2> HIDE DEF table
  <2> QED
    BY <2>1, <2>2
<1>2. s = 0 => t = table[k + 1]
  BY DEF NextState
<1>3. /\ s = 2 => t \in {0, 1}
      /\ s \in {3, 4, 5} => t \in {2, 1}
      /\ s \in {6, 7, 8} => t \in {3, 1}
  BY DEF NextState, Malformed
<1> HIDE DEF table, t
<1>4. s \in {0, 2, 3, 4, 5, 6, 7, 8}
  BY DEF Malformed
<1>5. t \in 0 .. 8
  BY <1>1, <1>2, <1>3, <1>4
<1>6. ASSUME NEW i \in 0 .. 8 PROVE ToCome(i) \in 0 .. 3
  BY DEF ToCome
<1>7. s # Complete => ToCome(t) + 1 <= ToCome(s)
  <2>1. CASE s = 2
    BY <1>3, <2>1 DEF ToCome
  <2>2. CASE s \in {3, 4, 5}
    BY <1>3, <2>2 DEF ToCome
  <2>3. CASE s \in {6, 7, 8}
    BY <1>3, <2>3 DEF ToCome
  <2> QED
    BY <1>4, <2>1, <2>2, <2>3 DEF Complete
<1> QED
  BY <1>5, <1>6, <1>7 DEF t

\* The code that is decoded so far is a natural number.
LEMMA CodeNat ==
  ASSUME NEW s, NEW code \in Nat, NEW x \in Nat
  PROVE  CodeSoFar(s, code, x) \in Nat
<1> DEFINE rest == x % 64
           p == Power(2, 8 - Class(x))
           low == x % p
<1>1. rest \in Nat
  BY SMT
<1>2. CASE s # Complete
  <2>1. CodeSoFar(s, code, x) = code * 64 + rest
    BY <1>2 DEF CodeSoFar
  <2> HIDE DEF rest
  <2> QED
    BY <1>1, <2>1
<1>3. CASE s = Complete /\ Class(x) > 8
  BY <1>3 DEF CodeSoFar
<1>4. CASE s = Complete /\ ~(Class(x) > 8)
  <2>1. CodeSoFar(s, code, x) = low
    BY <1>4 DEF CodeSoFar
  <2>2. 8 - Class(x) \in Nat
    BY <1>4, ClassIn
  <2>3. p \in Nat \ {0}
    <3> DEFINE e == 8 - Class(x)
    <3>1. e \in Nat /\ 2 \in Nat
      BY <2>2
    <3> HIDE DEF e
    <3>2. Power(2, e) \in Nat /\ Power(2, e) > 0
      BY <3>1, PowerPositive
    <3> QED
      BY <3>2 DEF e
  <2> HIDE DEF p
  <2>4. low \in Nat
    BY <2>3, Division
  <2> QED
    BY <2>1, <2>4
<1> QED
  BY <1>2, <1>3, <1>4

(***************************************************************************)
(* ur_read: a character has at most four bytes.                            *)
(***************************************************************************)
LEMMA Decoded ==
  ASSUME NEW u \in Decoders, Decodes(u), u.s # Malformed, NEW x \in Nat
  PROVE  /\ UrRead(u, x) \in Decoders /\ Decodes(UrRead(u, x))
         /\ UrRead(u, x).r \in Seq(Nat) /\ Len(UrRead(u, x).r) \in 1 .. 4
<1> DEFINE v == UrRead(u, x)
           k == Class(x)
           bytes == IF u.s = Complete THEN <<x>> ELSE Append(u.r, x)
           s == NextState(u.s, k)
           code == CodeSoFar(u.s, u.c, x)
<1>0. u.s \in 0 .. 8 /\ u.c \in Nat /\ u.r \in Seq(Nat)
  BY DEF Decoders
<1>1. k \in 0 .. 11
  BY ClassIn
<1>2. v = [s |-> s, c |-> code, r |-> bytes]
  BY DEF UrRead
<1> HIDE DEF k
<1>3. /\ s \in 0 .. 8 /\ ToCome(s) \in 0 .. 3 /\ ToCome(u.s) \in 0 .. 3
      /\ u.s # Complete => ToCome(s) + 1 <= ToCome(u.s)
  BY <1>0, <1>1, NextStateIn
<1>4. code \in Nat
  BY <1>0, CodeNat
<1> HIDE DEF v, s, code
<1>5. bytes \in Seq(Nat) /\ Len(bytes) \in 1 .. 4 /\ Len(bytes) + ToCome(s) <= 4
  <2>1. CASE u.s = Complete
    <3>1. bytes = <<x>>
      BY <2>1
    <3>2. <<x>> \in Seq(Nat) /\ Len(<<x>>) = 1
      OBVIOUS
    <3> HIDE DEF bytes
    <3> QED
      BY <1>3, <3>1, <3>2
  <2>2. CASE u.s # Complete
    <3> DEFINE d == u.r
    <3>1. bytes = Append(d, x)
      BY <2>2
    <3>2. d \in Seq(Nat)
      BY <1>0
    <3> HIDE DEF bytes, d
    <3>3. PushedOn(d, x, bytes, Nat) /\ Len(d) \in Nat
      BY <3>1, <3>2, Pushes, LenProperties
    <3>4. bytes \in Seq(Nat) /\ Len(bytes) = Len(d) + 1
      BY <3>3 DEF PushedOn
    <3>5. Len(d) + ToCome(u.s) <= 4
      BY DEF Decodes, d
    <3> DEFINE n == ToCome(s)
               m == ToCome(u.s)
               l == Len(d)
               lb == Len(bytes)
    <3>6. n \in 0 .. 3 /\ m \in 0 .. 3 /\ n + 1 <= m /\ l \in Nat /\ lb = l + 1 /\ l + m <= 4
      BY <1>3, <2>2, <3>3, <3>4, <3>5
    <3>7. Len(bytes) \in 1 .. 4 /\ Len(bytes) + ToCome(s) <= 4 <=> lb \in 1 .. 4 /\ lb + n <= 4
      OBVIOUS
    <3> HIDE DEF n, m, l, lb
    <3>8. lb \in 1 .. 4 /\ lb + n <= 4
      BY <3>6
    <3> QED
      BY <3>4, <3>7, <3>8
  <2> QED
    BY <2>1, <2>2
<1> HIDE DEF bytes
<1>6. v \in Decoders /\ v.s = s /\ v.r = bytes
  BY <1>2, <1>3, <1>4, <1>5 DEF Decoders
<1>7. Decodes(v)
  BY <1>5, <1>6 DEF Decodes
<1> QED
  BY <1>5, <1>6, <1>7 DEF v

(***************************************************************************)
(* A byte keeps what is held.                                              *)
(***************************************************************************)
LEMMA Bytes ==
  ASSUME NEW r, CallOK(r), NEW x \in Nat
  PROVE  CallOK(Byte(r, x))
<1> DEFINE u == UrRead(r.b.u, x)
           sn == Append(r.seen, x)
           taken == [r EXCEPT !.b.u = u, !.seen = sn]
           bad == [taken EXCEPT !.b.s = "ERROR", !.stop = TRUE]
           nul == [r EXCEPT !.b.u = u, !.stop = TRUE]
           a == Byte(r, x)
<1>0. r \in Calls /\ Holds(r.b, r.heap, r.strs) /\ Fits(r.b) /\ Decodes(r.b.u) /\ Ends(r)
  BY DEF CallOK
<1>1. a = CASE r.stop -> r
            [] ~r.stop /\ u.s = Malformed -> bad
            [] ~r.stop /\ u.s > Malformed -> taken
            [] ~r.stop /\ u.s = Complete /\ u.c = 0 -> nul
            [] ~r.stop /\ u.s = Complete /\ u.c # 0 -> Char(taken, u.c, u.r)
  BY DEF Byte
<1> HIDE DEF a
<1>2. CASE r.stop
  <2>1. a = r
    <3> HIDE DEF bad, taken, nul, u
    <3> QED
      BY <1>1, <1>2
  <2> QED
    BY <2>1 DEF a
<1>3. CASE ~r.stop
  <2>1. r.b.u \in Decoders /\ r.b.u.s # Malformed /\ ~r.err
    BY <1>0, <1>3, CallParts DEF Ends
  <2>2. u \in Decoders /\ Decodes(u) /\ u.r \in Seq(Nat) /\ Len(u.r) \in 1 .. 4
    BY <1>0, <2>1, Decoded
  <2>3. sn \in Seq(Nat)
    <3> DEFINE d == r.seen
    <3>1. d \in Seq(Nat)
      BY <1>0, CallParts
    <3> HIDE DEF d
    <3>2. PushedOn(d, x, Append(d, x), Nat)
      BY <3>1, Pushes
    <3> QED
      BY <3>2 DEF PushedOn, d
  <2> HIDE DEF u, sn
  <2>4. u.s \in 0 .. 8 /\ u.c \in Nat
    BY <2>2 DEF Decoders
  <2>5. /\ taken \in Calls /\ taken.heap = r.heap /\ taken.strs = r.strs /\ taken.b.s = r.b.s
        /\ taken.b.root = r.b.root /\ taken.b.cue = r.b.cue /\ taken.b.stack = r.b.stack
        /\ taken.b.depth = r.b.depth /\ taken.b.ag = r.b.ag /\ taken.b.room = r.b.room
        /\ taken.b.sg = r.b.sg /\ taken.b.u = u /\ taken.err = r.err /\ taken.stop = r.stop
    BY <1>0, <2>2, <2>3 DEF Calls, Parsers
  <2>6. /\ nul \in Calls /\ nul.heap = r.heap /\ nul.strs = r.strs /\ nul.b.s = r.b.s
        /\ nul.b.root = r.b.root /\ nul.b.cue = r.b.cue /\ nul.b.stack = r.b.stack
        /\ nul.b.depth = r.b.depth /\ nul.b.ag = r.b.ag /\ nul.b.room = r.b.room
        /\ nul.b.sg = r.b.sg /\ nul.b.u = u /\ nul.err = r.err /\ nul.stop
    BY <1>0, <2>2 DEF Calls, Parsers
  <2> HIDE DEF taken
  <2>7. /\ bad \in Calls /\ bad.heap = r.heap /\ bad.strs = r.strs /\ bad.b.s = "ERROR"
        /\ bad.b.root = r.b.root /\ bad.b.cue = r.b.cue /\ bad.b.stack = r.b.stack
        /\ bad.b.depth = r.b.depth /\ bad.b.ag = r.b.ag /\ bad.b.room = r.b.room
        /\ bad.b.sg = r.b.sg /\ bad.b.u = u /\ bad.err = r.err /\ bad.stop
    BY <2>5 DEF Calls, Parsers, States
  <2> HIDE DEF nul, bad
  <2>8. CallOK(bad) /\ CallOK(nul)
    BY <1>0, <2>1, <2>2, <2>6, <2>7 DEF CallOK, Holds, Fits, Ends
  <2>9. ASSUME u.s # Malformed PROVE CallOK(taken)
    BY <1>0, <2>1, <2>2, <2>5, <2>9 DEF CallOK, Holds, Fits, Ends
  <2>10. CASE u.s = Malformed
    <3>1. a = bad
      BY <1>1, <1>3, <2>10 DEF Malformed, Complete
    <3> QED
      BY <2>8, <3>1 DEF a
  <2>11. CASE u.s > Malformed
    <3>1. a = taken /\ u.s # Malformed
      BY <1>1, <1>3, <2>4, <2>11 DEF Malformed, Complete
    <3> QED
      BY <2>9, <3>1 DEF a
  <2>12. CASE u.s = Complete /\ u.c = 0
    <3>1. a = nul
      BY <1>1, <1>3, <2>12 DEF Malformed, Complete
    <3> QED
      BY <2>8, <3>1 DEF a
  <2>13. CASE u.s = Complete /\ u.c # 0
    <3>1. a = Char(taken, u.c, u.r) /\ u.s # Malformed
      BY <1>1, <1>3, <2>13 DEF Malformed, Complete
    <3>2. CallOK(taken) /\ ~taken.stop /\ Few(u.r)
      BY <1>3, <2>2, <2>5, <2>9, <3>1 DEF Few
    <3>3. CallOK(a)
      BY <2>4, <3>1, <3>2, Characters
    <3> QED
      BY <3>3 DEF a
  <2>14. u.s = Malformed \/ u.s > Malformed \/ u.s = Complete
    BY <2>4 DEF Malformed, Complete
  <2> QED
    BY <2>10, <2>11, <2>12, <2>13, <2>14
<1> QED
  BY <1>2, <1>3

\* What is so between two calls too.
Kept(r) ==
  r \in Calls /\ Holds(r.b, r.heap, r.strs) /\ Fits(r.b) /\ Decodes(r.b.u) /\ (r.err => r.b.s = "ERROR")

(***************************************************************************)
(* sxb_read_len keeps what is held; an error is seen in the state.         *)
(***************************************************************************)
THEOREM ParsedKeeps ==
  ASSUME NEW r, Kept(r), ~r.err, NEW bytes \in Seq(Nat)
  PROVE  /\ Kept(Parsed(r, bytes))
         /\ Parsed(r, bytes).b.u.s = Malformed =>
              Parsed(r, bytes).b.s = "ERROR" \/ Parsed(r, bytes).stop
<1> DEFINE S == {c \in Calls : CallOK(c)}
           n == Len(bytes)
           F == [p \in (1 .. n) \X S |-> Byte(p[2], bytes[p[1]])]
           Body(q) == [i \in 0 .. n |-> IF i = 0 THEN r ELSE Byte(q[i - 1], bytes[i])]
           q0 == CHOOSE q : q = Body(q)
           a == Parsed(r, bytes)
<1>1. a = IF r.b.u.s = Malformed THEN [r EXCEPT !.b.s = "ERROR"] ELSE q0[n]
  BY DEF Parsed
<1> HIDE DEF a
<1>2. CASE r.b.u.s = Malformed
  <2>1. a = [r EXCEPT !.b.s = "ERROR"]
    BY <1>1, <1>2
  <2>2. /\ a \in Calls /\ a.heap = r.heap /\ a.strs = r.strs /\ a.b.s = "ERROR"
        /\ a.b.root = r.b.root /\ a.b.cue = r.b.cue /\ a.b.stack = r.b.stack
        /\ a.b.depth = r.b.depth /\ a.b.ag = r.b.ag /\ a.b.room = r.b.room
        /\ a.b.sg = r.b.sg /\ a.b.u = r.b.u
    BY <2>1 DEF Kept, Calls, Parsers, States
  <2>3. Kept(a)
    BY <2>2 DEF Kept, Holds, Fits
  <2> QED
    BY <2>2, <2>3 DEF a
<1>3. CASE r.b.u.s # Malformed
  <2>1. r \in S
    BY <1>3 DEF Kept, CallOK, Ends
  <2>2. n \in Nat /\ \A i \in 1 .. n : bytes[i] \in Nat
    BY ElementOfSeq, LenProperties
  <2> HIDE DEF n
  <2>3. \A i \in 1 .. n, s \in S : F[<<i, s>>] = Byte(s, bytes[i])
    OBVIOUS
  <2>4. ASSUME NEW i \in 1 .. n, NEW s \in S PROVE Byte(s, bytes[i]) \in S
    <3>1. CallOK(Byte(s, bytes[i]))
      BY <2>2, Bytes
    <3> QED
      BY <3>1 DEF CallOK
  <2> HIDE DEF F, S
  <2>5. Steps(F, n, S)
    BY <2>3, <2>4 DEF Steps
  <2>6. PICK f \in [0 .. n -> S] : Iterated(f, F, n, r)
    BY <2>1, <2>2, <2>5, IterationExists
  <2>7. f = Body(f)
    <3>1. ASSUME NEW i \in 0 .. n PROVE f[i] = IF i = 0 THEN r ELSE Byte(f[i - 1], bytes[i])
      <4>1. CASE i = 0
        BY <4>1, <2>6 DEF Iterated
      <4>2. CASE i # 0
        <5>1. i \in 1 .. n /\ i - 1 \in 0 .. n
          BY <2>2, <4>2
        <5> QED
          BY <2>3, <2>6, <4>2, <5>1 DEF Iterated
      <4> QED
        BY <4>1, <4>2
    <3> QED
      BY <2>6, <3>1
  <2>8. q0 = Body(q0)
    <3> HIDE DEF Body
    <3> QED
      BY <2>7
  <2> HIDE DEF q0
  <2>9. q0 = [i \in 0 .. n |-> q0[i]] /\ q0[0] = r
    BY <2>2, <2>8
  <2>10. \A i \in 1 .. n : q0[i] = Byte(q0[i - 1], bytes[i])
    <3>1. \A i \in 1 .. n : i \in 0 .. n /\ i # 0
      BY <2>2
    <3> QED
      BY <2>8, <3>1
  <2>11. Iterates(q0, F, n, S, r)
    BY <2>3, <2>9, <2>10 DEF Iterates
  <2>12. q0 \in [0 .. n -> S]
    BY <2>1, <2>2, <2>5, <2>11, IterationIs
  <2>13. n \in 0 .. n
    BY <2>2
  <2>14. a \in S
    BY <1>1, <1>3, <2>12, <2>13
  <2>15. CallOK(a)
    BY <2>14 DEF S
  <2> QED
    BY <2>15 DEF CallOK, Ends, Kept, a
<1> QED
  BY <1>2, <1>3

-----------------------------------------------------------------------------
(* Between two calls.                                                      *)

\* The parser itself, whatever became of the items.
Buffered(p) == p \in Parsers /\ Fits(p) /\ Decodes(p.u)

\* The open lists are there, and what comes first in each list.
ListsLeft(h, k) == StackElements(k) \cup {h[x].lst : x \in DOMAIN h} \subseteq DOMAIN h \cup {Null}

\* Outside of lists nothing is held between two calls.
Delivered(p) == p.s # "ERROR" /\ p.depth = 0 => p.root = Null /\ p.cue = Null

Reading == text \in Seq(Nat) /\ pos \in Nat /\ Buffered(b) /\ ListsLeft(heap, b.stack)
Holding == Kept(Calling(b, heap, strs, seen, hit, 0)) /\ Delivered(b)
Inv == Reading /\ (~lost => Holding)

(***************************************************************************)
(* An empty heap.                                                          *)
(***************************************************************************)
LEMMA NoItems ==
  ASSUME NEW h, h = [x \in {} |-> NewNode], NEW ss
  PROVE  h \in Heaps /\ Sound(h) /\ Known(h, ss) /\ DOMAIN h = {}
<1>1. DOMAIN h = {} /\ h \in [{} -> Nodes]
  BY NodeAlone
<1>2. h \in Heaps
  BY <1>1 DEF Heaps
<1>3. \A x \in DOMAIN h : x <= 0
  BY <1>1
<1>4. Bounded(h)
  BY <1>3 DEF Bounded, Below
<1> QED
  BY <1>1, <1>2, <1>4 DEF Sound, Linked, Known

(***************************************************************************)
(* No list is open, and nothing is held.                                   *)
(***************************************************************************)
LEMMA NothingHeld ==
  ASSUME NEW h, Sound(h), NEW open \in Seq(Nat), Len(open) = 0
  PROVE  Nested(h, Null, open) /\ AtEnd(h, Null, open, Null) /\ open = <<>>
<1>1. LastItem(h, Null) = Null
  BY LastItemIs DEF Sound
<1>2. open = <<>>
  BY EmptySeq
<1> DEFINE D == DOMAIN h
<1>3. open \in Seq(D)
  BY <1>2
<1>4. Null \in Places(h)
  BY DEF Places
<1>5. Nested(h, Null, open)
  BY <1>3, <1>4 DEF Nested, Rising
<1>6. AtEnd(h, Null, open, Null)
  BY <1>1 DEF AtEnd, First
<1> QED
  BY <1>2, <1>5, <1>6

(***************************************************************************)
(* What is held refers to what is there.                                   *)
(***************************************************************************)
LEMMA HeldThere ==
  ASSUME NEW p \in Parsers, NEW h, NEW ss, Holds(p, h, ss)
  PROVE  /\ ListsLeft(h, p.stack)
         /\ {p.root, p.cue} \cup {h[x].next : x \in DOMAIN h} \subseteq DOMAIN h \cup {Null}
<1>1. Sound(h) /\ Nested(h, p.root, p.stack.d) /\ p.cue \in Places(h)
  BY DEF Holds
<1>2. \A i \in 1 .. Len(p.stack.d) : p.stack.d[i] \in DOMAIN h
  BY <1>1, OpenIn
<1>3. StackElements(p.stack) \subseteq DOMAIN h
  BY <1>2 DEF StackElements
<1>4. \A x \in DOMAIN h : h[x].next \in Places(h) /\ h[x].lst \in Places(h)
  BY <1>1 DEF Sound, Linked, Later, Places
<1>5. p.root \in Places(h)
  BY <1>1 DEF Nested
<1> QED
  BY <1>1, <1>3, <1>4, <1>5 DEF ListsLeft, Places

(***************************************************************************)
(* A call that starts keeps what is so between two calls.                  *)
(***************************************************************************)
LEMMA CallingKept ==
  ASSUME NEW p, NEW h, NEW ss, NEW sn, NEW ht, NEW f \in Nat
  PROVE  Kept(Calling(p, h, ss, sn, ht, f)) <=>
           /\ p \in Parsers /\ h \in Heaps /\ ss \in SUBSET Seq(Nat) /\ sn \in Seq(Nat)
           /\ ht \in BOOLEAN /\ Holds(p, h, ss) /\ Fits(p) /\ Decodes(p.u)
<1> DEFINE r == Calling(p, h, ss, sn, ht, f)
<1>1. /\ r.b = p /\ r.heap = h /\ r.strs = ss /\ r.seen = sn /\ r.hit = ht /\ r.fail = f
      /\ r.err = FALSE /\ r.stop = FALSE
  BY DEF Calling
<1>2. r \in Calls <=> /\ p \in Parsers /\ h \in Heaps /\ ss \in SUBSET Seq(Nat) /\ sn \in Seq(Nat)
                      /\ ht \in BOOLEAN
  BY DEF Calls, Calling
<1> HIDE DEF r
<1>3. Kept(r) <=> /\ p \in Parsers /\ h \in Heaps /\ ss \in SUBSET Seq(Nat) /\ sn \in Seq(Nat)
                  /\ ht \in BOOLEAN /\ Holds(p, h, ss) /\ Fits(p) /\ Decodes(p.u)
  BY <1>1, <1>2 DEF Kept
<1> QED
  BY <1>3 DEF r

(***************************************************************************)
(* In the beginning nothing is held.                                       *)
(***************************************************************************)
LEMMA Starts ==
  ASSUME Init
  PROVE  Inv
<1>1. b = NewParser /\ heap = <<>> /\ strs = {} /\ seen = <<>> /\ pos = 0 /\ hit = FALSE /\ text \in SxTexts
  BY DEF Init
<1>2. text \in Seq(Nat)
  <2> DEFINE B == 0 .. 255
  <2>1. text \in Seq(B) /\ B \subseteq Nat
    BY <1>1, ClientAssumption
  <2> HIDE DEF B
  <2>2. Len(text) \in Nat /\ text \in [1 .. Len(text) -> B]
    BY <2>1, LenProperties
  <2>3. text \in [1 .. Len(text) -> Nat]
    BY <2>1, <2>2
  <2> QED
    BY <2>2, <2>3, SMT
<1>3. /\ b \in Parsers /\ b.stack.d = <<>> /\ ~b.stack.past /\ b.root = Null /\ b.cue = Null /\ b.depth = 0
      /\ Fits(b) /\ b.u.r = <<>> /\ b.u.s = 0
  BY <1>1, StackMinAssumption
     DEF NewParser, Parsers, States, Decoders, Stacks, EmptyStack, Fits, Complete, Null
<1>4. Decodes(b.u)
  BY <1>3 DEF Decodes, ToCome
<1>5. heap = [x \in {} |-> NewNode]
  BY <1>1
<1>6. heap \in Heaps /\ Sound(heap) /\ Known(heap, strs) /\ DOMAIN heap = {}
  BY <1>5, NoItems
<1>7. Nested(heap, Null, <<>>) /\ AtEnd(heap, Null, <<>>, Null)
  <2>1. <<>> \in Seq(Nat) /\ Len(<<>>) = 0
    OBVIOUS
  <2> QED
    BY <1>6, <2>1, NothingHeld
<1>8. Holds(b, heap, strs)
  BY <1>3, <1>6, <1>7 DEF Holds, Places
<1>9. ListsLeft(heap, b.stack)
  BY <1>3, <1>8, HeldThere
<1>10. strs \in SUBSET Seq(Nat) /\ seen \in Seq(Nat) /\ hit \in BOOLEAN /\ 0 \in Nat
  <2>1. strs \in SUBSET Seq(Nat) /\ hit \in BOOLEAN
    BY <1>1
  <2>2. seen \in Seq(Nat)
    BY <1>1, SMT
  <2> QED
    BY <2>1, <2>2
<1>11. Kept(Calling(b, heap, strs, seen, hit, 0))
  BY <1>3, <1>4, <1>6, <1>8, <1>10, CallingKept
<1> QED
  BY <1>1, <1>2, <1>3, <1>4, <1>9, <1>11 DEF Inv, Reading, Holding, Buffered, Delivered

(***************************************************************************)
(* sxb_read.                                                               *)
(***************************************************************************)
LEMMA ReadKeeps ==
  ASSUME Inv, NEW k \in 1 .. Len(text), NEW fail \in 0 .. MaxFail, Read(k, fail)
  PROVE  Inv'
<1>0. text \in Seq(Nat) /\ pos \in Nat /\ ~lost /\ Holding
  BY DEF Inv, Reading, Read
<1> DEFINE bytes == SubSeq(text, pos + 1, pos + k)
           q == Calling(b, heap, strs, seen, hit, fail)
           r == Parsed(q, bytes)
           gives == ~r.err /\ r.b.depth = 0
<1>1. pos + k <= Len(text) /\ Returns(r, fail) /\ pos' = pos + k /\ text' = text /\ lost' = lost
  BY DEF Read
<1>2. k \in Nat /\ fail \in Nat /\ Len(text) \in Nat
  BY <1>0, ClientAssumption
<1>3. bytes \in Seq(Nat)
  <2>1. \A i \in (pos + 1) .. (pos + k) : i \in 1 .. Len(text)
    BY <1>0, <1>1, <1>2
  <2>2. \A i \in (pos + 1) .. (pos + k) : text[i] \in Nat
    BY <1>0, <2>1, ElementOfSeq
  <2>3. pos + 1 \in Int /\ pos + k \in Int
    BY <1>0, <1>2
  <2> QED
    BY <2>2, <2>3, SubSeqProperties
<1>4. Kept(q) /\ ~q.err
  <2>1. /\ b \in Parsers /\ heap \in Heaps /\ strs \in SUBSET Seq(Nat) /\ seen \in Seq(Nat)
        /\ hit \in BOOLEAN /\ Holds(b, heap, strs) /\ Fits(b) /\ Decodes(b.u)
    BY <1>0, CallingKept DEF Holding
  <2>2. Kept(q)
    BY <1>2, <2>1, CallingKept
  <2>3. q.err = FALSE
    BY DEF Calling
  <2> QED
    BY <2>2, <2>3
<1> HIDE DEF bytes, q
<1>5. Kept(r)
  BY <1>3, <1>4, ParsedKeeps
<1>6. /\ b' = IF gives THEN SeparateRoot(r.b) ELSE r.b
      /\ heap' = r.heap /\ strs' = r.strs /\ seen' = r.seen /\ hit' = r.hit
  BY <1>1 DEF Returns
<1> HIDE DEF r
<1>7. /\ r \in Calls /\ Holds(r.b, r.heap, r.strs) /\ Fits(r.b) /\ Decodes(r.b.u)
      /\ (r.err => r.b.s = "ERROR")
  BY <1>5 DEF Kept
<1>8. /\ r.b \in Parsers /\ r.heap \in Heaps /\ r.strs \in SUBSET Seq(Nat) /\ r.seen \in Seq(Nat)
      /\ r.hit \in BOOLEAN /\ r.b.stack \in Stacks /\ r.b.stack.d \in Seq(Nat)
  BY <1>7, CallParts
<1>9. /\ b' \in Parsers /\ Holds(b', r.heap, r.strs) /\ Fits(b') /\ Decodes(b'.u) /\ Delivered(b')
  <2>1. CASE gives
    <3> DEFINE p == SeparateRoot(r.b)
    <3>1. /\ p \in Parsers /\ p.root = Null /\ p.cue = Null /\ p.depth = r.b.depth /\ p.s = r.b.s
          /\ p.stack = r.b.stack /\ p.u = r.b.u /\ p.ag = r.b.ag /\ p.room = r.b.room /\ p.sg = r.b.sg
      BY <1>8 DEF SeparateRoot, Parsers, Null
    <3>2. /\ Sound(r.heap) /\ Known(r.heap, r.strs) /\ r.b.depth = Len(r.b.stack.d) /\ r.b.depth = 0
          /\ r.b.s # "ERROR" => ~r.b.stack.past
      BY <1>7, <2>1 DEF Holds
    <3> HIDE DEF p
    <3>3. Nested(r.heap, Null, r.b.stack.d) /\ AtEnd(r.heap, Null, r.b.stack.d, Null)
      BY <1>8, <3>2, NothingHeld
    <3>4. Holds(p, r.heap, r.strs)
      BY <3>1, <3>2, <3>3 DEF Holds, Places
    <3>5. Fits(p) /\ Decodes(p.u) /\ Delivered(p)
      BY <1>7, <3>1 DEF Fits, Delivered
    <3>6. b' = p
      BY <1>6, <2>1 DEF p
    <3> QED
      BY <3>1, <3>4, <3>5, <3>6
  <2>2. CASE ~gives
    <3>1. b' = r.b
      BY <1>6, <2>2
    <3>2. Delivered(r.b)
      BY <1>7, <2>2 DEF Delivered
    <3> QED
      BY <1>7, <1>8, <3>1, <3>2
  <2> QED
    BY <2>1, <2>2
<1>10. ListsLeft(heap', b'.stack)
  BY <1>6, <1>9, HeldThere
<1>11. Kept(Calling(b', heap', strs', seen', hit', 0))
  <2>1. /\ b' \in Parsers /\ heap' \in Heaps /\ strs' \in SUBSET Seq(Nat) /\ seen' \in Seq(Nat)
        /\ hit' \in BOOLEAN /\ Holds(b', heap', strs') /\ Fits(b') /\ Decodes(b'.u) /\ 0 \in Nat
    BY <1>6, <1>8, <1>9
  <2> QED
    BY <2>1, CallingKept
<1>12. text' \in Seq(Nat) /\ pos' \in Nat
  BY <1>0, <1>1, <1>2
<1>13. Reading'
  BY <1>9, <1>10, <1>12 DEF Reading, Buffered, ListsLeft, Fits, Decodes
<1>14. Holding'
  BY <1>9, <1>11 DEF Holding, Delivered
<1> QED
  BY <1>13, <1>14 DEF Inv

(***************************************************************************)
(* gc_collect.                                                             *)
(***************************************************************************)
LEMMA CollectKeeps ==
  ASSUME Inv, Collect
  PROVE  Inv'
<1>0. /\ text \in Seq(Nat) /\ pos \in Nat /\ ~lost /\ Holding /\ Buffered(b)
      /\ ListsLeft(heap, b.stack)
  BY DEF Inv, Reading, Collect
<1>1. /\ b' = [b EXCEPT !.s = "START"] /\ lost' = ~Idle
      /\ text' = text /\ pos' = pos /\ seen' = seen /\ hit' = hit
  BY DEF Collect
<1>2. /\ b \in Parsers /\ heap \in Heaps /\ seen \in Seq(Nat)
      /\ hit \in BOOLEAN /\ Holds(b, heap, strs) /\ Fits(b) /\ Decodes(b.u)
  BY <1>0, CallingKept DEF Holding
<1>3. /\ b' \in Parsers /\ b'.s = "START" /\ b'.stack = b.stack /\ b'.u = b.u /\ b'.ag = b.ag
      /\ b'.room = b.room /\ b'.sg = b.sg /\ b'.root = b.root /\ b'.cue = b.cue /\ b'.depth = b.depth
  BY <1>1, <1>2 DEF Parsers, States
<1>4. Fits(b') /\ Decodes(b'.u)
  BY <1>2, <1>3 DEF Fits, Decodes
<1>5. DOMAIN Marked = DOMAIN heap /\ \A x \in DOMAIN heap : Marked[x] = {heap[x].lst} \ {Null}
  BY DEF Marked
<1>6. \A x \in DOMAIN Marked : Marked[x] \subseteq DOMAIN Marked
  BY <1>0, <1>5 DEF ListsLeft
<1>7. StackElements(b.stack) \subseteq DOMAIN heap
  BY <1>0 DEF ListsLeft, StackElements
<1>8. PICK behind \in {Null} \cup DOMAIN heap, ss \in SUBSET strs : Leaves(behind, ss) /\ (b.stack.past \/ ss = {})
  BY DEF Collect
<1> DEFINE S == Survivors(behind)
           refs == StackRefs(b.stack, behind)
<1>9. /\ DOMAIN heap' = S /\ (\A x \in S : heap'[x] = heap[x]) /\ heap' = [x \in S |-> heap[x]]
      /\ strs' = ss
  BY <1>8 DEF Leaves
<1>10. ListsLeft(heap', b'.stack)
  <2>1. refs \subseteq DOMAIN Marked /\ StackElements(b.stack) \subseteq refs
    BY <1>5, <1>7 DEF StackRefs
  <2>2. refs \subseteq ReachableFrom(refs, Marked)
    BY <1>6, <2>1, SeedsReachable
  <2>3. ReachableFrom(refs, Marked) \subseteq DOMAIN Marked
    BY ReachableNodes
  <2>4. Closed(ReachableFrom(refs, Marked), Marked)
    BY <1>6, ReachableClosed
  <2>5. StackElements(b.stack) \subseteq S /\ S \subseteq DOMAIN heap /\ Closed(S, Marked)
    BY <1>5, <2>1, <2>2, <2>3, <2>4 DEF Survivors
  <2> HIDE DEF S
  <2>6. \A x \in S : heap[x].lst \in S \cup {Null}
    BY <1>5, <2>5 DEF Closed
  <2> QED
    BY <1>3, <1>9, <2>5, <2>6 DEF ListsLeft
<1>11. Reading'
  BY <1>0, <1>1, <1>3, <1>4, <1>10 DEF Reading, Buffered, ListsLeft, Fits, Decodes
<1>12. ASSUME ~lost' PROVE Holding'
  <2>1. b.depth = 0 /\ b.s # "ERROR" /\ ~b.stack.past
    BY <1>1, <1>2, <1>12 DEF Idle, Holds
  <2>2. b.root = Null /\ b.cue = Null /\ Len(b.stack.d) = 0
    BY <1>0, <1>2, <2>1 DEF Holding, Delivered, Holds
  <2>3. refs = {} /\ strs' = {}
    BY <1>8, <1>9, <2>1, <2>2 DEF StackRefs, StackElements
  <2>4. S = {}
    <3>1. {} \in SUBSET DOMAIN Marked /\ refs \subseteq {} /\ Closed({}, Marked)
      BY <2>3 DEF Closed
    <3>2. ReachableFrom(refs, Marked) \subseteq {}
      BY <3>1, ReachableLeast
    <3> QED
      BY <3>2 DEF Survivors
  <2>5. heap' = [x \in {} |-> NewNode]
    BY <1>9, <2>4
  <2>6. heap' \in Heaps /\ Sound(heap') /\ Known(heap', strs') /\ DOMAIN heap' = {}
    BY <2>5, NoItems
  <2>7. b.stack.d \in Seq(Nat)
    BY <1>2 DEF Parsers, Stacks
  <2>8. Nested(heap', Null, b.stack.d) /\ AtEnd(heap', Null, b.stack.d, Null)
    BY <2>2, <2>6, <2>7, NothingHeld
  <2>9. Holds(b', heap', strs')
    BY <1>3, <2>1, <2>2, <2>6, <2>8 DEF Holds, Places
  <2>10. strs' \in SUBSET Seq(Nat) /\ seen' \in Seq(Nat) /\ hit' \in BOOLEAN /\ 0 \in Nat
    BY <1>1, <1>2, <2>3
  <2>11. Kept(Calling(b', heap', strs', seen', hit', 0))
    BY <1>3, <1>4, <2>6, <2>9, <2>10, CallingKept
  <2>12. Delivered(b')
    BY <1>3, <2>2 DEF Delivered
  <2> QED
    BY <2>11, <2>12 DEF Holding, Delivered
<1> QED
  BY <1>11, <1>12 DEF Inv

(***************************************************************************)
(* The inductive invariant: what is so between two calls of the client.    *)
(***************************************************************************)
THEOREM SxInvariant == Spec => []Inv
<1>1. Init => Inv
  BY Starts
<1>2. Inv /\ [Next]_vars => Inv'
  <2> SUFFICES ASSUME Inv, [Next]_vars PROVE Inv'
    OBVIOUS
  <2>1. ASSUME NEW k \in 1 .. Len(text), NEW fail \in 0 .. MaxFail, Read(k, fail) PROVE Inv'
    BY <2>1, ReadKeeps
  <2>2. CASE Collect
    BY <2>2, CollectKeeps
  <2>3. CASE UNCHANGED vars
    <3>1. /\ b' = b /\ heap' = heap /\ strs' = strs /\ text' = text /\ pos' = pos /\ seen' = seen
          /\ hit' = hit /\ lost' = lost
      BY <2>3 DEF vars
    <3> QED
      BY <3>1 DEF Inv, Reading, Holding, Buffered, Delivered, ListsLeft, Fits, Decodes
  <2> QED
    BY <2>1, <2>2, <2>3 DEF Next
<1> QED
  BY <1>1, <1>2, PTL DEF Spec

(***************************************************************************)
(* The parser is in one of its states, and its buffers hold what is put    *)
(* into them: six bytes of a character, four digits of an escape, an atom  *)
(* in what ag_append has allocated.                                        *)
(***************************************************************************)
THEOREM SxTyped == Spec => []TypeOK
<1>1. Inv => TypeOK
  <2> SUFFICES ASSUME Inv PROVE TypeOK
    OBVIOUS
  <2>1. b \in Parsers /\ Fits(b) /\ Decodes(b.u)
    BY DEF Inv, Reading, Buffered
  <2>2. /\ b.s \in States /\ b.depth \in Nat /\ b.root \in Nat /\ b.cue \in Nat /\ b.u \in Decoders
        /\ b.stack \in Stacks
    BY <2>1 DEF Parsers
  <2>3. b.stack.d \in Seq(Nat) /\ b.u.r \in Seq(Nat) /\ b.u.s \in 0 .. 8
    BY <2>2 DEF Decoders, Stacks
  <2>4. \A i \in 1 .. Len(b.stack.d) : b.stack.d[i] \in Nat
    BY <2>3, ElementOfSeq
  <2>5. {b.root, b.cue} \cup StackElements(b.stack) \subseteq Nat
    BY <2>2, <2>4 DEF StackElements
  <2>6. Len(b.u.r) <= 6
    <3> DEFINE n == Len(b.u.r)
               m == ToCome(b.u.s)
    <3>1. n \in Nat /\ n + m <= 4
      BY <2>1, <2>3, LenProperties DEF Decodes
    <3>2. m \in Nat
      BY <2>3 DEF ToCome
    <3>3. Len(b.u.r) <= 6 <=> n <= 6
      OBVIOUS
    <3> HIDE DEF n, m
    <3> QED
      BY <3>1, <3>2, <3>3
  <2>7. StackSize(b.stack) <= b.stack.room + (IF b.stack.past THEN 1 ELSE 0)
    <3> DEFINE n == Len(b.stack.d)
               m == b.stack.room
               past == b.stack.past
    <3>1. n \in Nat /\ m \in Nat /\ n <= m /\ past \in BOOLEAN
      BY <2>1, <2>2, <2>3, LenProperties DEF Fits, Stacks
    <3>2. StackSize(b.stack) = n + (IF past THEN 1 ELSE 0)
      BY DEF StackSize
    <3> HIDE DEF n
    <3> QED
      BY <3>1, <3>2
  <2> QED
    BY <2>1, <2>2, <2>5, <2>6, <2>7 DEF TypeOK, States, Fits
<1> QED
  BY <1>1, SxInvariant, PTL

(***************************************************************************)
(* The stack of the parser holds the open lists, each the last item of the *)
(* one below it, depth counts them and cue is the last item of the         *)
(* innermost one, whatever allocations failed on the way. gc_stack_size is *)
(* depth, but one more after a push that failed; the parser is in error    *)
(* then.                                                                   *)
(***************************************************************************)
THEOREM ListsNest == Spec => []OpenListsNest
<1>1. Inv => OpenListsNest
  <2> SUFFICES ASSUME Inv, ~lost PROVE OpenListsNest
    BY DEF OpenListsNest
  <2> DEFINE open == b.stack.d
             items(i) == IF i = 0 THEN b.root ELSE heap[open[i]].lst
  <2>1. Holds(b, heap, strs)
    BY CallingKept DEF Inv, Holding
  <2>2. /\ StackSize(b.stack) = b.depth + (IF b.stack.past THEN 1 ELSE 0)
        /\ b.stack.past => b.s = "ERROR"
    BY <2>1 DEF Holds, StackSize
  <2>3. \A i : items(i) = First(heap, b.root, open, i)
    BY DEF First
  <2>4. \A i \in 1 .. Len(open) :
          heap[open[i]].kind = "LIST" /\ LastItem(heap, items(i - 1)) = open[i]
    BY <2>1, <2>3 DEF Holds, Nested, Innermost
  <2>5. b.s # "ERROR" => b.cue = LastItem(heap, items(Len(open)))
    BY <2>1, <2>3 DEF Holds, AtEnd
  <2> QED
    BY <2>2, <2>4, <2>5 DEF OpenListsNest
<1> QED
  BY <1>1, SxInvariant, PTL

(***************************************************************************)
(* What the parser refers to is there: always the open lists and what      *)
(* comes first in the lists; and as long as gc_collect came only while it  *)
(* was idle, everything else, the strings of the atoms too.                *)
(***************************************************************************)
THEOREM HeldIsThere == Spec => []NothingDangles
<1>1. Inv => NothingDangles
  <2> SUFFICES ASSUME Inv PROVE NothingDangles
    OBVIOUS
  <2>1. StackElements(b.stack) \cup {heap[x].lst : x \in DOMAIN heap} \subseteq DOMAIN heap \cup {Null}
    BY DEF Inv, Reading, ListsLeft
  <2>2. ASSUME ~lost
        PROVE  /\ {b.root, b.cue} \cup {heap[x].next : x \in DOMAIN heap} \subseteq DOMAIN heap \cup {Null}
               /\ \A x \in DOMAIN heap : heap[x].kind \in {"PLAIN", "SQ", "DQ"} => heap[x].str \in strs
    <3>1. b \in Parsers /\ Holds(b, heap, strs)
      BY <2>2, CallingKept DEF Inv, Holding
    <3>2. Known(heap, strs)
      BY <3>1 DEF Holds
    <3> QED
      BY <3>1, <3>2, HeldThere DEF Known
  <2> QED
    BY <2>1, <2>2 DEF NothingDangles
<1> QED
  BY <1>1, SxInvariant, PTL

=============================================================================

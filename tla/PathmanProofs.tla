--------------------------- MODULE PathmanProofs ---------------------------
(***************************************************************************)
(* Proofs about the path manager.  A word that is put in from a node that  *)
(* ends a path is put in as the whole path would be from the root, which   *)
(* TrieProofs is about; the node that ends a path keeps it whatever is put *)
(* in afterwards; and of a bank only its first node is ever freed.         *)
(***************************************************************************)
EXTENDS Pathman, TrieProofs

-----------------------------------------------------------------------------
(* A word put in from below.                                               *)

\* The fork p on the way along a word that begins with u, and the decision e there.
Behind(u, p) ==
  [w |-> u \o p.w, x |-> p.x, prev |-> p.prev, parent |-> p.parent, i |-> p.i + Len(u)]
Later(e, o) == Decided(e.act, e.x, e.prev, e.parent, e.i + o, e.n)

(***************************************************************************)
(* The rest of a word is the same behind another.                          *)
(***************************************************************************)
LEMMA RestBehind ==
  ASSUME NEW u \in Seq(Nat), NEW w \in Seq(Nat), NEW i \in 1 .. Len(w) + 1
  PROVE  /\ u \o w \in Seq(Nat) /\ Len(u \o w) = Len(u) + Len(w)
         /\ \A j \in 1 .. Len(u) : (u \o w)[j] = u[j]
         /\ \A j \in 1 .. Len(w) : (u \o w)[j + Len(u)] = w[j]
         /\ Rest(u \o w, i + Len(u)) = Rest(w, i)
<1> DEFINE v == u \o w
           a == Len(u)
           b == Len(w)
<1>1. a \in Nat /\ b \in Nat
  OBVIOUS
<1>2. /\ v \in Seq(Nat) /\ Len(v) = a + b
      /\ \A j \in 1 .. a + b : v[j] = IF j <= a THEN u[j] ELSE w[j - a]
  BY ConcatProperties
<1> HIDE DEF v
<1>3. i \in 1 .. b + 1
  OBVIOUS
<1> HIDE DEF a, b
<1>4. ASSUME NEW j \in 1 .. a PROVE v[j] = u[j]
  BY <1>1, <1>2
<1>5. ASSUME NEW j \in 1 .. b PROVE v[j + a] = w[j]
  <2>1. j + a \in 1 .. a + b /\ ~(j + a <= a) /\ (j + a) - a = j
    BY <1>1
  <2> QED
    BY <1>2, <2>1
<1>6. Rest(v, i + a) = Rest(w, i)
  <2> DEFINE k == i + a
             s == Rest(v, k)
             t == Rest(w, i)
  <2>1. k \in 1 .. Len(v) + 1
    BY <1>1, <1>2, <1>3
  <2>2. s \in Seq(Nat) /\ Len(s) = a + b - k + 1
        /\ \A j \in 1 .. a + b - k + 1 : s[j] = v[k + j - 1]
    <3>0. k \in Int
      BY <1>1, <1>3
    <3> HIDE DEF k
    <3>1. v \in Seq(Nat) /\ k \in 1 .. Len(v) + 1
      BY <1>2, <2>1
    <3>2. s \in Seq(Nat) /\ Len(s) = Len(v) - k + 1
          /\ \A j \in 1 .. Len(v) - k + 1 : s[j] = v[k + j - 1]
      BY <3>1, RestParts
    <3> DEFINE n == Len(v)
    <3>3. n = a + b
      BY <1>2
    <3> HIDE DEF s, n
    <3>4. n - k + 1 = a + b - k + 1
      BY <1>1, <3>0, <3>3
    <3> QED
      BY <3>2, <3>4 DEF n
  <2>3. t \in Seq(Nat) /\ Len(t) = b - i + 1 /\ \A j \in 1 .. b - i + 1 : t[j] = w[i + j - 1]
    BY RestParts DEF b
  <2>4. a + b - k + 1 = b - i + 1
    BY <1>1, <1>3
  <2> HIDE DEF s, t
  <2>5. ASSUME NEW j \in 1 .. b - i + 1 PROVE s[j] = t[j]
    <3>1. i + j - 1 \in 1 .. b /\ k + j - 1 = (i + j - 1) + a
      BY <1>1, <1>3
    <3> HIDE DEF k
    <3>2. v[k + j - 1] = w[i + j - 1]
      BY <1>5, <3>1
    <3> QED
      BY <2>2, <2>3, <2>4, <3>2
  <2> HIDE DEF k
  <2>6. s = t
    <3>1. Len(s) = Len(t) /\ \A j \in 1 .. Len(s) : s[j] = t[j]
      BY <2>2, <2>3, <2>4, <2>5
    <3> QED
      BY <2>2, <2>3, <3>1, SeqEqual
  <2> QED
    BY <2>6 DEF k, s, t
<1> QED
  BY <1>2, <1>4, <1>5, <1>6 DEF v, a, b

(***************************************************************************)
(* A fork behind another word.                                             *)
(***************************************************************************)
LEMMA ForkBehind ==
  ASSUME NEW u \in Seq(Nat), NEW p \in Fork
  PROVE  /\ Behind(u, p) \in Fork
         /\ Len(u) \in Nat /\ p.i \in Nat /\ Len(p.w) \in Nat
         /\ Len(u \o p.w) = Len(u) + Len(p.w)
         /\ (u \o p.w)[p.i + Len(u)] = p.w[p.i]
         /\ Agreeing(Behind(u, p)) = Agreeing(p)
<1> DEFINE w == p.w
           i == p.i
           a == Len(u)
           b == Len(w)
<1>1. /\ w \in Seq(Nat) /\ p.x \in Link /\ p.prev \in Link /\ p.parent \in Link
      /\ i \in Nat /\ i >= 1 /\ i <= b /\ a \in Nat /\ b \in Nat
  BY DEF Fork, Pos
<1>2. i + 1 \in 1 .. Len(w) + 1 /\ i \in 1 .. Len(w)
  BY <1>1
<1> HIDE DEF w, i
<1>3. /\ u \o w \in Seq(Nat) /\ Len(u \o w) = a + b
      /\ (u \o w)[i + a] = w[i]
      /\ Rest(u \o w, (i + 1) + a) = Rest(w, i + 1)
  BY <1>1, <1>2, RestBehind
<1> HIDE DEF a, b
<1>4. i + a \in Pos /\ i + a <= a + b /\ (i + a) + 1 = (i + 1) + a
  BY <1>1 DEF Pos
<1>5. Behind(u, p) = [w |-> u \o w, x |-> p.x, prev |-> p.prev, parent |-> p.parent, i |-> i + a]
  BY DEF Behind, w, i, a
<1>6. Behind(u, p) \in Fork
  BY <1>1, <1>3, <1>4, <1>5 DEF Fork
<1>7. Agreeing(Behind(u, p)) = Agreeing(p)
  <2>1. Agreeing(Behind(u, p)) = Common(Piece(p.x), Rest(u \o w, (i + a) + 1))
    BY <1>5 DEF Agreeing
  <2>2. Agreeing(p) = Common(Piece(p.x), Rest(w, i + 1))
    BY DEF Agreeing, w, i
  <2> QED
    BY <1>3, <1>4, <2>1, <2>2
<1> QED
  BY <1>1, <1>3, <1>6, <1>7 DEF w, i, a, b

(***************************************************************************)
(* The decision behind another word is the same, later in it.              *)
(***************************************************************************)
LEMMA DecideBehind ==
  ASSUME NEW at, NEW rank, NEW from, Shape(node, used, root, at, rank, from),
         NEW u \in Seq(Nat), NEW p \in Fork
  PROVE  /\ DecideFrom[Behind(u, p)] = Later(DecideFrom[p], Len(u))
         /\ DecideFrom[p].i \in 1 .. Len(p.w)
<1> DEFINE o == Len(u)
           T == {n \in Nat : \A q \in Fork : Height(q.x, used, rank) = n
                               => /\ DecideFrom[Behind(u, q)] = Later(DecideFrom[q], o)
                                  /\ DecideFrom[q].i \in 1 .. Len(q.w)}
<1>1. ASSUME NEW q \in Fork PROVE Height(q.x, used, rank) \in Nat
  BY HeightNat DEF Fork
<1>2. ASSUME NEW n \in Nat, \A k \in Nat : k < n => k \in T
      PROVE  n \in T
  <2> SUFFICES ASSUME NEW q \in Fork, Height(q.x, used, rank) = n
               PROVE  /\ DecideFrom[Behind(u, q)] = Later(DecideFrom[q], o)
                      /\ DecideFrom[q].i \in 1 .. Len(q.w)
    OBVIOUS
  <2> DEFINE r == Behind(u, q)
             i == q.i
             l == Len(q.w)
             m == Agreeing(q)
             c == node[q.x].c
             a == q.w[q.i]
  <2>1. r \in Fork /\ DecideFrom[r] = DecideBody(r, DecideFrom)
        /\ DecideFrom[q] = DecideBody(q, DecideFrom)
    BY ForkBehind, DecideUnfolds
  <2>2. /\ r.x = q.x /\ r.prev = q.prev /\ r.parent = q.parent /\ r.i = i + o
        /\ Len(r.w) = o + l /\ r.w[r.i] = a /\ Agreeing(r) = m
        /\ o \in Nat /\ i \in Nat /\ l \in Nat
    BY ForkBehind DEF Behind
  <2>9. 1 <= i /\ i <= l
    BY <2>2 DEF Fork, Pos
  <2>3. CASE q.x = NoNode
    <3>1. DecideFrom[q] = Decided("FAILURE", q.x, q.prev, q.parent, i, 0)
      BY <2>1, <2>3 DEF DecideBody
    <3>2. DecideFrom[r] = Decided("FAILURE", q.x, q.prev, q.parent, i + o, 0)
      BY <2>1, <2>2, <2>3 DEF DecideBody
    <3> QED
      BY <2>2, <2>9, <3>1, <3>2 DEF Later, Decided
  <2>4. CASE q.x # NoNode
    <3>1. /\ Beside(q) \in Fork /\ Height(Beside(q).x, used, rank) < n
          /\ i + m # l => Below(q) \in Fork
          /\ Height(Below(q).x, used, rank) < n
          /\ m \in Nat
      BY <2>4, ForksAfter
    <3>2. Beside(r) = Behind(u, Beside(q))
      <4> DEFINE y == Get(node[q.x].next)
      <4>1. y \in Link /\ q.x \in Link
        <5>1. q.x \in Link
          BY DEF Fork
        <5>2. q.x \in Index
          BY <2>4, <5>1, NoNodeIsNone
        <5> QED
          BY <5>1, <5>2, GetLinks
      <4>2. Beside(q) = [q EXCEPT !.x = y, !.prev = q.x] /\ Beside(r) = [r EXCEPT !.x = y, !.prev = q.x]
        BY <2>2 DEF Beside
      <4> HIDE DEF y, r
      <4>3. Beside(q) = [w |-> q.w, x |-> y, prev |-> q.x, parent |-> q.parent, i |-> q.i]
        BY <4>1, <4>2, ForkMoved
      <4>4. Beside(r) = [w |-> r.w, x |-> y, prev |-> q.x, parent |-> r.parent, i |-> r.i]
        BY <2>1, <4>1, <4>2, ForkMoved
      <4>5. r.w = u \o q.w
        BY DEF r, Behind
      <4> QED
        BY <2>2, <4>3, <4>4, <4>5 DEF Behind
    <3>3. Below(r) = Behind(u, Below(q))
      <4>1. (i + o) + m + 1 = (i + m + 1) + o
        BY <2>2, <3>1
      <4>2. r.w = u \o q.w
        BY DEF Behind
      <4>3. Below(r) = [w |-> u \o q.w, x |-> Get(node[q.x].child), prev |-> NoNode,
                        parent |-> q.x, i |-> (i + o) + m + 1]
        BY <2>2, <4>2 DEF Below
      <4>4. Below(q) = [w |-> q.w, x |-> Get(node[q.x].child), prev |-> NoNode,
                        parent |-> q.x, i |-> i + m + 1]
        BY DEF Below
      <4> DEFINE y == Get(node[q.x].child)
                 j == i + m + 1
                 k == (i + o) + m + 1
      <4>5. k = j + o
        BY <4>1
      <4> HIDE DEF y, j, k, r
      <4>6. /\ Below(q).w = q.w /\ Below(q).x = y /\ Below(q).prev = NoNode
            /\ Below(q).parent = q.x /\ Below(q).i = j
        BY <4>4 DEF y, j
      <4>7. Behind(u, Below(q)) = [w |-> u \o q.w, x |-> y, prev |-> NoNode,
                                   parent |-> q.x, i |-> j + o]
        BY <4>6 DEF Behind, o
      <4> QED
        BY <4>3, <4>5, <4>7 DEF y, k
    <3>4. /\ DecideFrom[Beside(r)] = Later(DecideFrom[Beside(q)], o)
          /\ DecideFrom[Beside(q)].i \in 1 .. l
      <4>1. Height(Beside(q).x, used, rank) \in T
        BY <1>1, <1>2, <3>1
      <4>2. Beside(q).w = q.w
        BY <3>1 DEF Beside, Fork
      <4> QED
        BY <3>1, <3>2, <4>1, <4>2
    <3>5. i + m # l => /\ DecideFrom[Below(r)] = Later(DecideFrom[Below(q)], o)
                       /\ DecideFrom[Below(q)].i \in 1 .. l
      <4>1. ASSUME i + m # l PROVE Height(Below(q).x, used, rank) \in T
        BY <1>1, <1>2, <3>1, <4>1
      <4>2. Below(q).w = q.w
        BY DEF Below
      <4> QED
        BY <3>1, <3>3, <4>1, <4>2
    <3> DEFINE z == q.x
               v == q.prev
               t == q.parent
               s == Len(Piece(q.x))
               g == DecideFrom[Beside(q)]
               h == DecideFrom[Below(q)]
               g2 == DecideFrom[Beside(r)]
               h2 == DecideFrom[Below(r)]
    <3>6. DecideFrom[q] =
            IF a < c THEN Decided(IF v # NoNode THEN "PREV" ELSE "PARENT", z, v, t, i, m)
            ELSE IF a > c
              THEN IF node[z].next # NoNode THEN g ELSE Decided("PREV", z, z, t, i, 0)
            ELSE IF i = l
              THEN Decided(IF node[z].str # <<>> THEN "SPLIT_0_SET" ELSE "SET", z, v, t, i, m)
            ELSE IF i + m = l THEN Decided("SPLIT_N_CHILD", z, v, t, i + m, m)
            ELSE IF m < s THEN Decided("SPLIT_N_NEXT", z, v, t, i + m + 1, m)
            ELSE IF Get(node[z].child) # NoNode THEN h
            ELSE Decided("CHILD", z, v, t, i + m + 1, m)
      BY <2>1, <2>4 DEF DecideBody, Here
    <3>7. DecideFrom[r] =
            IF a < c THEN Decided(IF v # NoNode THEN "PREV" ELSE "PARENT", z, v, t, i + o, m)
            ELSE IF a > c
              THEN IF node[z].next # NoNode THEN g2 ELSE Decided("PREV", z, z, t, i + o, 0)
            ELSE IF i + o = o + l
              THEN Decided(IF node[z].str # <<>> THEN "SPLIT_0_SET" ELSE "SET", z, v, t, i + o, m)
            ELSE IF i + o + m = o + l THEN Decided("SPLIT_N_CHILD", z, v, t, i + o + m, m)
            ELSE IF m < s THEN Decided("SPLIT_N_NEXT", z, v, t, i + o + m + 1, m)
            ELSE IF Get(node[z].child) # NoNode THEN h2
            ELSE Decided("CHILD", z, v, t, i + o + m + 1, m)
      <4> HIDE DEF r, m, a, l, i, o
      <4> QED
        BY <2>1, <2>2, <2>4 DEF DecideBody, Here
    <3>8. o \in Nat /\ i \in Nat /\ l \in Nat /\ m \in Nat /\ 1 <= i /\ i + m <= l
      BY <2>2, <2>4, <2>9, <3>1, ForksAfter
    <3>9. /\ g2 = Later(g, o) /\ g.i \in 1 .. l
          /\ i + m # l => h2 = Later(h, o) /\ h.i \in 1 .. l
      BY <3>4, <3>5
    <3> HIDE DEF z, v, t, s, g, h, g2, h2, i, l, m, c, a, o, r
    <3>10. /\ (i + o = o + l) = (i = l) /\ (i + o + m = o + l) = (i + m = l)
           /\ i + o + m = (i + m) + o /\ i + o + m + 1 = (i + m + 1) + o
      BY <3>8
    <3>11. \A act, y, before, j, n1 :
              Later(Decided(act, y, before, t, j, n1), o) = Decided(act, y, before, t, j + o, n1)
      BY DEF Later, Decided
    <3>12. DecideFrom[r] =
            IF a < c THEN Decided(IF v # NoNode THEN "PREV" ELSE "PARENT", z, v, t, i + o, m)
            ELSE IF a > c
              THEN IF node[z].next # NoNode THEN g2 ELSE Decided("PREV", z, z, t, i + o, 0)
            ELSE IF i = l
              THEN Decided(IF node[z].str # <<>> THEN "SPLIT_0_SET" ELSE "SET", z, v, t, i + o, m)
            ELSE IF i + m = l THEN Decided("SPLIT_N_CHILD", z, v, t, (i + m) + o, m)
            ELSE IF m < s THEN Decided("SPLIT_N_NEXT", z, v, t, (i + m + 1) + o, m)
            ELSE IF Get(node[z].child) # NoNode THEN h2
            ELSE Decided("CHILD", z, v, t, (i + m + 1) + o, m)
      BY <3>7, <3>10
    <3>13. DecideFrom[r] = Later(DecideFrom[q], o)
      <4>1. CASE a < c
        BY <3>6, <3>11, <3>12, <4>1
      <4>2. CASE ~(a < c) /\ a > c
        BY <3>6, <3>9, <3>11, <3>12, <4>2
      <4>3. CASE ~(a < c) /\ ~(a > c) /\ i = l
        BY <3>6, <3>11, <3>12, <4>3
      <4>4. CASE ~(a < c) /\ ~(a > c) /\ i # l /\ i + m = l
        BY <3>6, <3>11, <3>12, <4>4
      <4>5. CASE ~(a < c) /\ ~(a > c) /\ i # l /\ i + m # l
        BY <3>6, <3>9, <3>11, <3>12, <4>5
      <4> QED
        BY <4>1, <4>2, <4>3, <4>4, <4>5
    <3>14. DecideFrom[q].i \in 1 .. l
      <4>1. i \in 1 .. l /\ (i + m = l => i + m \in 1 .. l) /\ (i + m # l => i + m + 1 \in 1 .. l)
        BY <3>8
      <4>2. \A act, y, before, j, n1 : Decided(act, y, before, t, j, n1).i = j
        BY DEF Decided
      <4>3. CASE a < c
        BY <3>6, <4>1, <4>2, <4>3
      <4>4. CASE ~(a < c) /\ a > c
        BY <3>6, <3>9, <4>1, <4>2, <4>4
      <4>5. CASE ~(a < c) /\ ~(a > c) /\ i = l
        BY <3>6, <4>1, <4>2, <4>5
      <4>6. CASE ~(a < c) /\ ~(a > c) /\ i # l /\ i + m = l
        BY <3>6, <4>1, <4>2, <4>6
      <4>7. CASE ~(a < c) /\ ~(a > c) /\ i # l /\ i + m # l
        BY <3>6, <3>9, <4>1, <4>2, <4>7
      <4> QED
        BY <4>3, <4>4, <4>5, <4>6, <4>7
    <3> QED
      BY <3>13, <3>14 DEF r, l
  <2> QED
    BY <2>3, <2>4
<1>3. T = Nat
  <2> HIDE DEF T
  <2>1. T \in SUBSET Nat
    BY DEF T
  <2> QED
    BY <1>2, <2>1, NatInductBelow
<1> HIDE DEF o
<1> QED
  BY <1>1, <1>3 DEF o

(***************************************************************************)
(* A word that follows a slash has one character more.                     *)
(***************************************************************************)
LEMMA AfterSlash ==
  ASSUME NEW u \in Seq(Nat), NEW v \in Seq(Nat)
  PROVE  /\ <<Slash>> \o v \in Seq(Nat) /\ Len(<<Slash>> \o v) = 1 + Len(v)
         /\ (<<Slash>> \o v)[1] = Slash
         /\ u \o <<Slash>> \in Seq(Nat) /\ Len(u \o <<Slash>>) = Len(u) + 1
         /\ \A j \in 1 .. Len(u) : (u \o <<Slash>>)[j] = u[j]
         /\ (u \o <<Slash>>)[Len(u) + 1] = Slash
         /\ u \o (<<Slash>> \o v) = (u \o <<Slash>>) \o v
<1>1. Slash \in Nat
  BY PathmanAssumption
<1> DEFINE c == Slash
<1> HIDE DEF c
<1>2. c \in Nat
  BY <1>1 DEF c
<1>3. <<c>> \in Seq(Nat) /\ Len(<<c>>) = 1 /\ <<c>>[1] = c /\ Len(u) \in Nat /\ Len(v) \in Nat
  BY <1>2
<1>4. /\ <<c>> \o v \in Seq(Nat) /\ Len(<<c>> \o v) = 1 + Len(v)
      /\ (<<c>> \o v)[1] = c
  <2>1. /\ <<c>> \o v \in Seq(Nat) /\ Len(<<c>> \o v) = Len(<<c>>) + Len(v)
        /\ \A j \in 1 .. Len(<<c>>) + Len(v) :
             (<<c>> \o v)[j] = IF j <= Len(<<c>>) THEN <<c>>[j] ELSE v[j - Len(<<c>>)]
    BY <1>3, ConcatProperties
  <2>2. 1 \in 1 .. Len(<<c>>) + Len(v) /\ 1 <= Len(<<c>>)
    BY <1>3
  <2> QED
    BY <1>3, <2>1, <2>2
<1>5. /\ u \o <<c>> \in Seq(Nat) /\ Len(u \o <<c>>) = Len(u) + 1
      /\ \A j \in 1 .. Len(u) : (u \o <<c>>)[j] = u[j]
      /\ (u \o <<c>>)[Len(u) + 1] = c
  <2>1. /\ u \o <<c>> \in Seq(Nat) /\ Len(u \o <<c>>) = Len(u) + Len(<<c>>)
        /\ \A j \in 1 .. Len(u) + Len(<<c>>) :
             (u \o <<c>>)[j] = IF j <= Len(u) THEN u[j] ELSE <<c>>[j - Len(u)]
    BY <1>3, ConcatProperties
  <2>2. \A j \in 1 .. Len(u) : j \in 1 .. Len(u) + Len(<<c>>) /\ j <= Len(u)
    BY <1>3
  <2>3. /\ Len(u) + 1 \in 1 .. Len(u) + Len(<<c>>) /\ ~(Len(u) + 1 <= Len(u))
        /\ Len(u) + 1 - Len(u) = 1
    BY <1>3
  <2> QED
    BY <1>3, <2>1, <2>2, <2>3
<1>6. u \o (<<c>> \o v) = (u \o <<c>>) \o v
  <2>1. u \in Seq(Nat) /\ v \in Seq(Nat) /\ <<c>> \in Seq(Nat)
    BY <1>3
  <2> HIDE DEF c
  <2> QED
    BY <2>1, ConcatAssociative
<1> QED
  BY <1>4, <1>5, <1>6 DEF c

(***************************************************************************)
(* What is decided below a node that ends a path is right for the whole    *)
(* path.                                                                   *)
(***************************************************************************)
LEMMA DecideAtRight ==
  ASSUME NEW at, NEW rank, NEW from, Shape(node, used, root, at, rank, from),
         NEW u \in Seq(Nat), NEW v \in Seq(Nat), v # <<>>,
         NEW x \in used, HasData(x), Word(node, at, x) = u \o <<Slash>>
  PROVE  LET w == <<Slash>> \o v
             e == DecideAt(x, w)
         IN  RightDecision(at, u \o w, Later(e, Len(u))) /\ e.i \in 1 .. Len(w)
<1> DEFINE w == <<Slash>> \o v
           p == ForkAt(w, x)
           r == Behind(u, p)
           o == Len(u)
<1>1. x \in Index /\ x \in Link /\ NoNode \in Link
  BY NoNodeIsNone DEF Shape
<1>2. Depth(at, x) = o /\ node[x].c = Slash /\ \A j \in 1 .. o : at[x][j] = u[j]
  <2>1. Size(node, x) = 0
    BY <1>1, PieceIsStr
  <2>2. WordIs(node, at, x)
    BY <1>1, WordParts
  <2> DEFINE s == u \o <<Slash>>
             d == Depth(at, x)
  <2>3. /\ d \in Nat /\ Len(s) = d + 1 + 0 /\ s[d + 1] = node[x].c
        /\ \A j \in 1 .. d : s[j] = at[x][j]
    BY <2>1, <2>2 DEF WordIs
  <2>4. /\ Len(s) = o + 1 /\ \A j \in 1 .. o : s[j] = u[j]
        /\ s[o + 1] = Slash
    BY AfterSlash
  <2>5. o \in Nat
    OBVIOUS
  <2> HIDE DEF s, d, o
  <2>6. d = o
    BY <2>3, <2>4, <2>5
  <2> QED
    BY <2>3, <2>4, <2>6 DEF d
<1>3. w \in Seq(Nat) /\ Len(w) = 1 + Len(v) /\ w[1] = Slash
  BY AfterSlash
<1>4. Len(v) \in Nat /\ o \in Nat /\ Len(w) \in Nat /\ 1 <= Len(w)
  BY <1>3
<1> HIDE DEF w
<1>5. p \in Fork /\ p.w = w /\ p.i = 1 /\ p.x = x /\ p.prev = NoNode
  BY <1>1, <1>3, <1>4 DEF ForkAt, Fork, Pos
<1> HIDE DEF p
<1>6. /\ r \in Fork /\ r.w = u \o w /\ r.x = x /\ r.prev = NoNode /\ r.i = 1 + o
      /\ Len(u \o w) = o + Len(w) /\ (u \o w)[1 + o] = Slash
  <2>1. /\ r \in Fork /\ Len(u \o p.w) = o + Len(p.w)
        /\ (u \o p.w)[p.i + o] = p.w[p.i]
    BY <1>5, ForkBehind
  <2>2. r.w = u \o p.w /\ r.x = p.x /\ r.prev = p.prev /\ r.i = p.i + o
    BY DEF Behind
  <2> HIDE DEF r
  <2> QED
    BY <1>3, <1>5, <2>1, <2>2
<1>7. u \o w \in Seq(Nat) /\ \A j \in 1 .. o : (u \o w)[j] = u[j]
  <2>1. 1 \in 1 .. Len(w) + 1
    BY <1>4
  <2> QED
    BY <1>3, <2>1, RestBehind
<1> HIDE DEF r
<1>8. ForkIs(at, u \o w, r)
  <2>1. Reached(at, u \o w, x, 1 + o)
    <3>1. 1 + o = o + 1 /\ 1 + o <= o + Len(w)
      BY <1>4
    <3> QED
      BY <1>2, <1>6, <1>7, <3>1 DEF Reached
  <2> QED
    BY <1>2, <1>6, <2>1 DEF ForkIs
<1>9. RightDecision(at, u \o w, DecideFrom[r])
  BY <1>6, <1>7, <1>8, DecideForkRight
<1>10. DecideFrom[r] = Later(DecideFrom[p], o) /\ DecideFrom[p].i \in 1 .. Len(w)
  BY <1>5, DecideBehind DEF r
<1>11. DecideAt(x, w) = DecideFrom[p]
  BY DEF DecideAt, p
<1> QED
  BY <1>9, <1>10, <1>11 DEF w, o

(***************************************************************************)
(* What is decided for a word puts the same nodes in as the same decision  *)
(* later in a longer one.                                                  *)
(***************************************************************************)
LEMMA PutBehind ==
  ASSUME NEW u \in Seq(Nat), NEW w \in Seq(Nat), NEW e, e.i \in 1 .. Len(w)
  PROVE  LET e2 == Later(e, Len(u)) IN
         /\ StrideLength(u \o w, e2) = StrideLength(w, e)
         /\ \A d, ns : /\ Inserted(u \o w, d, e2, ns) = Inserted(w, d, e, ns)
                        /\ EndOf(e2, ns) = EndOf(e, ns)
<1> DEFINE e2 == Later(e, Len(u))
           y == u \o w
<1>1. /\ e2.act = e.act /\ e2.x = e.x /\ e2.prev = e.prev /\ e2.parent = e.parent
      /\ e2.i = e.i + Len(u) /\ e2.n = e.n
  BY DEF Later, Decided
<1>2. Rest(y, e2.i) = Rest(w, e.i)
  <2>1. e.i \in 1 .. Len(w) + 1
    OBVIOUS
  <2> QED
    BY <1>1, <2>1, RestBehind
<1> HIDE DEF e2, y
<1>3. StrideLength(y, e2) = StrideLength(w, e)
  BY <1>1, <1>2 DEF StrideLength
<1>4. ASSUME NEW d, NEW ns PROVE Inserted(y, d, e2, ns) = Inserted(w, d, e, ns)
  BY <1>1, <1>2 DEF Inserted
<1>5. ASSUME NEW ns PROVE EndOf(e2, ns) = EndOf(e, ns)
  BY <1>1 DEF EndOf
<1> QED
  BY <1>3, <1>4, <1>5 DEF e2, y

(***************************************************************************)
(* What a decision puts in for the longer word, the same decision earlier  *)
(* puts in for its end.                                                    *)
(***************************************************************************)
LEMMA PutsBehind ==
  ASSUME NEW at, NEW u \in Seq(Nat), NEW w \in Seq(Nat), NEW e, e.i \in 1 .. Len(w),
         NEW d, NEW ns, PutsIn(at, u \o w, d, Later(e, Len(u)), ns)
  PROVE  Grown(node, used, at, Inserted(w, d, e, ns).node, used \cup Range(ns),
               Inserted(w, d, e, ns).root, Also(kv, u \o w, d), EndOf(e, ns), u \o w)
<1> DEFINE e2 == Later(e, Len(u))
<1>1. Inserted(u \o w, d, e2, ns) = Inserted(w, d, e, ns) /\ EndOf(e2, ns) = EndOf(e, ns)
  BY PutBehind
<1> HIDE DEF e2
<1> QED
  BY <1>1 DEF PutsIn, e2

(***************************************************************************)
(* A word put in below a node that ends a path puts in the whole path.     *)
(***************************************************************************)
LEMMA PutBelow ==
  ASSUME NEW at, NEW rank, NEW from, Now(at, rank, from), Accounts(used, free, top),
         NEW u \in Seq(Nat), NEW v \in Seq(Nat), v # <<>>,
         NEW x \in used, HasData(x), Word(node, at, x) = u \o <<Slash>>, NEW d \in Data,
         NEW w, w = <<Slash>> \o v, Put(w, d, DecideAt(x, w))
  PROVE  /\ Grown(node, used, at, node', used', root', Also(kv, u \o w, d),
                  EndNode(w, DecideAt(x, w)), u \o w)
         /\ Accounts(used', free', top')
<1> DEFINE e == DecideAt(x, w)
           e2 == Later(e, Len(u))
           y == u \o w
           k == StrideLength(w, e)
           ns == Taken(k)
<1>1. Shape(node, used, root, at, rank, from)
  BY DEF Now
<1>2. w \in Seq(Nat)
  BY AfterSlash
<1>3. RightDecision(at, y, e2) /\ e.i \in 1 .. Len(w)
  BY <1>1, DecideAtRight
<1>4. y \in Seq(Nat)
  BY <1>2, ConcatProperties
<1> HIDE DEF e
<1>5. StrideLength(y, e2) = k
  BY <1>2, <1>3, PutBehind
<1> HIDE DEF e2, y, k
<1>6. k \in Nat
  BY <1>1, <1>3, <1>4, <1>5, DecisionTakes
<1>7. DOMAIN ns = 1 .. k /\ Len(ns) = k
  BY <1>6 DEF Taken
<1>8. /\ TopAfter(k) <= MaxNodes
      /\ node' = Inserted(w, d, e, ns).node /\ root' = Inserted(w, d, e, ns).root
      /\ used' = used \cup Range(ns) /\ free' = FreeLeft(k) /\ top' = TopAfter(k)
  <2>1. /\ TopAfter(Len(ns)) <= MaxNodes
        /\ node' = Inserted(w, d, e, ns).node /\ root' = Inserted(w, d, e, ns).root
        /\ used' = used \cup Range(ns) /\ free' = FreeLeft(Len(ns)) /\ top' = TopAfter(Len(ns))
    BY DEF Put, k, e
  <2> HIDE DEF ns
  <2> QED
    BY <1>7, <2>1
<1>9. Fresh(ns, k, used) /\ Accounts(used \cup Range(ns), FreeLeft(k), TopAfter(k))
  BY <1>6, <1>8, TakenAccounts
<1>10. EndNode(w, e) = EndOf(e, ns)
  BY DEF EndNode, EndOf, Last, k
<1> HIDE DEF ns
<1>11. PutsIn(at, y, d, e2, ns)
  BY <1>3, <1>4, <1>5, <1>9, DecisionKeeps
<1>12. Grown(node, used, at, node', used', root', Also(kv, y, d), EndNode(w, e), y)
  <2>1. Grown(node, used, at, Inserted(w, d, e, ns).node, used \cup Range(ns),
              Inserted(w, d, e, ns).root, Also(kv, y, d), EndOf(e, ns), y)
    BY <1>2, <1>3, <1>11, PutsBehind DEF e2, y
  <2> QED
    BY <1>8, <1>10, <2>1
<1>13. Accounts(used', free', top')
  BY <1>8, <1>9
<1> QED
  BY <1>12, <1>13 DEF y, e

(***************************************************************************)
(* When there is no memory for its nodes, what is got is given back.       *)
(***************************************************************************)
LEMMA StrideFailsBelow ==
  ASSUME NEW at, NEW rank, NEW from, Now(at, rank, from), Accounts(used, free, top),
         NEW u \in Seq(Nat), NEW v \in Seq(Nat), v # <<>>,
         NEW x \in used, HasData(x), Word(node, at, x) = u \o <<Slash>>,
         NEW w, w = <<Slash>> \o v, StrideFails(w, DecideAt(x, w))
  PROVE  UNCHANGED <<node, used, root>> /\ Accounts(used', free', top')
<1> DEFINE e == DecideAt(x, w)
           e2 == Later(e, Len(u))
           y == u \o w
<1>1. Shape(node, used, root, at, rank, from)
  BY DEF Now
<1>2. w \in Seq(Nat)
  BY AfterSlash
<1>3. RightDecision(at, y, e2) /\ e.i \in 1 .. Len(w)
  BY <1>1, DecideAtRight
<1>4. y \in Seq(Nat)
  BY <1>2, ConcatProperties
<1> HIDE DEF e
<1>5. StrideLength(y, e2) = StrideLength(w, e)
  BY <1>2, <1>3, PutBehind
<1> HIDE DEF e2, y
<1>6. StrideLength(w, e) \in Nat
  BY <1>1, <1>3, <1>4, <1>5, DecisionTakes
<1>7. PICK k \in OutOfMemory(w, e) :
        /\ free' = Reverse(Taken(k)) \o FreeLeft(k) /\ top' = TopAfter(k)
        /\ UNCHANGED <<node, used, root>>
  BY DEF StrideFails, e
<1>8. k \in Nat /\ TopAfter(k) <= MaxNodes
  BY <1>6, <1>7 DEF OutOfMemory
<1>9. Fresh(Taken(k), k, used) /\ Accounts(used \cup Range(Taken(k)), FreeLeft(k), TopAfter(k))
  BY <1>8, TakenAccounts
<1>10. Accounts(used, Reverse(Taken(k)) \o FreeLeft(k), TopAfter(k))
  BY <1>9, GivenBack
<1> QED
  BY <1>7, <1>10

(***************************************************************************)
(* There is nothing to put in from where there is no node.                 *)
(***************************************************************************)
LEMMA NowhereFails ==
  ASSUME NEW at, NEW rank, NEW from, Shape(node, used, root, at, rank, from),
         NEW w \in Seq(Nat), w # <<>>
  PROVE  Refused(DecideAt(NoNode, w), FALSE)
<1> DEFINE p == ForkAt(w, NoNode)
<1>1. Len(w) \in Nat \ {0}
  BY EmptySeq
<1>2. p \in Fork /\ p.x = NoNode
  BY <1>1 DEF ForkAt, Fork, Link, Pos
<1> HIDE DEF p
<1>3. DecideFrom[p] = DecideBody(p, DecideFrom)
  BY <1>2, DecideUnfolds
<1>4. DecideFrom[p].act = "FAILURE"
  BY <1>2, <1>3 DEF DecideBody, Decided
<1> QED
  BY <1>4 DEF Refused, DecideAt, p

-----------------------------------------------------------------------------
(* Banks.                                                                  *)

\* Of a bank only the first node is ever on the free list, which ends with it.
BankIs(nodes, freed, taken, b) ==
  /\ freed \in 0 .. b
  /\ taken = 0 => freed = None
  /\ taken > 0 => (nodes[1].isused <=> freed = None)
  /\ freed # None => nodes[1].next = None

\* The node that mk says is the first, if it was free, or one never taken before.
MadeIs(nodes, freed, taken, b, mk) ==
  /\ mk.index \in 1 .. b /\ mk.free = None
  /\ \/ taken > 0 /\ ~nodes[1].isused /\ mk.p = 1 /\ mk.top = taken
     \/ freed = None /\ mk.p = taken + 1 /\ mk.top = taken + 1

(***************************************************************************)
(* Every index leads to the first node.                                    *)
(***************************************************************************)
LEMMA FirstOfBank ==
  ASSUME NEW b \in Nat \ {0}, NEW i \in 1 .. b
  PROVE  Position(i, b) = 1
<1>1. i - 1 \in Nat /\ i - 1 < b
  OBVIOUS
<1>2. (i - 1) \div b = 0
  BY <1>1, SMT
<1>3. 0 * b + 1 = 1
  OBVIOUS
<1> QED
  BY <1>2, <1>3 DEF Position

(***************************************************************************)
(* pathman_mkdir, pathman_mkfile.                                          *)
(***************************************************************************)
LEMMA MadeSo ==
  ASSUME NEW nodes, NEW freed, NEW taken \in Nat, NEW b \in Nat \ {0},
         BankIs(nodes, freed, taken, b)
  PROVE  MadeIs(nodes, freed, taken, b, Made(nodes, freed, taken, b))
<1> DEFINE mk == Made(nodes, freed, taken, b)
<1>1. CASE freed # None
  <2>1. freed \in 1 .. b /\ taken > 0 /\ ~nodes[1].isused /\ nodes[1].next = None
    BY <1>1 DEF BankIs, None
  <2>2. Position(freed, b) = 1
    BY <2>1, FirstOfBank
  <2>3. mk = [p |-> 1, index |-> freed, free |-> None, top |-> taken]
    BY <1>1, <2>1, <2>2 DEF Made
  <2> HIDE DEF mk
  <2> QED
    BY <2>1, <2>3 DEF MadeIs, mk
<1>2. CASE freed = None
  <2>1. mk = [p |-> taken + 1, index |-> (taken % b) + 1, free |-> None, top |-> taken + 1]
    BY <1>2 DEF Made
  <2>2. taken % b \in 0 .. b - 1
    BY SMT
  <2>3. (taken % b) + 1 \in 1 .. b
    BY <2>2
  <2> HIDE DEF mk
  <2> QED
    BY <1>2, <2>1, <2>3 DEF MadeIs, mk
<1> QED
  BY <1>1, <1>2

\* The nodes in T are in it also when they are taken and when they are freed.
Reusable(T) ==
  \A n \in T : /\ {"isused", "next"} \subseteq DOMAIN n
               /\ [n EXCEPT !.isused = TRUE] \in T
               /\ [n EXCEPT !.next = None, !.isused = FALSE] \in T

\* What does not belong to the free list is the same in m and n.
OthersSame(m, n) == \A f \in DOMAIN m \ {"isused", "next"} : n[f] = m[f]

(***************************************************************************)
(* The node made, as one of M; another than the first is only made while   *)
(* the first is in use.                                                    *)
(***************************************************************************)
LEMMA MadeWithin ==
  ASSUME NEW M \in Nat \ {0}, NEW nodes, NEW freed, NEW taken \in Nat, NEW b \in Nat \ {0},
         BankIs(nodes, freed, taken, b),
         NEW mk, MadeIs(nodes, freed, taken, b, mk), mk.top <= M
  PROVE  /\ 1 \in 1 .. M /\ mk.p \in 1 .. M /\ mk.index \in 1 .. b /\ mk.free = None
         /\ mk.top \in 1 .. M /\ mk.top \in Nat /\ mk.top > 0
         /\ mk.p # 1 => nodes[1].isused
<1>1. 1 \in 1 .. M
  OBVIOUS
<1>2. CASE taken > 0 /\ ~nodes[1].isused /\ mk.p = 1 /\ mk.top = taken
  BY <1>1, <1>2 DEF MadeIs
<1>3. CASE freed = None /\ mk.p = taken + 1 /\ mk.top = taken + 1
  <2>1. mk.p # 1 => taken > 0
    BY <1>3
  <2>2. mk.p \in 1 .. M
    BY <1>3
  <2> QED
    BY <1>1, <1>3, <2>1, <2>2 DEF MadeIs, BankIs
<1> QED
  BY <1>2, <1>3 DEF MadeIs

(***************************************************************************)
(* A bank whose first node is freed.                                       *)
(***************************************************************************)
LEMMA BankFreed ==
  ASSUME NEW nodes, NEW b \in Nat, NEW i \in 1 .. b, NEW taken \in Nat, taken > 0,
         nodes[1].isused = FALSE, nodes[1].next = None
  PROVE  BankIs(nodes, i, taken, b)
BY DEF BankIs, None

(***************************************************************************)
(* pathman_remdir, pathman_remfile of what was just made: the first node   *)
(* goes to the free list.                                                  *)
(***************************************************************************)
LEMMA ReleasedSo ==
  ASSUME NEW M \in Nat \ {0}, NEW T, NEW nodes \in [1 .. M -> T],
         Reusable(T),
         NEW freed, NEW taken \in Nat, NEW b \in Nat \ {0}, BankIs(nodes, freed, taken, b),
         NEW mk, MadeIs(nodes, freed, taken, b, mk), mk.top <= M
  PROVE  LET n2 == Released(nodes, mk, b) IN
         /\ n2 \in [1 .. M -> T]
         /\ \A p \in 1 .. M : OthersSame(nodes[p], n2[p])
         /\ BankIs(n2, mk.index, mk.top, b)
<1> DEFINE n1 == [nodes EXCEPT ![mk.p].isused = TRUE]
           n2 == Released(nodes, mk, b)
<1>1. /\ 1 \in 1 .. M /\ mk.p \in 1 .. M /\ mk.index \in 1 .. b /\ mk.free = None
      /\ mk.top \in Nat /\ mk.top > 0
      /\ mk.p # 1 => nodes[1].isused
  BY MadeWithin
<1>2. Position(mk.index, b) = 1
  BY <1>1, FirstOfBank
<1>3. /\ n1 \in [1 .. M -> T]
      /\ \A p \in 1 .. M : n1[p] = IF p = mk.p THEN [nodes[p] EXCEPT !.isused = TRUE] ELSE nodes[p]
  BY <1>1 DEF Reusable
<1> HIDE DEF n1
<1>4. n1[1].isused
  <2>1. CASE mk.p = 1
    <3>1. "isused" \in DOMAIN nodes[1]
      BY <1>1 DEF Reusable
    <3> QED
      BY <1>1, <1>3, <2>1, <3>1
  <2>2. CASE mk.p # 1
    BY <1>1, <1>3, <2>2
  <2> QED
    BY <2>1, <2>2
<1> DEFINE z == [n1[1] EXCEPT !.next = None, !.isused = FALSE]
<1>5. n2 = [n1 EXCEPT ![1] = z]
  <2>1. NodeAt(n1, mk.index, b) = 1
    BY <1>2, <1>4 DEF NodeAt
  <2> QED
    BY <1>1, <2>1 DEF Released, n1
<1>6. n1[1] \in T
  BY <1>1, <1>3
<1>7. /\ z \in T /\ z.isused = FALSE /\ z.next = None
      /\ \A f \in DOMAIN n1[1] \ {"isused", "next"} : z[f] = n1[1][f]
  BY <1>6 DEF Reusable
<1> HIDE DEF n2, z
<1>8. \A p \in 1 .. M : /\ DOMAIN n1[p] = DOMAIN nodes[p]
                        /\ \A f \in DOMAIN nodes[p] \ {"isused", "next"} : n1[p][f] = nodes[p][f]
  BY <1>3
<1>9. /\ n2 \in [1 .. M -> T] /\ n2[1] = z
      /\ \A p \in 1 .. M : p # 1 => n2[p] = n1[p]
  BY <1>1, <1>3, <1>5, <1>7
<1>10. BankIs(n2, mk.index, mk.top, b)
  BY <1>1, <1>7, <1>9, BankFreed
<1>11. ASSUME NEW p \in 1 .. M, NEW f \in DOMAIN nodes[p] \ {"isused", "next"}
       PROVE  n2[p][f] = nodes[p][f]
  <2>1. CASE p = 1
    BY <1>1, <1>7, <1>8, <1>9, <2>1
  <2>2. CASE p # 1
    <3>1. n2[p] = n1[p]
      BY <1>9, <2>2
    <3> QED
      BY <1>8, <3>1
  <2> QED
    BY <2>1, <2>2
<1>12. \A p \in 1 .. M : OthersSame(nodes[p], n2[p])
  BY <1>11 DEF OthersSame
<1> QED
  BY <1>9, <1>10, <1>12 DEF n2

-----------------------------------------------------------------------------
(* The inductive invariant.                                                *)

DirNode  == [isused : BOOLEAN, top : Link, next : 0 .. DirBank, child : 0 .. DirBank,
             file : 0 .. FileBank]
FileNode == [isused : BOOLEAN, next : 0 .. FileBank]

\* ds are directories, taken of which are taken; fs are files.
DirsAre(ds, freed, taken) ==
  /\ ds \in [1 .. MaxDirs -> DirNode] /\ taken \in 1 .. MaxDirs
  /\ BankIs(ds, freed, taken, DirBank)
FilesAre(fs, freed, taken) ==
  /\ fs \in [1 .. MaxFiles -> FileNode] /\ taken \in 0 .. MaxFiles
  /\ BankIs(fs, freed, taken, FileBank)

\* ps are paths of directories, which end with a slash.
PathsAre(ps) ==
  /\ ps \in [1 .. MaxDirs -> Words \cup {NoPath}]
  /\ \A p \in 1 .. MaxDirs : ps[p] # NoPath => \E u \in Seq(Nat) : ps[p] = u \o <<Slash>>

\* What stands for a directory in m ends with a slash.
DirKeys(m) == \A k \in DOMAIN m : m[k].isdir => \E u \in Seq(Nat) : k = u \o <<Slash>>

\* The directories ds have the nodes that end their paths ps.
EndPaths(nd, us, at, ps, ds) ==
  \A p \in 1 .. MaxDirs : ps[p] # NoPath /\ ds[p].top # NoNode =>
    /\ ds[p].top \in us /\ nd[ds[p].top].data # NoData
    /\ Word(nd, at, ds[p].top) = ps[p]

\* The trie holds m, with these nodes in it.
TopsAre(nd, us, rt, m, ps, ds) ==
  /\ Leads(nd, us)
  /\ \E at, rank, from : /\ Shape(nd, us, rt, at, rank, from) /\ Holds(nd, us, at, m)
                         /\ EndPaths(nd, us, at, ps, ds)

\* Only directories with the path w, which y ends, are not as they were.
OnlyNew(ps, ds, ps2, ds2, w, y) ==
  \A p \in 1 .. MaxDirs : ps2[p] # NoPath /\ ds2[p].top # NoNode =>
    \/ ps2[p] = ps[p] /\ ds2[p].top = ds[p].top
    \/ ps2[p] = w /\ ds2[p].top = y

PathmanInv ==
  /\ DOMAIN kv \subseteq Words /\ Range(kv) \subseteq Entries /\ DirKeys(kv)
  /\ Accounts(used, free, top)
  /\ DirsAre(dir, dfree, dtop) /\ FilesAre(file, ffree, ftop)
  /\ PathsAre(path)
  /\ TopsAre(node, used, root, kv, path, dir)

(***************************************************************************)
(* Constants.                                                              *)
(***************************************************************************)
LEMMA PathmanTypes ==
  /\ Slash \in Nat /\ MaxDirs \in Nat \ {0} /\ MaxFiles \in Nat \ {0}
  /\ DirBank \in Nat \ {0} /\ FileBank \in Nat \ {0} /\ MaxNodes \in Nat \ {0}
  /\ \A i \in 1 .. DirBank : Entry(TRUE, i) \in Entries
  /\ \A i \in 1 .. FileBank : Entry(FALSE, i) \in Entries
  /\ \A e \in Entries : e \in Data /\ (e.isdir => e.index \in 1 .. DirBank)
<1>1. Entries \subseteq Data
  BY PathmanAssumption
<1>2. \A e \in Entries : e.isdir => e.index \in 1 .. DirBank
  BY DEF Entries, Entry
<1>3. /\ \A i \in 1 .. DirBank : Entry(TRUE, i) \in Entries
      /\ \A i \in 1 .. FileBank : Entry(FALSE, i) \in Entries
  BY DEF Entries
<1> QED
  BY <1>1, <1>2, <1>3, PathmanAssumption, TrieAssumption

(***************************************************************************)
(* Two words in a row are a word.                                          *)
(***************************************************************************)
LEMMA ConcatTyped ==
  ASSUME NEW s \in Seq(Nat), NEW t \in Seq(Nat)
  PROVE  s \o t \in Seq(Nat) /\ Len(s \o t) = Len(s) + Len(t)
BY ConcatProperties

(***************************************************************************)
(* Nodes taken and nodes freed are nodes.                                  *)
(***************************************************************************)
LEMMA NodesFreed ==
  /\ \A n \in DirNode : /\ DOMAIN n = {"isused", "top", "next", "child", "file"}
                        /\ [n EXCEPT !.isused = TRUE] \in DirNode
                        /\ [n EXCEPT !.next = None, !.isused = FALSE] \in DirNode
  /\ \A n \in FileNode : /\ DOMAIN n = {"isused", "next"}
                         /\ [n EXCEPT !.isused = TRUE] \in FileNode
                         /\ [n EXCEPT !.next = None, !.isused = FALSE] \in FileNode
<1>1. None \in 0 .. DirBank /\ None \in 0 .. FileBank
  BY PathmanTypes DEF None
<1> DEFINE B == 0 .. DirBank
           F == 0 .. FileBank
<1>2. /\ DirNode = [isused : BOOLEAN, top : Link, next : B, child : B, file : F]
      /\ FileNode = [isused : BOOLEAN, next : F] /\ None \in B /\ None \in F
  BY <1>1 DEF DirNode, FileNode
<1> HIDE DEF B, F
<1>3. ASSUME NEW n \in DirNode
      PROVE  /\ DOMAIN n = {"isused", "top", "next", "child", "file"}
             /\ [n EXCEPT !.isused = TRUE] \in DirNode
             /\ [n EXCEPT !.next = None, !.isused = FALSE] \in DirNode
  BY <1>2
<1>4. ASSUME NEW n \in FileNode
      PROVE  /\ DOMAIN n = {"isused", "next"}
             /\ [n EXCEPT !.isused = TRUE] \in FileNode
             /\ [n EXCEPT !.next = None, !.isused = FALSE] \in FileNode
  BY <1>2
<1> QED
  BY <1>3, <1>4

(***************************************************************************)
(* What is put in from a directory is the whole path.                      *)
(***************************************************************************)
LEMMA FullPath ==
  ASSUME NEW u \in Seq(Nat), NEW name \in Names
  PROVE  /\ name \in Seq(Nat) /\ name # <<>>
         /\ FileWord(name) = <<Slash>> \o name
         /\ u \o FileWord(name) = (u \o <<Slash>>) \o name
         /\ name \o <<Slash>> \in Seq(Nat) /\ name \o <<Slash>> # <<>>
         /\ DirWord(name) = <<Slash>> \o (name \o <<Slash>>)
         /\ u \o DirWord(name) = (u \o <<Slash>>) \o name \o <<Slash>>
         /\ u \o DirWord(name) = (u \o <<Slash>> \o name) \o <<Slash>>
         /\ u \o <<Slash>> \o name \in Seq(Nat)
<1> DEFINE s == <<Slash>>
<1>1. s \in Seq(Nat) /\ Len(s) = 1
  BY PathmanTypes
<1>2. name \in Seq(Nat) /\ name # <<>>
  <2>1. name \in Seq(Nat \ {Slash}) /\ name # <<>>
    BY PathmanAssumption
  <2>2. \A j \in 1 .. Len(name) : name[j] \in Nat
    BY <2>1, ElementOfSeq
  <2> QED
    BY <2>1, <2>2, IsASeq
<1> HIDE DEF s
<1>3. s \o name \in Seq(Nat) /\ name \o s \in Seq(Nat) /\ u \o s \in Seq(Nat)
  BY <1>1, <1>2, ConcatTyped
<1>4. u \o s \o name \in Seq(Nat)
  BY <1>2, <1>3, ConcatTyped
<1>5. name \o s # <<>>
  <2>1. Len(name \o s) = Len(name) + Len(s)
    BY <1>1, <1>2, ConcatTyped
  <2>2. Len(name) \in Nat /\ Len(<<>>) = 0
    BY <1>2
  <2> QED
    BY <1>1, <2>1, <2>2
<1>6. /\ s \o name \o s = s \o (name \o s)
      /\ u \o (s \o name) = (u \o s) \o name
      /\ (u \o s) \o name \o s = (u \o s) \o (name \o s)
  <2>1. (s \o name) \o s = s \o (name \o s)
    BY <1>1, <1>2, ConcatNested
  <2>2. (u \o s) \o name = u \o (s \o name)
    BY <1>1, <1>2, ConcatNested
  <2>3. ((u \o s) \o name) \o s = (u \o s) \o (name \o s)
    <3> DEFINE t == u \o s
    <3>1. t \in Seq(Nat)
      BY <1>3
    <3> HIDE DEF t
    <3>2. (t \o name) \o s = t \o (name \o s)
      BY <1>1, <1>2, <3>1, ConcatNested
    <3> QED
      BY <3>2 DEF t
  <2> QED
    BY <2>1, <2>2, <2>3
<1>7. u \o (s \o (name \o s)) = (u \o s) \o (name \o s)
  BY <1>1, <1>3, ConcatNested
<1> QED
  BY <1>2, <1>3, <1>4, <1>5, <1>6, <1>7 DEF DirWord, FileWord, s

(***************************************************************************)
(* Nodes that end paths still do after a word is put in, and so does its   *)
(* end.                                                                    *)
(***************************************************************************)
LEMMA TopsGrow ==
  ASSUME NEW nd, NEW us, NEW at, NEW nd2, NEW us2, NEW rt2, NEW m, NEW y, NEW w,
         Grown(nd, us, at, nd2, us2, rt2, m, y, w),
         NEW ps, NEW ds, EndPaths(nd, us, at, ps, ds),
         NEW ps2, NEW ds2, OnlyNew(ps, ds, ps2, ds2, w, y)
  PROVE  TopsAre(nd2, us2, rt2, m, ps2, ds2)
<1>1. PICK at2, rank2, from2 :
        /\ Shape(nd2, us2, rt2, at2, rank2, from2) /\ Holds(nd2, us2, at2, m)
        /\ Keeps(nd, us, at, nd2, us2, at2)
        /\ y \in us2 /\ nd2[y].data # NoData /\ Word(nd2, at2, y) = w
  BY DEF Grown
<1>2. ASSUME NEW p \in 1 .. MaxDirs, ps2[p] # NoPath, ds2[p].top # NoNode
      PROVE  /\ ds2[p].top \in us2 /\ nd2[ds2[p].top].data # NoData
             /\ Word(nd2, at2, ds2[p].top) = ps2[p]
  <2>0. \/ ps2[p] = ps[p] /\ ds2[p].top = ds[p].top
        \/ ps2[p] = w /\ ds2[p].top = y
    BY <1>2 DEF OnlyNew
  <2>1. CASE ps2[p] = w /\ ds2[p].top = y
    BY <1>1, <2>1
  <2>2. CASE ps2[p] = ps[p] /\ ds2[p].top = ds[p].top
    <3>1. /\ ds[p].top \in us /\ nd[ds[p].top].data # NoData
          /\ Word(nd, at, ds[p].top) = ps[p]
      BY <1>2, <2>2 DEF EndPaths
    <3> QED
      BY <1>1, <2>2, <3>1 DEF Keeps
  <2> QED
    BY <2>0, <2>1, <2>2
<1>3. EndPaths(nd2, us2, at2, ps2, ds2)
  BY <1>2 DEF EndPaths
<1>4. Leads(nd2, us2)
  BY DEF Grown
<1> QED
  BY <1>1, <1>3, <1>4 DEF TopsAre

(***************************************************************************)
(* The invariant after a step, by its parts.                               *)
(***************************************************************************)
LEMMA InvAfter ==
  ASSUME DOMAIN kv' \subseteq Words, Range(kv') \subseteq Entries /\ DirKeys(kv'),
         Accounts(used', free', top'),
         DirsAre(dir', dfree', dtop'), FilesAre(file', ffree', ftop'), PathsAre(path'),
         TopsAre(node', used', root', kv', path', dir')
  PROVE  PathmanInv'
BY DEF PathmanInv, Accounts, DirsAre, FilesAre, PathsAre, DirKeys, TopsAre, EndPaths, BankIs,
       Leads, Shape, Holds, Word, NextOf, ChildOf

\* The directories with the one just made, which y ends, put under parent.
DirTaken(y, parent) ==
  LET mk  == MadeDir
      new == [dir[mk.p] EXCEPT !.isused = TRUE, !.top = y]
  IN  IF parent = None THEN [dir EXCEPT ![mk.p] = new]
      ELSE [dir EXCEPT ![mk.p] = [new EXCEPT !.next = dir[parent].child],
                       ![parent].child = mk.index]

(***************************************************************************)
(* A directory is taken from its bank, and put under its parent.           *)
(***************************************************************************)
LEMMA DirPut ==
  ASSUME DirsAre(dir, dfree, dtop), MadeDir.top <= MaxDirs, NEW y \in Link,
         NEW parent \in {None, 1}, NEW ds, ds = DirTaken(y, parent)
  PROVE  /\ DirsAre(ds, MadeDir.free, MadeDir.top)
         /\ MadeDir.p \in 1 .. MaxDirs /\ MadeDir.index \in 1 .. DirBank
         /\ ds[MadeDir.p].top = y
         /\ \A q \in 1 .. MaxDirs : q # MadeDir.p => ds[q].top = dir[q].top
<1> DEFINE mk == MadeDir
           new == [dir[mk.p] EXCEPT !.isused = TRUE, !.top = y]
           hung == [new EXCEPT !.next = dir[1].child]
<1>1. /\ dir \in [1 .. MaxDirs -> DirNode] /\ dtop \in 1 .. MaxDirs
      /\ BankIs(dir, dfree, dtop, DirBank) /\ MaxDirs \in Nat \ {0} /\ DirBank \in Nat \ {0}
      /\ 1 \in 1 .. MaxDirs
  BY PathmanTypes DEF DirsAre
<1>2. MadeIs(dir, dfree, dtop, DirBank, mk)
  BY <1>1, MadeSo DEF MadeDir
<1> HIDE DEF mk
<1>3. /\ mk.p \in 1 .. MaxDirs /\ mk.index \in 1 .. DirBank /\ mk.free = None
      /\ mk.top \in 1 .. MaxDirs
      /\ mk.p = 1 \/ dir[1].isused
  BY <1>1, <1>2 DEF MadeIs, BankIs, mk
<1>4. dir[mk.p] \in DirNode /\ dir[1] \in DirNode
  BY <1>1, <1>3
<1>5. new \in DirNode /\ new.isused /\ new.top = y
  BY <1>4 DEF DirNode
<1> HIDE DEF new
<1>6. hung \in DirNode /\ hung.isused /\ hung.top = y
  BY <1>4, <1>5 DEF DirNode
<1> HIDE DEF hung
<1>7. CASE parent = None
  <2>1. ds = [dir EXCEPT ![mk.p] = new]
    BY <1>7 DEF mk, new, DirTaken
  <2>2. ds \in [1 .. MaxDirs -> DirNode] /\ ds[mk.p] = new
        /\ \A q \in 1 .. MaxDirs : q # mk.p => ds[q] = dir[q]
    BY <1>1, <1>3, <1>5, <2>1
  <2>3. ds[1].isused
    BY <1>1, <1>3, <1>5, <2>2
  <2>4. BankIs(ds, mk.free, mk.top, DirBank)
    BY <1>1, <1>3, <2>3 DEF BankIs, None
  <2> QED
    BY <1>3, <1>5, <2>2, <2>4 DEF DirsAre, mk
<1>8. CASE parent = 1
  <2> DEFINE d1 == [dir EXCEPT ![mk.p] = hung]
  <2>1. ds = [d1 EXCEPT ![1].child = mk.index]
    BY <1>8 DEF mk, new, hung, None, DirTaken
  <2>2. d1 \in [1 .. MaxDirs -> DirNode] /\ d1[mk.p] = hung
        /\ \A q \in 1 .. MaxDirs : q # mk.p => d1[q] = dir[q]
    BY <1>1, <1>3, <1>6
  <2> HIDE DEF d1
  <2> DEFINE n1 == [d1[1] EXCEPT !.child = mk.index]
  <2>3. n1 \in DirNode /\ n1.isused = d1[1].isused /\ n1.top = d1[1].top
    <3>1. d1[1] \in DirNode /\ mk.index \in 0 .. DirBank
      BY <1>1, <1>3, <2>2
    <3> QED
      BY <3>1 DEF DirNode
  <2>4. ds = [d1 EXCEPT ![1] = n1]
    BY <2>1
  <2> HIDE DEF n1
  <2>5. ds \in [1 .. MaxDirs -> DirNode] /\ ds[1] = n1
        /\ \A q \in 1 .. MaxDirs : q # 1 => ds[q] = d1[q]
    BY <1>1, <2>2, <2>3, <2>4
  <2>6. ds[1].isused
    BY <1>1, <1>3, <1>6, <2>2, <2>3, <2>5
  <2>7. BankIs(ds, mk.free, mk.top, DirBank)
    BY <1>1, <1>3, <2>6 DEF BankIs, None
  <2>8. ds[mk.p].top = y
    BY <1>3, <1>6, <2>2, <2>3, <2>5
  <2>9. \A q \in 1 .. MaxDirs : q # mk.p => ds[q].top = dir[q].top
    BY <2>2, <2>3, <2>5
  <2> QED
    BY <1>3, <2>5, <2>7, <2>8, <2>9 DEF DirsAre, mk
<1> QED
  BY <1>7, <1>8

(***************************************************************************)
(* pathman_add_dir.                                                        *)
(***************************************************************************)
LEMMA AddDirStep ==
  ASSUME PathmanInv, NEW above \in DOMAIN kv, NEW name \in Names, AddDir(above, name)
  PROVE  PathmanInv'
<1> DEFINE x == FindNode(above)
           w == DirWord(name)
           e == DecideAt(x, w)
           mk == MadeDir
           y == EndNode(w, e)
           full == above \o name \o <<Slash>>
           d == Entry(TRUE, mk.index)
           parent == NodeAt(dir, node[x].data.index, DirBank)
<1>1. PICK at, rank, from :
        /\ Shape(node, used, root, at, rank, from) /\ Holds(node, used, at, kv)
        /\ EndPaths(node, used, at, path, dir)
  BY DEF PathmanInv, TopsAre
<1>2. Now(at, rank, from)
  BY <1>1 DEF Now, PathmanInv, TopsAre
<1>3. above \in Seq(Nat) /\ above # <<>> /\ x # NoNode /\ node[x].data.isdir
  BY WordTyped DEF PathmanInv, AddDir, CanAddDir
<1>4. PICK u \in Seq(Nat) : above = u \o <<Slash>>
  <2>1. x \in used /\ HasData(x) /\ Word(node, at, x) = above
    BY <1>1, <1>3, FindNodeIs
  <2>2. kv[above] = node[x].data
    BY <1>1, <2>1 DEF Holds, HasData
  <2> QED
    BY <1>3, <2>2 DEF PathmanInv, DirKeys
<1>5. above \in Seq(Nat) /\ above # <<>>
  BY <1>3
<1> DEFINE v == name \o <<Slash>>
<1>6. /\ v \in Seq(Nat) /\ v # <<>> /\ w = <<Slash>> \o v /\ u \o w = full
      /\ full = (u \o <<Slash>> \o name) \o <<Slash>> /\ u \o <<Slash>> \o name \in Seq(Nat)
  <2>1. full = (u \o <<Slash>>) \o name \o <<Slash>>
    BY <1>4
  <2> HIDE DEF full
  <2>2. v \in Seq(Nat) /\ v # <<>> /\ w = <<Slash>> \o v
    BY FullPath
  <2>3. /\ u \o w = (u \o <<Slash>>) \o name \o <<Slash>>
        /\ u \o w = (u \o <<Slash>> \o name) \o <<Slash>>
        /\ u \o <<Slash>> \o name \in Seq(Nat)
    BY FullPath
  <2> QED
    BY <2>1, <2>2, <2>3
<1>7. /\ x # NoNode /\ node[x].data.isdir /\ mk.top <= MaxDirs /\ full \in Words
  BY DEF AddDir, CanAddDir
<1>8. x \in used /\ HasData(x) /\ Word(node, at, x) = above
  BY <1>1, <1>5, <1>7, FindNodeIs
<1>9. /\ Put(w, d, e) /\ kv' = Also(kv, full, d)
      /\ dtop' = mk.top /\ dfree' = mk.free /\ path' = [path EXCEPT ![mk.p] = full]
      /\ UNCHANGED fileVars
  BY DEF AddDir, Also
<1>10. dir' = DirTaken(y, parent)
  BY DEF AddDir, DirTaken
<1>11. parent \in {None, 1}
  <2>1. node[x].data \in Entries
    <3>1. above \in DOMAIN kv /\ kv[above] = node[x].data
      BY <1>1, <1>8 DEF Holds, HasData
    <3> QED
      BY <3>1 DEF PathmanInv, Range
  <2> DEFINE i == node[x].data.index
  <2>2. i \in 1 .. DirBank
    BY <1>7, <2>1, PathmanTypes
  <2> HIDE DEF i
  <2>3. Position(i, DirBank) = 1
    BY <2>2, FirstOfBank, PathmanTypes
  <2> QED
    BY <2>3 DEF NodeAt, i
<1> HIDE DEF x, w, e, mk, y, full, d, parent, v
<1>12. DirsAre(dir, dfree, dtop) /\ FilesAre(file, ffree, ftop) /\ Accounts(used, free, top)
       /\ DOMAIN kv \subseteq Words /\ Range(kv) \subseteq Entries /\ DirKeys(kv) /\ PathsAre(path)
  BY DEF PathmanInv
<1>13. mk.index \in 1 .. DirBank /\ mk.p \in 1 .. MaxDirs
  <2>1. MadeIs(dir, dfree, dtop, DirBank, mk)
    BY <1>12, PathmanTypes, MadeSo DEF DirsAre, MadeDir, mk
  <2> QED
    BY <1>7, <1>12, <2>1, PathmanTypes DEF MadeIs, DirsAre
<1>14. d \in Data /\ d \in Entries
  BY <1>13, PathmanTypes DEF d
<1>15. Grown(node, used, at, node', used', root', kv', y, full) /\ Accounts(used', free', top')
  <2>1. Put(w, d, DecideAt(x, w)) /\ Word(node, at, x) = u \o <<Slash>>
    BY <1>4, <1>8, <1>9 DEF e
  <2>2. /\ Grown(node, used, at, node', used', root', Also(kv, u \o w, d),
                 EndNode(w, DecideAt(x, w)), u \o w)
        /\ Accounts(used', free', top')
    BY <1>2, <1>6, <1>8, <1>12, <1>14, <2>1, PutBelow
  <2> QED
    BY <1>6, <1>9, <2>2 DEF y, e
<1>16. y \in Link
  BY <1>15, NoNodeIsNone DEF Grown, Shape
<1>17. /\ DirsAre(dir', dfree', dtop')
       /\ dir'[mk.p].top = y /\ \A q \in 1 .. MaxDirs : q # mk.p => dir'[q].top = dir[q].top
  <2> DEFINE ds == dir'
  <2>1. ds = DirTaken(y, parent)
    BY <1>10
  <2> HIDE DEF ds
  <2>2. MadeDir.top <= MaxDirs
    BY <1>7 DEF mk
  <2>3. /\ DirsAre(ds, MadeDir.free, MadeDir.top) /\ ds[MadeDir.p].top = y
        /\ \A q \in 1 .. MaxDirs : q # MadeDir.p => ds[q].top = dir[q].top
    BY <1>11, <1>12, <1>16, <2>1, <2>2, DirPut
  <2> QED
    BY <1>9, <2>3 DEF ds, mk
<1>18. FilesAre(file', ffree', ftop')
  BY <1>9, <1>12 DEF fileVars
<1>19. /\ path'[mk.p] = full /\ \A q \in 1 .. MaxDirs : q # mk.p => path'[q] = path[q]
       /\ path' \in [1 .. MaxDirs -> Words \cup {NoPath}]
  BY <1>7, <1>9, <1>12, <1>13 DEF PathsAre
<1>20. PathsAre(path')
  <2>1. \E t \in Seq(Nat) : full = t \o <<Slash>>
    BY <1>6
  <2> QED
    BY <1>12, <1>19, <2>1 DEF PathsAre
<1>21. DOMAIN kv' \subseteq Words /\ Range(kv') \subseteq Entries /\ DirKeys(kv')
  <2>1. DOMAIN kv' \subseteq Words /\ Range(kv') \subseteq Entries
    BY <1>7, <1>9, <1>12, <1>14 DEF Also, Range
  <2>2. \E t \in Seq(Nat) : full = t \o <<Slash>>
    BY <1>6
  <2>3. DirKeys(kv')
    BY <1>9, <1>12, <2>2 DEF Also, DirKeys
  <2> QED
    BY <2>1, <2>3
<1>22. TopsAre(node', used', root', kv', path', dir')
  <2>1. OnlyNew(path, dir, path', dir', full, y)
    BY <1>17, <1>19 DEF OnlyNew
  <2> DEFINE nd2 == node'
             us2 == used'
             rt2 == root'
             m2  == kv'
             ps2 == path'
             ds2 == dir'
  <2>2. Grown(node, used, at, nd2, us2, rt2, m2, y, full)
    BY <1>15
  <2>3. OnlyNew(path, dir, ps2, ds2, full, y)
    BY <2>1 DEF OnlyNew
  <2> HIDE DEF nd2, us2, rt2, m2, ps2, ds2
  <2>4. TopsAre(nd2, us2, rt2, m2, ps2, ds2)
    BY <1>1, <2>2, <2>3, TopsGrow
  <2> QED
    BY <2>4 DEF nd2, us2, rt2, m2, ps2, ds2
<1> QED
  BY <1>15, <1>17, <1>18, <1>20, <1>21, <1>22, InvAfter

(***************************************************************************)
(* pathman_add_dir without memory for the nodes of the path.               *)
(***************************************************************************)
LEMMA AddDirFailsStep ==
  ASSUME PathmanInv, NEW above \in DOMAIN kv, NEW name \in Names, AddDirFails(above, name)
  PROVE  PathmanInv'
<1> DEFINE x == FindNode(above)
           w == DirWord(name)
           mk == MadeDir
<1>1. PICK at, rank, from :
        /\ Shape(node, used, root, at, rank, from) /\ Holds(node, used, at, kv)
        /\ EndPaths(node, used, at, path, dir)
  BY DEF PathmanInv, TopsAre
<1>2. Now(at, rank, from)
  BY <1>1 DEF Now, PathmanInv, TopsAre
<1>3. above \in Seq(Nat) /\ above # <<>> /\ x # NoNode /\ node[x].data.isdir
  BY WordTyped DEF PathmanInv, AddDirFails, CanAddDir
<1>4. PICK u \in Seq(Nat) : above = u \o <<Slash>>
  <2>1. x \in used /\ HasData(x) /\ Word(node, at, x) = above
    BY <1>1, <1>3, FindNodeIs
  <2>2. kv[above] = node[x].data
    BY <1>1, <2>1 DEF Holds, HasData
  <2> QED
    BY <1>3, <2>2 DEF PathmanInv, DirKeys
<1>5. above \in Seq(Nat) /\ above # <<>>
  BY <1>3
<1> DEFINE v == name \o <<Slash>>
<1>6. v \in Seq(Nat) /\ v # <<>> /\ w = <<Slash>> \o v
  BY <1>4, FullPath
<1>7. x # NoNode /\ mk.top <= MaxDirs
  BY DEF AddDirFails, CanAddDir
<1>8. x \in used /\ HasData(x) /\ Word(node, at, x) = above
  BY <1>1, <1>5, <1>7, FindNodeIs
<1>9. /\ StrideFails(w, DecideAt(x, w))
      /\ dir' = Released(dir, mk, DirBank) /\ dtop' = mk.top /\ dfree' = mk.index
      /\ UNCHANGED <<kv, fileVars, path>>
  BY DEF AddDirFails
<1> HIDE DEF x, w, mk, v
<1>10. DirsAre(dir, dfree, dtop) /\ FilesAre(file, ffree, ftop) /\ Accounts(used, free, top)
       /\ DOMAIN kv \subseteq Words /\ Range(kv) \subseteq Entries /\ DirKeys(kv) /\ PathsAre(path)
  BY DEF PathmanInv
<1>11. UNCHANGED <<node, used, root>> /\ Accounts(used', free', top')
  <2>1. Word(node, at, x) = u \o <<Slash>>
    BY <1>4, <1>8
  <2> QED
    BY <1>2, <1>6, <1>8, <1>9, <1>10, <2>1, StrideFailsBelow
<1>12. /\ dir \in [1 .. MaxDirs -> DirNode] /\ dtop \in 1 .. MaxDirs
       /\ BankIs(dir, dfree, dtop, DirBank) /\ dtop \in Nat
  BY <1>10, PathmanTypes DEF DirsAre
<1>13. MadeIs(dir, dfree, dtop, DirBank, mk)
  BY <1>12, PathmanTypes, MadeSo DEF MadeDir, mk
<1>14. /\ dir' \in [1 .. MaxDirs -> DirNode] /\ BankIs(dir', dfree', dtop', DirBank)
       /\ \A q \in 1 .. MaxDirs : dir'[q].top = dir[q].top
  <2> DEFINE n2 == Released(dir, mk, DirBank)
  <2>1. \A n \in DirNode : /\ DOMAIN n = {"isused", "top", "next", "child", "file"}
                           /\ [n EXCEPT !.isused = TRUE] \in DirNode
                           /\ [n EXCEPT !.next = None, !.isused = FALSE] \in DirNode
    BY NodesFreed
  <2>2. Reusable(DirNode)
    BY <2>1 DEF Reusable
  <2>0. MaxDirs \in Nat \ {0} /\ DirBank \in Nat \ {0}
    BY PathmanTypes
  <2>3. /\ n2 \in [1 .. MaxDirs -> DirNode] /\ BankIs(n2, mk.index, mk.top, DirBank)
        /\ \A q \in 1 .. MaxDirs : OthersSame(dir[q], n2[q])
    <3>1. mk.top <= MaxDirs
      BY <1>7
    <3>2. n2 \in [1 .. MaxDirs -> DirNode]
      BY <1>12, <1>13, <2>0, <2>2, <3>1, ReleasedSo
    <3>3. BankIs(n2, mk.index, mk.top, DirBank)
      BY <1>12, <1>13, <2>0, <2>2, <3>1, ReleasedSo
    <3>4. \A q \in 1 .. MaxDirs : OthersSame(dir[q], n2[q])
      BY <1>12, <1>13, <2>0, <2>2, <3>1, ReleasedSo
    <3> QED
      BY <3>2, <3>3, <3>4
  <2> HIDE DEF n2
  <2>4. \A q \in 1 .. MaxDirs : n2[q].top = dir[q].top
    <3> SUFFICES ASSUME NEW q \in 1 .. MaxDirs PROVE n2[q].top = dir[q].top
      OBVIOUS
    <3>1. dir[q] \in DirNode
      BY <1>12
    <3>2. "top" \in DOMAIN dir[q] \ {"isused", "next"}
      BY <2>1, <3>1
    <3> QED
      BY <2>3, <3>2 DEF OthersSame
  <2> QED
    BY <1>9, <2>3, <2>4 DEF n2
<1>15. \A q \in 1 .. MaxDirs : dir'[q].top = dir[q].top
  BY <1>14
<1>16. DirsAre(dir', dfree', dtop')
  <2>1. dtop' \in 1 .. MaxDirs
    BY <1>7, <1>9, <1>12, <1>13, PathmanTypes DEF MadeIs
  <2> QED
    BY <1>14, <2>1 DEF DirsAre
<1>17. FilesAre(file', ffree', ftop') /\ PathsAre(path')
       /\ DOMAIN kv' \subseteq Words /\ Range(kv') \subseteq Entries /\ DirKeys(kv')
  BY <1>9, <1>10 DEF fileVars
<1>18. TopsAre(node', used', root', kv', path', dir')
  <2>1. EndPaths(node, used, at, path, dir')
    BY <1>1, <1>15 DEF EndPaths
  <2>2. TopsAre(node, used, root, kv, path, dir')
    BY <1>1, <1>2, <2>1 DEF TopsAre, Now
  <2> QED
    BY <1>9, <1>11, <2>2
<1> QED
  BY <1>11, <1>16, <1>17, <1>18, InvAfter

(***************************************************************************)
(* Where a file is put in: below the node that ends the path of its        *)
(* directory.                                                              *)
(***************************************************************************)
LEMMA FileBelow ==
  ASSUME NEW at, NEW rank, NEW from, Shape(node, used, root, at, rank, from),
         EndPaths(node, used, at, path, dir), PathsAre(path),
         NEW p \in 1 .. MaxDirs, path[p] # NoPath, NEW name \in Names, CanAddFile(p, name)
  PROVE  /\ dir[p].top \in used /\ HasData(dir[p].top)
         /\ \E u \in Seq(Nat) : /\ path[p] = u \o <<Slash>> /\ Word(node, at, dir[p].top) = path[p]
                                /\ u \o FileWord(name) = path[p] \o name
<1> DEFINE w == FileWord(name)
           x == dir[p].top
<1>1. PICK u \in Seq(Nat) : path[p] = u \o <<Slash>>
  BY DEF PathsAre
<1>2. name \in Seq(Nat) /\ name # <<>> /\ w = <<Slash>> \o name
      /\ u \o w = (u \o <<Slash>>) \o name
  BY FullPath
<1>3. w \in Seq(Nat) /\ Len(w) = 1 + Len(name) /\ Len(name) \in Nat
  <2>1. <<Slash>> \o name \in Seq(Nat) /\ Len(<<Slash>> \o name) = 1 + Len(name)
    BY <1>2, AfterSlash
  <2> HIDE DEF w
  <2> QED
    BY <1>2, <2>1
<1>4. w # <<>>
  <2>1. Len(<<>>) = 0
    OBVIOUS
  <2> HIDE DEF w
  <2> QED
    BY <1>3, <2>1
<1>5. x # NoNode
  <2>1. ~Refused(DecideAt(x, w), FALSE)
    BY DEF CanAddFile
  <2> HIDE DEF x, w
  <2> QED
    BY <1>3, <1>4, <2>1, NowhereFails
<1>6. x \in used /\ HasData(x) /\ Word(node, at, x) = path[p]
  BY <1>5 DEF EndPaths, HasData
<1> HIDE DEF w
<1>7. u \o w = path[p] \o name
  BY <1>1, <1>2
<1> QED
  BY <1>1, <1>6, <1>7 DEF w

(***************************************************************************)
(* A file is taken from its bank.                                          *)
(***************************************************************************)
LEMMA FilePut ==
  ASSUME FilesAre(file, ffree, ftop), MadeFile.top <= MaxFiles, NEW i \in 0 .. FileBank,
         NEW fs, fs = [file EXCEPT ![MadeFile.p] = [isused |-> TRUE, next |-> i]]
  PROVE  /\ FilesAre(fs, MadeFile.free, MadeFile.top)
         /\ MadeFile.index \in 1 .. FileBank
<1> DEFINE mk == MadeFile
           n == [isused |-> TRUE, next |-> i]
<1>1. /\ file \in [1 .. MaxFiles -> FileNode] /\ ftop \in 0 .. MaxFiles
      /\ BankIs(file, ffree, ftop, FileBank) /\ MaxFiles \in Nat \ {0} /\ FileBank \in Nat \ {0}
      /\ ftop \in Nat
  BY PathmanTypes DEF FilesAre
<1>2. MadeIs(file, ffree, ftop, FileBank, mk)
  BY <1>1, MadeSo DEF MadeFile
<1>3. mk.top <= MaxFiles /\ fs = [file EXCEPT ![mk.p] = n]
  OBVIOUS
<1> HIDE DEF mk
<1>4. /\ 1 \in 1 .. MaxFiles /\ mk.p \in 1 .. MaxFiles /\ mk.index \in 1 .. FileBank
      /\ mk.free = None /\ mk.top \in 1 .. MaxFiles /\ mk.top \in Nat /\ mk.top > 0
      /\ mk.p # 1 => file[1].isused
  BY <1>1, <1>2, <1>3, MadeWithin
<1>5. n \in FileNode /\ n.isused
  BY DEF FileNode
<1> HIDE DEF n
<1>6. /\ fs \in [1 .. MaxFiles -> FileNode] /\ fs[mk.p] = n
      /\ \A q \in 1 .. MaxFiles : q # mk.p => fs[q] = file[q]
  BY <1>1, <1>3, <1>4, <1>5
<1>7. fs[1].isused
  BY <1>4, <1>5, <1>6
<1>8. BankIs(fs, mk.free, mk.top, FileBank)
  BY <1>1, <1>4, <1>7 DEF BankIs, None
<1>9. mk.top \in 0 .. MaxFiles
  BY <1>4
<1> QED
  BY <1>4, <1>6, <1>8, <1>9 DEF FilesAre, mk

(***************************************************************************)
(* pathman_add_file.                                                       *)
(***************************************************************************)
LEMMA AddFileStep ==
  ASSUME PathmanInv, NEW p \in Held, NEW name \in Names, AddFile(p, name)
  PROVE  PathmanInv'
<1> DEFINE x == dir[p].top
           w == FileWord(name)
           e == DecideAt(x, w)
           mk == MadeFile
           y == EndNode(w, e)
           full == path[p] \o name
           d == Entry(FALSE, mk.index)
<1>1. PICK at, rank, from :
        /\ Shape(node, used, root, at, rank, from) /\ Holds(node, used, at, kv)
        /\ EndPaths(node, used, at, path, dir)
  BY DEF PathmanInv, TopsAre
<1>2. Now(at, rank, from)
  BY <1>1 DEF Now, PathmanInv, TopsAre
<1>3. p \in 1 .. MaxDirs /\ path[p] # NoPath
  BY PathmanTypes DEF Held, PathmanInv, DirsAre
<1>4. DirsAre(dir, dfree, dtop) /\ FilesAre(file, ffree, ftop) /\ Accounts(used, free, top)
      /\ DOMAIN kv \subseteq Words /\ Range(kv) \subseteq Entries /\ DirKeys(kv) /\ PathsAre(path)
  BY DEF PathmanInv
<1>5. CanAddFile(p, name) /\ mk.top <= MaxFiles /\ full \in Words
  BY DEF AddFile, CanAddFile
<1>6. x \in used /\ HasData(x)
      /\ \E u \in Seq(Nat) : /\ path[p] = u \o <<Slash>> /\ Word(node, at, x) = path[p]
                             /\ u \o w = full
  BY <1>1, <1>3, <1>4, <1>5, FileBelow
<1>7. PICK u \in Seq(Nat) : Word(node, at, x) = u \o <<Slash>> /\ u \o w = full
  BY <1>6
<1>8. name \in Seq(Nat) /\ name # <<>> /\ w = <<Slash>> \o name
  BY <1>7, FullPath
<1>9. /\ Put(w, d, e) /\ kv' = Also(kv, full, d)
      /\ file' = [file EXCEPT ![mk.p] = [isused |-> TRUE, next |-> dir[p].file]]
      /\ dir' = [dir EXCEPT ![p].file = mk.index]
      /\ ftop' = mk.top /\ ffree' = mk.free /\ UNCHANGED <<dtop, dfree, path>>
  BY DEF AddFile, Also
<1>10. dir[p] \in DirNode /\ dir[p].file \in 0 .. FileBank
  BY <1>3, <1>4 DEF DirsAre, DirNode
<1>11. /\ FilesAre(file', ffree', ftop') /\ mk.index \in 1 .. FileBank
  <2> DEFINE fs == file'
             i == dir[p].file
  <2>1. fs = [file EXCEPT ![MadeFile.p] = [isused |-> TRUE, next |-> i]] /\ i \in 0 .. FileBank
    BY <1>9, <1>10
  <2>2. MadeFile.top <= MaxFiles
    BY <1>5
  <2> HIDE DEF fs, i
  <2>3. FilesAre(fs, MadeFile.free, MadeFile.top) /\ MadeFile.index \in 1 .. FileBank
    BY <1>4, <2>1, <2>2, FilePut
  <2> QED
    BY <1>9, <2>3 DEF fs
<1> HIDE DEF x, w, e, mk, y, full, d
<1>12. d \in Data /\ d \in Entries
  BY <1>11, PathmanTypes DEF d
<1>13. Grown(node, used, at, node', used', root', kv', y, full) /\ Accounts(used', free', top')
  <2>1. Put(w, d, DecideAt(x, w))
    BY <1>9 DEF e
  <2>2. /\ Grown(node, used, at, node', used', root', Also(kv, u \o w, d),
                 EndNode(w, DecideAt(x, w)), u \o w)
        /\ Accounts(used', free', top')
    BY <1>2, <1>4, <1>6, <1>7, <1>8, <1>12, <2>1, PutBelow
  <2> QED
    BY <1>7, <1>9, <2>2 DEF y, e
<1>14. /\ dir' \in [1 .. MaxDirs -> DirNode]
       /\ \A q \in 1 .. MaxDirs : dir'[q].top = dir[q].top /\ dir'[q].isused = dir[q].isused
                                  /\ dir'[q].next = dir[q].next
  <2> DEFINE n == [dir[p] EXCEPT !.file = mk.index]
  <2>1. dir \in [1 .. MaxDirs -> DirNode]
    BY <1>4 DEF DirsAre
  <2>2. mk.index \in 0 .. FileBank
    BY <1>11, PathmanTypes
  <2>3. /\ n \in DirNode /\ n.top = dir[p].top /\ n.isused = dir[p].isused
        /\ n.next = dir[p].next
    BY <1>10, <2>2 DEF DirNode
  <2>4. dir' = [dir EXCEPT ![p] = n]
    BY <1>9
  <2> HIDE DEF n
  <2>5. dir' \in [1 .. MaxDirs -> DirNode] /\ dir'[p] = n
        /\ \A q \in 1 .. MaxDirs : q # p => dir'[q] = dir[q]
    BY <1>3, <2>1, <2>3, <2>4
  <2> QED
    BY <2>3, <2>5
<1>15. DirsAre(dir', dfree', dtop')
  <2>1. 1 \in 1 .. MaxDirs
    BY PathmanTypes
  <2> QED
    BY <1>4, <1>9, <1>14, <2>1 DEF DirsAre, BankIs
<1>16. PathsAre(path')
  BY <1>4, <1>9
<1>17. DOMAIN kv' \subseteq Words /\ Range(kv') \subseteq Entries /\ DirKeys(kv')
  <2>1. DOMAIN kv' \subseteq Words /\ Range(kv') \subseteq Entries
    BY <1>4, <1>5, <1>9, <1>12 DEF Also, Range
  <2>2. ~d.isdir
    BY DEF d, Entry
  <2>3. DirKeys(kv')
    BY <1>4, <1>9, <2>2 DEF Also, DirKeys
  <2> QED
    BY <2>1, <2>3
<1>18. TopsAre(node', used', root', kv', path', dir')
  <2>1. OnlyNew(path, dir, path', dir', full, y)
    BY <1>9, <1>14 DEF OnlyNew
  <2> DEFINE nd2 == node'
             us2 == used'
             rt2 == root'
             m2  == kv'
             ps2 == path'
             ds2 == dir'
  <2>2. Grown(node, used, at, nd2, us2, rt2, m2, y, full)
    BY <1>13
  <2>3. OnlyNew(path, dir, ps2, ds2, full, y)
    BY <2>1 DEF OnlyNew
  <2> HIDE DEF nd2, us2, rt2, m2, ps2, ds2
  <2>4. TopsAre(nd2, us2, rt2, m2, ps2, ds2)
    BY <1>1, <2>2, <2>3, TopsGrow
  <2> QED
    BY <2>4 DEF nd2, us2, rt2, m2, ps2, ds2
<1> QED
  BY <1>11, <1>13, <1>15, <1>16, <1>17, <1>18, InvAfter

(***************************************************************************)
(* pathman_add_file without memory for the nodes of the path.              *)
(***************************************************************************)
LEMMA AddFileFailsStep ==
  ASSUME PathmanInv, NEW p \in Held, NEW name \in Names, AddFileFails(p, name)
  PROVE  PathmanInv'
<1> DEFINE x == dir[p].top
           w == FileWord(name)
           mk == MadeFile
           full == path[p] \o name
<1>1. PICK at, rank, from :
        /\ Shape(node, used, root, at, rank, from) /\ Holds(node, used, at, kv)
        /\ EndPaths(node, used, at, path, dir)
  BY DEF PathmanInv, TopsAre
<1>2. Now(at, rank, from)
  BY <1>1 DEF Now, PathmanInv, TopsAre
<1>3. p \in 1 .. MaxDirs /\ path[p] # NoPath
  BY PathmanTypes DEF Held, PathmanInv, DirsAre
<1>4. DirsAre(dir, dfree, dtop) /\ FilesAre(file, ffree, ftop) /\ Accounts(used, free, top)
      /\ DOMAIN kv \subseteq Words /\ Range(kv) \subseteq Entries /\ DirKeys(kv) /\ PathsAre(path)
      /\ TopsAre(node, used, root, kv, path, dir)
  BY DEF PathmanInv
<1>5. CanAddFile(p, name) /\ mk.top <= MaxFiles
  BY DEF AddFileFails, CanAddFile
<1>6. x \in used /\ HasData(x)
      /\ \E u \in Seq(Nat) : /\ path[p] = u \o <<Slash>> /\ Word(node, at, x) = path[p]
                             /\ u \o w = full
  BY <1>1, <1>3, <1>4, <1>5, FileBelow
<1>7. PICK u \in Seq(Nat) : Word(node, at, x) = u \o <<Slash>>
  BY <1>6
<1>8. name \in Seq(Nat) /\ name # <<>> /\ w = <<Slash>> \o name
  BY <1>7, FullPath
<1>9. /\ StrideFails(w, DecideAt(x, w))
      /\ file' = Released(file, mk, FileBank) /\ ftop' = mk.top /\ ffree' = mk.index
      /\ UNCHANGED <<kv, dirVars, path>>
  BY DEF AddFileFails
<1> HIDE DEF x, w, mk, full
<1>10. UNCHANGED <<node, used, root>> /\ Accounts(used', free', top')
  BY <1>2, <1>4, <1>6, <1>7, <1>8, <1>9, StrideFailsBelow
<1>11. /\ file \in [1 .. MaxFiles -> FileNode] /\ ftop \in 0 .. MaxFiles
       /\ BankIs(file, ffree, ftop, FileBank) /\ ftop \in Nat
       /\ MaxFiles \in Nat \ {0} /\ FileBank \in Nat \ {0}
  BY <1>4, PathmanTypes DEF FilesAre
<1>12. MadeIs(file, ffree, ftop, FileBank, mk)
  BY <1>11, MadeSo DEF MadeFile, mk
<1>13. FilesAre(file', ffree', ftop')
  <2> DEFINE n2 == Released(file, mk, FileBank)
  <2>1. Reusable(FileNode)
    BY NodesFreed DEF Reusable
  <2>2. mk.top <= MaxFiles
    BY <1>5
  <2>3. n2 \in [1 .. MaxFiles -> FileNode]
    BY <1>11, <1>12, <2>1, <2>2, ReleasedSo
  <2>4. BankIs(n2, mk.index, mk.top, FileBank)
    BY <1>11, <1>12, <2>1, <2>2, ReleasedSo
  <2>5. mk.top \in 0 .. MaxFiles
    <3>1. mk.top \in 1 .. MaxFiles
      BY <1>11, <1>12, <2>2, MadeWithin
    <3> QED
      BY <1>11, <3>1
  <2> HIDE DEF n2
  <2> QED
    BY <1>9, <2>3, <2>4, <2>5 DEF FilesAre, n2
<1>14. DirsAre(dir', dfree', dtop') /\ PathsAre(path')
       /\ DOMAIN kv' \subseteq Words /\ Range(kv') \subseteq Entries /\ DirKeys(kv')
  BY <1>4, <1>9 DEF dirVars
<1>15. TopsAre(node', used', root', kv', path', dir')
  BY <1>4, <1>9, <1>10 DEF dirVars
<1> QED
  BY <1>10, <1>13, <1>14, <1>15, InvAfter

(***************************************************************************)
(* pathman_init and pathman_clear leave the root.                          *)
(***************************************************************************)
LEMMA RootTree ==
  ASSUME NEW m, m = [w \in {<<Slash>>} |-> Entry(TRUE, 1)],
         NEW ps, ps = [p \in 1 .. MaxDirs |-> IF p = 1 THEN <<Slash>> ELSE NoPath]
  PROVE  /\ TopsAre(RootOnly, {1}, 1, m, ps, RootDir)
         /\ Accounts({1}, <<>>, 1)
         /\ DirsAre(RootDir, None, 1)
         /\ FilesAre([p \in 1 .. MaxFiles |-> BlankFile], None, 0)
         /\ PathsAre(ps) /\ DOMAIN m \subseteq Words /\ Range(m) \subseteq Entries /\ DirKeys(m)
<1> DEFINE at   == [x \in Index |-> <<>>]
           rank == [x \in Index |-> 0]
           from == [x \in Index |-> NoNode]
           nd   == RootOnly
           d    == Entry(TRUE, 1)
           s    == <<>>
           n    == [c |-> Slash, str |-> s, data |-> d, next |-> NoNode, child |-> NoNode]
<1>1. /\ 1 \in Index /\ 1 # NoNode /\ Slash \in Nat /\ <<Slash>> \in Seq(Nat)
      /\ 1 \in 1 .. MaxDirs /\ 1 \in 1 .. DirBank
  BY PathmanTypes DEF Index, NoNode
<1>2. d \in Entries /\ d \in Data /\ d # NoData
  BY <1>1, PathmanTypes, TrieAssumption
<1> HIDE DEF d
<1>3. /\ n.c = Slash /\ n.str = <<>> /\ n.data = d /\ n.next = NoNode /\ n.child = NoNode
      /\ n \in Node
  <2>1. s \in Seq(Nat) /\ NoNode \in Link
    BY NoNodeIsNone
  <2>2. d \in Data \cup {NoData}
    BY <1>2
  <2> HIDE DEF s
  <2>3. n.c = Slash /\ n.str = s /\ n.data = d /\ n.next = NoNode /\ n.child = NoNode
    OBVIOUS
  <2>4. n \in Node
    BY <1>1, <2>1, <2>2 DEF Node
  <2> QED
    BY <2>3, <2>4 DEF s
<1>4. nd = [x \in Index |-> IF x = 1 THEN n ELSE Cleared]
  BY DEF RootOnly, d
<1> HIDE DEF n, nd
<1>5. /\ nd[1] = n /\ \A x \in Index \ {1} : nd[x] = Cleared
      /\ nd \in [Index -> {k \in Node : k.data = NoData \/ k.str = <<>>}]
  BY <1>1, <1>3, <1>4, ClearedIsNode
<1>6. /\ at \in [Index -> Seq(Nat)] /\ rank \in [Index -> Nat] /\ from \in [Index -> Link]
      /\ at[1] = <<>> /\ from[1] = NoNode
  BY <1>1, NoNodeIsNone
<1> HIDE DEF at, rank, from
<1>7. Shape(nd, {1}, 1, at, rank, from)
  BY <1>1, <1>3, <1>5, <1>6 DEF Shape
<1>8. Word(nd, at, 1) = <<Slash>>
  <2>1. <<>> \o <<Slash>> \o <<>> = <<Slash>>
    BY <1>1
  <2>2. nd[1].c = Slash /\ nd[1].str = <<>> /\ at[1] = <<>>
    BY <1>3, <1>5, <1>6
  <2> QED
    BY <2>1, <2>2 DEF Word
<1>9. m = [w \in {<<Slash>>} |-> d]
  BY DEF d
<1>10. Holds(nd, {1}, at, m) /\ Leads(nd, {1})
  <2>1. nd[1].data = d /\ d # NoData
    BY <1>2, <1>3, <1>5
  <2>2. {y \in {1} : nd[y].data # NoData} = {1}
    BY <2>1
  <2>3. DOMAIN m = {<<Slash>>} /\ m[<<Slash>>] = d
    BY <1>9
  <2>4. Holds(nd, {1}, at, m)
    BY <1>8, <2>1, <2>2, <2>3 DEF Holds
  <2> QED
    BY <2>1, <2>4 DEF Leads
<1>11. EndPaths(nd, {1}, at, ps, RootDir)
  BY DEF EndPaths, RootDir, BlankDir
<1>12. TopsAre(nd, {1}, 1, m, ps, RootDir)
  BY <1>7, <1>10, <1>11 DEF TopsAre
<1>13. Accounts({1}, <<>>, 1)
  <2>1. <<>> \in Seq(Index) /\ IsInjective(<<>>) /\ Range(<<>>) = {}
    BY DEF IsInjective, Range
  <2>2. 1 .. 1 = {1} /\ 1 \in 0 .. MaxNodes
    BY PathmanTypes
  <2> QED
    BY <2>1, <2>2 DEF Accounts
<1>14. DirsAre(RootDir, None, 1)
  <2>1. NoNode \in Link /\ None \in 0 .. DirBank /\ None \in 0 .. FileBank
    BY NoNodeIsNone, PathmanTypes DEF None
  <2>2. RootDir \in [1 .. MaxDirs -> DirNode]
    BY <2>1 DEF RootDir, BlankDir, DirNode
  <2>3. RootDir[1].isused
    BY <1>1 DEF RootDir, BlankDir
  <2> QED
    BY <1>1, <2>1, <2>2, <2>3 DEF DirsAre, BankIs
<1>15. FilesAre([p \in 1 .. MaxFiles |-> BlankFile], None, 0)
  <2>1. None \in 0 .. FileBank /\ 0 \in 0 .. MaxFiles
    BY PathmanTypes DEF None
  <2>2. [p \in 1 .. MaxFiles |-> BlankFile] \in [1 .. MaxFiles -> FileNode]
    BY <2>1 DEF BlankFile, FileNode
  <2> QED
    BY <2>1, <2>2 DEF FilesAre, BankIs
<1>16. PathsAre(ps)
  <2>1. <<>> \in Seq(Nat) /\ <<>> \o <<Slash>> = <<Slash>>
    BY <1>1
  <2>2. \E u \in Seq(Nat) : <<Slash>> = u \o <<Slash>>
    BY <2>1
  <2>3. <<Slash>> \in Words
    BY PathmanAssumption
  <2> QED
    BY <2>2, <2>3 DEF PathsAre
<1>17. DOMAIN m \subseteq Words /\ Range(m) \subseteq Entries /\ DirKeys(m)
  <2>1. DOMAIN m \subseteq Words /\ Range(m) \subseteq Entries
    BY <1>2, <1>9, PathmanAssumption DEF Range
  <2>2. <<>> \in Seq(Nat) /\ <<>> \o <<Slash>> = <<Slash>>
    BY <1>1
  <2>3. DirKeys(m)
    BY <1>9, <2>2 DEF DirKeys
  <2> QED
    BY <2>1, <2>3
<1> QED
  BY <1>12, <1>13, <1>14, <1>15, <1>16, <1>17 DEF nd

(***************************************************************************)
(* pathman_init, pathman_clear, and a step that changes nothing.           *)
(***************************************************************************)
LEMMA RootInv ==
  /\ PInit => PathmanInv
  /\ PClear => PathmanInv'
<1> DEFINE m  == [w \in {<<Slash>>} |-> Entry(TRUE, 1)]
           ps == [p \in 1 .. MaxDirs |-> IF p = 1 THEN <<Slash>> ELSE NoPath]
           fs == [p \in 1 .. MaxFiles |-> BlankFile]
<1>1. m = [w \in {<<Slash>>} |-> Entry(TRUE, 1)]
      /\ ps = [p \in 1 .. MaxDirs |-> IF p = 1 THEN <<Slash>> ELSE NoPath]
      /\ fs = [p \in 1 .. MaxFiles |-> BlankFile]
  OBVIOUS
<1> HIDE DEF m, ps, fs
<1>2. /\ TopsAre(RootOnly, {1}, 1, m, ps, RootDir)
      /\ Accounts({1}, <<>>, 1)
      /\ DirsAre(RootDir, None, 1)
      /\ FilesAre(fs, None, 0)
      /\ PathsAre(ps) /\ DOMAIN m \subseteq Words /\ Range(m) \subseteq Entries /\ DirKeys(m)
  BY <1>1, RootTree
<1>3. ASSUME PInit PROVE PathmanInv
  <2>1. /\ node = RootOnly /\ used = {1} /\ root = 1 /\ free = <<>> /\ top = 1 /\ kv = m
        /\ dir = RootDir /\ dtop = 1 /\ dfree = None /\ file = fs /\ ftop = 0 /\ ffree = None
        /\ path = ps
    BY <1>1, <1>3 DEF PInit
  <2> QED
    BY <1>2, <2>1 DEF PathmanInv
<1>4. ASSUME PClear PROVE PathmanInv'
  <2>1. /\ node' = RootOnly /\ used' = {1} /\ root' = 1 /\ free' = <<>> /\ top' = 1 /\ kv' = m
        /\ dir' = RootDir /\ dtop' = 1 /\ dfree' = None /\ file' = fs /\ ftop' = 0
        /\ ffree' = None /\ path' = ps
    BY <1>1, <1>4 DEF PClear
  <2>2. /\ DOMAIN kv' \subseteq Words /\ Range(kv') \subseteq Entries /\ DirKeys(kv')
        /\ Accounts(used', free', top')
        /\ DirsAre(dir', dfree', dtop') /\ FilesAre(file', ffree', ftop') /\ PathsAre(path')
        /\ TopsAre(node', used', root', kv', path', dir')
    BY <1>2, <2>1
  <2> QED
    BY <2>2, InvAfter
<1> QED
  BY <1>3, <1>4

-----------------------------------------------------------------------------
(* Theorems.                                                               *)

(***************************************************************************)
(* Whatever directories and files pathman_add_dir and pathman_add_file put *)
(* in, and run out of memory over, the trie is the tree of the paths that  *)
(* are in, a directory's state.top is the node that ends its path, and the *)
(* free list of a bank is its first node or nothing.                       *)
(***************************************************************************)
THEOREM PathmanKeepsInv == PSpec => []PathmanInv
<1>1. PInit => PathmanInv
  BY RootInv
<1>2. PathmanInv /\ [PNext]_pvars => PathmanInv'
  <2> SUFFICES ASSUME PathmanInv, [PNext]_pvars PROVE PathmanInv'
    OBVIOUS
  <2>1. CASE PClear
    BY <2>1, RootInv
  <2>2. ASSUME NEW above \in DOMAIN kv, NEW name \in Names, AddDir(above, name) PROVE PathmanInv'
    BY <2>2, AddDirStep
  <2>3. ASSUME NEW above \in DOMAIN kv, NEW name \in Names, AddDirFails(above, name) PROVE PathmanInv'
    BY <2>3, AddDirFailsStep
  <2>4. ASSUME NEW p \in Held, NEW name \in Names, AddFile(p, name) PROVE PathmanInv'
    BY <2>4, AddFileStep
  <2>5. ASSUME NEW p \in Held, NEW name \in Names, AddFileFails(p, name) PROVE PathmanInv'
    BY <2>5, AddFileFailsStep
  <2>6. CASE UNCHANGED pvars
    <3>1. /\ node' = node /\ used' = used /\ root' = root /\ free' = free /\ top' = top /\ kv' = kv
          /\ dir' = dir /\ dtop' = dtop /\ dfree' = dfree /\ file' = file /\ ftop' = ftop
          /\ ffree' = ffree /\ path' = path
      BY <2>6 DEF pvars, trieVars, dirVars, fileVars
    <3>2. /\ DOMAIN kv' \subseteq Words /\ Range(kv') \subseteq Entries /\ DirKeys(kv')
          /\ Accounts(used', free', top')
          /\ DirsAre(dir', dfree', dtop') /\ FilesAre(file', ffree', ftop') /\ PathsAre(path')
          /\ TopsAre(node', used', root', kv', path', dir')
      BY <3>1 DEF PathmanInv
    <3> QED
      BY <3>2, InvAfter
  <2> QED
    BY <2>1, <2>2, <2>3, <2>4, <2>5, <2>6 DEF PNext
<1> QED
  BY <1>1, <1>2, PTL DEF PSpec

(***************************************************************************)
(* Types, and that pathman_remdir and pathman_remfile find a node to free: *)
(* the first of a bank is free exactly while the free list is not empty.   *)
(***************************************************************************)
THEOREM PathmanTyped == PSpec => []PTypeOK
<1>1. PathmanInv => PTypeOK
  <2> SUFFICES ASSUME PathmanInv PROVE PTypeOK
    OBVIOUS
  <2>1. PICK at, rank, from : Shape(node, used, root, at, rank, from)
    BY DEF PathmanInv, TopsAre
  <2>2. TypeOK
    <3>1. free \in Seq(Index) /\ top \in 0 .. MaxNodes
      BY DEF PathmanInv, Accounts
    <3>2. root \in Link
      BY <2>1, NoNodeIsNone DEF Shape
    <3>3. DOMAIN kv \subseteq Words /\ Range(kv) \subseteq Data
      BY PathmanTypes DEF PathmanInv
    <3> QED
      BY <2>1, <3>1, <3>2, <3>3 DEF TypeOK, Shape
  <2>3. /\ dir \in [1 .. MaxDirs -> DirNode] /\ dtop \in 1 .. MaxDirs
        /\ BankIs(dir, dfree, dtop, DirBank)
        /\ file \in [1 .. MaxFiles -> FileNode] /\ ftop \in 0 .. MaxFiles
        /\ BankIs(file, ffree, ftop, FileBank)
        /\ path \in [1 .. MaxDirs -> Words \cup {NoPath}]
    BY DEF PathmanInv, DirsAre, FilesAre, PathsAre
  <2>4. dtop > 0
    BY <2>3
  <2>5. (dir[1].isused <=> dfree = None) /\ (ftop > 0 => (file[1].isused <=> ffree = None))
    BY <2>3, <2>4 DEF BankIs
  <2> QED
    BY <2>2, <2>3, <2>5 DEF PTypeOK, DirNode, FileNode
<1> QED
  BY <1>1, PathmanKeepsInv, PTL

(***************************************************************************)
(* A path is found, with what was put in for it, exactly while it is in:   *)
(* a file put in from the node of its directory is found from the root.    *)
(***************************************************************************)
THEOREM PathmanFinds == PSpec => []FindsWhatIsIn
<1>1. PathmanInv => FindsWhatIsIn
  <2> SUFFICES ASSUME PathmanInv, NEW w \in Probes
               PROVE  Find(w) = IF w \in DOMAIN kv THEN kv[w] ELSE NoData
    BY DEF FindsWhatIsIn
  <2>1. PICK at, rank, from : Shape(node, used, root, at, rank, from)
                              /\ Holds(node, used, at, kv)
    BY DEF PathmanInv, TopsAre
  <2> QED
    BY <2>1, ProbeTyped, FindsHeld
<1> QED
  BY <1>1, PathmanKeepsInv, PTL

(***************************************************************************)
(* A directory's state.top stays the node that ends its path, however      *)
(* pathman_add_dir and pathman_add_file split the nodes around it.         *)
(***************************************************************************)
THEOREM PathmanTopsStay == PSpec => []TopsStay
<1>1. PathmanInv => TopsStay
  <2> SUFFICES ASSUME PathmanInv, NEW p \in Held, dir[p].top # NoNode
               PROVE  dir[p].top = FindNode(path[p])
    BY DEF TopsStay
  <2>1. PICK at, rank, from : Shape(node, used, root, at, rank, from)
                              /\ EndPaths(node, used, at, path, dir)
    BY DEF PathmanInv, TopsAre
  <2>2. p \in 1 .. MaxDirs /\ path[p] # NoPath
    BY PathmanTypes DEF Held, PathmanInv, DirsAre
  <2>3. path[p] \in Seq(Nat) /\ path[p] # <<>>
    <3>1. path[p] \in Words
      BY <2>2 DEF PathmanInv, PathsAre
    <3> QED
      BY <3>1, WordTyped
  <2>4. dir[p].top \in used /\ HasData(dir[p].top) /\ Word(node, at, dir[p].top) = path[p]
    BY <2>1, <2>2 DEF EndPaths, HasData
  <2> DEFINE w == path[p]
             y == dir[p].top
  <2>5. w \in Seq(Nat) /\ w # <<>> /\ y \in used /\ HasData(y) /\ Word(node, at, y) = w
    BY <2>3, <2>4
  <2> HIDE DEF w, y
  <2>6. FindNode(w) = y
    BY <2>1, <2>5, FindNodeIs
  <2> QED
    BY <2>6 DEF w, y
<1> QED
  BY <1>1, PathmanKeepsInv, PTL

=============================================================================

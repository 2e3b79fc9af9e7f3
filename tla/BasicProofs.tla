----------------------------- MODULE BasicProofs -----------------------------
(***************************************************************************)
(* Facts that the proofs about several components use: reachability in a   *)
(* graph, induction over the natural numbers in terms of sets, and when a  *)
(* recursive function is what its definition says.                         *)
(***************************************************************************)
EXTENDS Reachability, Powers, SequenceTheorems, WellFoundedInduction, TLAPS

-----------------------------------------------------------------------------
(* Reachability.                                                           *)

(***************************************************************************)
(* The seeds are reachable.                                                *)
(***************************************************************************)
LEMMA SeedsReachable ==
  ASSUME NEW seeds, NEW succ, seeds \subseteq DOMAIN succ
  PROVE  seeds \subseteq ReachableFrom(seeds, succ)
BY DEF ReachableFrom

(***************************************************************************)
(* Only nodes of the graph are reachable.                                  *)
(***************************************************************************)
LEMMA ReachableNodes ==
  ASSUME NEW seeds, NEW succ
  PROVE  ReachableFrom(seeds, succ) \subseteq DOMAIN succ
BY DEF ReachableFrom

(***************************************************************************)
(* The reachable nodes lie in every closed set with the seeds.             *)
(***************************************************************************)
LEMMA ReachableLeast ==
  ASSUME NEW seeds, NEW succ, NEW S \in SUBSET DOMAIN succ,
         seeds \subseteq S, Closed(S, succ)
  PROVE  ReachableFrom(seeds, succ) \subseteq S
<1> SUFFICES ASSUME NEW n \in ReachableFrom(seeds, succ), n \notin S
             PROVE  FALSE
  OBVIOUS
<1>1. S \in SUBSET (DOMAIN succ \ {n})
  OBVIOUS
<1> QED
  BY <1>1 DEF ReachableFrom

(***************************************************************************)
(* No edge leaves the reachable nodes.                                     *)
(***************************************************************************)
LEMMA ReachableClosed ==
  ASSUME NEW seeds, NEW succ, \A n \in DOMAIN succ : succ[n] \subseteq DOMAIN succ
  PROVE  Closed(ReachableFrom(seeds, succ), succ)
<1> DEFINE R == ReachableFrom(seeds, succ)
<1> SUFFICES ASSUME NEW m \in R, NEW v \in succ[m], v \notin R
             PROVE  FALSE
  BY DEF Closed
<1>1. m \in DOMAIN succ /\ v \in DOMAIN succ
  BY ReachableNodes
<1>2. PICK S \in SUBSET (DOMAIN succ \ {v}) : seeds \subseteq S /\ Closed(S, succ)
  BY <1>1 DEF ReachableFrom
<1>3. m \notin S
  BY <1>2 DEF Closed
<1>4. S \in SUBSET (DOMAIN succ \ {m})
  BY <1>3
<1> QED
  BY <1>2, <1>4 DEF ReachableFrom

-----------------------------------------------------------------------------
(* Induction.                                                              *)

Less == {p \in Nat \X Nat : p[1] < p[2]}

(***************************************************************************)
(* There is no endless descent in the natural numbers.                     *)
(***************************************************************************)
LEMMA LessWellFounded == IsWellFoundedOn(Less, Nat)
<1>1. IsWellFoundedOn({p \in Nat \X Nat : p[1] < p[2]}, Nat)
  BY NatLessThanWellFounded DEF OpToRel
<1> QED
  BY <1>1 DEF Less

(***************************************************************************)
(* A set of natural numbers has a least one.                               *)
(***************************************************************************)
LEMMA LeastNat ==
  ASSUME NEW T \in SUBSET Nat, T # {}
  PROVE  \E m \in T : \A n \in T : m <= n
<1>1. PICK m \in T : \A n \in T : ~ (<<n, m>> \in Less)
  BY LessWellFounded, WFMin
<1>2. ASSUME NEW n \in T PROVE m <= n
  <2>1. n < m => <<n, m>> \in Less
    BY DEF Less
  <2> QED
    BY <1>1, <2>1
<1> QED
  BY <1>2

(***************************************************************************)
(* A set of natural numbers below a bound has a greatest one.              *)
(***************************************************************************)
LEMMA GreatestNat ==
  ASSUME NEW T \in SUBSET Nat, T # {}, NEW b \in Nat, \A n \in T : n <= b
  PROVE  \E m \in T : \A n \in T : n <= m
<1> DEFINE U == {b - n : n \in T}
<1>1. U \in SUBSET Nat /\ U # {}
  <2>1. ASSUME NEW n \in T PROVE b - n \in Nat
    OBVIOUS
  <2> QED
    BY <2>1
<1>2. PICK u \in U : \A n \in U : u <= n
  BY <1>1, LeastNat
<1>3. PICK m \in T : u = b - m
  OBVIOUS
<1>4. ASSUME NEW n \in T PROVE n <= m
  <2>1. b - n \in U
    OBVIOUS
  <2> HIDE DEF U
  <2> QED
    BY <2>1, <1>2, <1>3
<1> QED
  BY <1>4

(***************************************************************************)
(* Induction: a set with 0 and the successors of its elements is Nat.      *)
(***************************************************************************)
LEMMA NatInduct ==
  ASSUME NEW T \in SUBSET Nat, 0 \in T, \A n \in T : n + 1 \in T
  PROVE  T = Nat
<1> SUFFICES ASSUME Nat \ T # {} PROVE FALSE
  OBVIOUS
<1>1. PICK m \in Nat \ T : \A n \in Nat \ T : m <= n
  BY LeastNat
<1>2. m # 0 /\ m - 1 \in Nat
  BY <1>1
<1>3. m - 1 \in T
  BY <1>1, <1>2
<1> QED
  BY <1>1, <1>2, <1>3

(***************************************************************************)
(* Induction that may use all smaller numbers.                             *)
(***************************************************************************)
LEMMA NatInductBelow ==
  ASSUME NEW T \in SUBSET Nat,
         \A n \in Nat : (\A k \in Nat : k < n => k \in T) => n \in T
  PROVE  T = Nat
<1> SUFFICES ASSUME Nat \ T # {} PROVE FALSE
  OBVIOUS
<1>1. PICK m \in Nat \ T : \A n \in Nat \ T : m <= n
  BY LeastNat
<1> QED
  BY <1>1

(***************************************************************************)
(* Induction up to a bound.                                                *)
(***************************************************************************)
LEMMA InductUpTo ==
  ASSUME NEW n \in Nat, NEW T, 0 \in T, \A i \in 0 .. n - 1 : i \in T => i + 1 \in T
  PROVE  \A i \in 0 .. n : i \in T
<1> DEFINE U == {k \in Nat : k <= n => k \in T}
<1>1. U = Nat
  <2>1. 0 \in U
    OBVIOUS
  <2>2. ASSUME NEW k \in U PROVE k + 1 \in U
    <3> SUFFICES ASSUME k + 1 <= n PROVE k + 1 \in T
      OBVIOUS
    <3>1. k \in 0 .. n - 1 /\ k \in T
      OBVIOUS
    <3> QED
      BY <3>1
  <2>3. U \in SUBSET Nat
    OBVIOUS
  <2> HIDE DEF U
  <2> QED
    BY <2>1, <2>2, <2>3, NatInduct
<1> QED
  BY <1>1

-----------------------------------------------------------------------------
(* Recursive functions.                                                    *)

\* g does what F says on every argument of a measure below n.
Approximates(g, D, m, F, n) == \A a \in D : m[a] < n => g[a] = F[<<a, g>>]

\* F looks at its second argument below the measure of its first only.
LooksBelow(D, R, m, F) ==
  \A a \in D, g, h \in [D -> R] :
    (\A b \in D : m[b] < m[a] => g[b] = h[b]) => F[<<a, g>>] = F[<<a, h>>]

(***************************************************************************)
(* Two approximations agree as far as both go.                             *)
(***************************************************************************)
LEMMA ApproximationsAgree ==
  ASSUME NEW D, NEW R, NEW m \in [D -> Nat], NEW F, LooksBelow(D, R, m, F),
         NEW n \in Nat, NEW g \in [D -> R], NEW h \in [D -> R],
         Approximates(g, D, m, F, n), Approximates(h, D, m, F, n),
         NEW a \in D, m[a] < n
  PROVE  g[a] = h[a]
<1> DEFINE T == {k \in Nat : \A b \in D : m[b] = k /\ k < n => g[b] = h[b]}
<1>1. ASSUME NEW k \in Nat, \A j \in Nat : j < k => j \in T
      PROVE  k \in T
  <2> SUFFICES ASSUME NEW b \in D, m[b] = k, k < n PROVE g[b] = h[b]
    OBVIOUS
  <2>1. ASSUME NEW c \in D, m[c] < m[b] PROVE g[c] = h[c]
    <3>1. m[c] \in Nat /\ m[c] < k /\ m[c] < n
      BY <2>1
    <3> QED
      BY <3>1, <1>1
  <2>2. F[<<b, g>>] = F[<<b, h>>]
    BY <2>1 DEF LooksBelow
  <2> QED
    BY <2>2 DEF Approximates
<1>2. T = Nat
  <2> HIDE DEF T
  <2>1. T \in SUBSET Nat
    BY DEF T
  <2> QED
    BY <1>1, <2>1, NatInductBelow
<1> QED
  BY <1>2

(***************************************************************************)
(* There are approximations up to every measure.                           *)
(***************************************************************************)
LEMMA ApproximationsExist ==
  ASSUME NEW D, NEW R, R # {}, NEW m \in [D -> Nat],
         NEW F \in [D \X [D -> R] -> R], LooksBelow(D, R, m, F), NEW n \in Nat
  PROVE  \E g \in [D -> R] : Approximates(g, D, m, F, n)
<1> DEFINE T == {k \in Nat : \E g \in [D -> R] : Approximates(g, D, m, F, k)}
<1>1. 0 \in T
  <2>1. PICK r : r \in R
    OBVIOUS
  <2>2. [a \in D |-> r] \in [D -> R] /\ Approximates([a \in D |-> r], D, m, F, 0)
    BY <2>1 DEF Approximates
  <2> QED
    BY <2>2
<1>2. ASSUME NEW k \in T PROVE k + 1 \in T
  <2>1. PICK g \in [D -> R] : Approximates(g, D, m, F, k)
    OBVIOUS
  <2> DEFINE h == [a \in D |-> IF m[a] < k THEN g[a] ELSE F[<<a, g>>]]
  <2>2. h \in [D -> R]
    OBVIOUS
  <2>3. ASSUME NEW a \in D, m[a] < k + 1 PROVE h[a] = F[<<a, h>>]
    <3>1. ASSUME NEW b \in D, m[b] < m[a] PROVE g[b] = h[b]
      BY <2>3, <3>1
    <3>2. F[<<a, g>>] = F[<<a, h>>]
      <4> HIDE DEF h
      <4> QED
        BY <3>1, <2>2 DEF LooksBelow
    <3>3. h[a] = F[<<a, g>>]
      BY <2>1 DEF Approximates
    <3> QED
      BY <3>2, <3>3
  <2> HIDE DEF h
  <2> QED
    BY <2>2, <2>3 DEF Approximates
<1>3. T = Nat
  <2> HIDE DEF T
  <2>1. T \in SUBSET Nat
    BY DEF T
  <2> QED
    BY <1>1, <1>2, <2>1, NatInduct
<1> QED
  BY <1>3

\* There is a function from D to R that is on each argument what F says.
Solvable(D, R, F) == \E f \in [D -> R] : \A a \in D : f[a] = F[<<a, f>>]

(***************************************************************************)
(* A definition by recursion along a measure has a solution.               *)
(***************************************************************************)
LEMMA RecursionSolved ==
  ASSUME NEW D, NEW R, R # {}, NEW m \in [D -> Nat],
         NEW F \in [D \X [D -> R] -> R], LooksBelow(D, R, m, F)
  PROVE  Solvable(D, R, F)
<1> DEFINE G(n) == CHOOSE g \in [D -> R] : Approximates(g, D, m, F, n)
           f == [a \in D |-> G(m[a] + 1)[a]]
<1>1. ASSUME NEW n \in Nat PROVE G(n) \in [D -> R] /\ Approximates(G(n), D, m, F, n)
  BY ApproximationsExist
<1> HIDE DEF G
<1>2. f \in [D -> R]
  <2> SUFFICES ASSUME NEW a \in D PROVE G(m[a] + 1)[a] \in R
    OBVIOUS
  <2> QED
    BY <1>1
<1>3. ASSUME NEW a \in D PROVE f[a] = F[<<a, f>>]
  <2> DEFINE g == G(m[a] + 1)
  <2>1. g \in [D -> R] /\ Approximates(g, D, m, F, m[a] + 1)
    <3>1. m[a] + 1 \in Nat
      OBVIOUS
    <3> QED
      BY <1>1, <3>1
  <2>2. g[a] = F[<<a, g>>]
    <3> HIDE DEF g
    <3>1. m[a] < m[a] + 1
      OBVIOUS
    <3> QED
      BY <2>1, <3>1 DEF Approximates
  <2>3. ASSUME NEW b \in D, m[b] < m[a] PROVE g[b] = f[b]
    <3> DEFINE h == G(m[b] + 1)
    <3>1. h \in [D -> R] /\ Approximates(h, D, m, F, m[b] + 1)
      <4>1. m[b] + 1 \in Nat
        OBVIOUS
      <4> QED
        BY <1>1, <4>1
    <3> HIDE DEF h, g
    <3>2. Approximates(g, D, m, F, m[b] + 1)
      BY <2>1, <2>3 DEF Approximates
    <3>3. m[b] < m[b] + 1 /\ m[b] + 1 \in Nat
      OBVIOUS
    <3>4. g[b] = h[b]
      BY <2>1, <3>1, <3>2, <3>3, ApproximationsAgree
    <3> QED
      BY <3>4 DEF h
  <2>4. F[<<a, g>>] = F[<<a, f>>]
    <3> HIDE DEF f, g
    <3> QED
      BY <2>1, <2>3, <1>2 DEF LooksBelow
  <2>5. f[a] = g[a]
    OBVIOUS
  <2> HIDE DEF f, g
  <2> QED
    BY <2>2, <2>4, <2>5
<1> HIDE DEF f
<1> QED
  BY <1>2, <1>3 DEF Solvable

-----------------------------------------------------------------------------
(* Powers and digits.                                                      *)

\* F leads from S to S, and f starts from start and follows F, n times.
Steps(F, n, S) == \A i \in 1 .. n, s \in S : F[<<i, s>>] \in S
Iterated(f, F, n, start) == f[0] = start /\ \A i \in 1 .. n : f[i] = F[<<i, f[i - 1]>>]

(***************************************************************************)
(* There is a function that starts from start and follows F n times.       *)
(***************************************************************************)
LEMMA IterationExists ==
  ASSUME NEW n \in Nat, NEW S, NEW start \in S, NEW F, Steps(F, n, S)
  PROVE  \E f \in [0 .. n -> S] : Iterated(f, F, n, start)
<1> DEFINE Follows(f, k) == f[0] = start /\ \A i \in 1 .. k : f[i] = F[<<i, f[i - 1]>>]
           T == {k \in Nat : k <= n => \E f \in [0 .. k -> S] : Follows(f, k)}
<1>1. 0 \in T
  <2>1. [i \in 0 .. 0 |-> start] \in [0 .. 0 -> S] /\ Follows([i \in 0 .. 0 |-> start], 0)
    OBVIOUS
  <2> QED
    BY <2>1
<1>2. ASSUME NEW k \in T PROVE k + 1 \in T
  <2> SUFFICES ASSUME k + 1 <= n
               PROVE  \E f \in [0 .. k + 1 -> S] : Follows(f, k + 1)
    OBVIOUS
  <2>1. PICK f \in [0 .. k -> S] : Follows(f, k)
    OBVIOUS
  <2> DEFINE g == [i \in 0 .. k + 1 |-> IF i <= k THEN f[i] ELSE F[<<i, f[k]>>]]
  <2>2. g \in [0 .. k + 1 -> S]
    <3>1. ASSUME NEW i \in 0 .. k + 1 PROVE g[i] \in S
      <4>1. CASE i <= k
        BY <4>1
      <4>2. CASE i = k + 1
        <5>1. f[k] \in S /\ i \in 1 .. n /\ ~(i <= k)
          BY <4>2
        <5> QED
          BY <5>1 DEF Steps
      <4> QED
        BY <4>1, <4>2
    <3> QED
      BY <3>1
  <2>3. g[0] = start
    BY <2>1
  <2>4. ASSUME NEW i \in 1 .. k + 1 PROVE g[i] = F[<<i, g[i - 1]>>]
    <3>1. g[i - 1] = f[i - 1]
      BY <2>4
    <3>2. CASE i <= k
      BY <3>1, <3>2, <2>1
    <3>3. CASE i = k + 1
      BY <3>1, <3>3
    <3> QED
      BY <3>2, <3>3
  <2> HIDE DEF g
  <2> QED
    BY <2>2, <2>3, <2>4
<1>3. T = Nat
  <2> HIDE DEF T
  <2>1. T \in SUBSET Nat
    BY DEF T
  <2> QED
    BY <1>1, <1>2, <2>1, NatInduct
<1>4. n \in T /\ n <= n
  BY <1>3
<1>5. PICK f \in [0 .. n -> S] : Follows(f, n)
  BY <1>4
<1> QED
  BY <1>5 DEF Iterated

(***************************************************************************)
(* What Power is defined by.                                               *)
(***************************************************************************)
LEMMA PowerIs ==
  ASSUME NEW radix \in Nat
  PROVE  /\ Power(radix, 0) = 1
         /\ \A n \in Nat : Power(radix, n) \in Nat /\ Power(radix, n + 1) = radix * Power(radix, n)
<1> DEFINE R == Nat
           m == [i \in Nat |-> i]
           F == [q \in Nat \X [Nat -> R] |-> IF q[1] = 0 THEN 1 ELSE radix * q[2][q[1] - 1]]
           Body(p) == [i \in Nat |-> IF i = 0 THEN 1 ELSE radix * p[i - 1]]
           power == CHOOSE p : p = Body(p)
<1>1. Solvable(Nat, R, F)
  <2>1. F \in [Nat \X [Nat -> R] -> R]
    OBVIOUS
  <2>2. m \in [Nat -> Nat] /\ R # {}
    OBVIOUS
  <2>3. LooksBelow(Nat, R, m, F)
    <3> SUFFICES ASSUME NEW a \in Nat, NEW g \in [Nat -> R], NEW h \in [Nat -> R],
                        \A b \in Nat : m[b] < m[a] => g[b] = h[b]
                 PROVE  F[<<a, g>>] = F[<<a, h>>]
      BY DEF LooksBelow
    <3> QED
      OBVIOUS
  <2> HIDE DEF F, m
  <2> QED
    BY <2>1, <2>2, <2>3, RecursionSolved
<1>2. PICK f \in [Nat -> R] : \A a \in Nat : f[a] = F[<<a, f>>]
  BY <1>1 DEF Solvable
<1>3. f = Body(f)
  BY <1>2
<1>4. power = Body(power)
  <2> HIDE DEF Body
  <2> QED
    BY <1>3
<1>5. \A n \in Nat : Power(radix, n) = power[n]
  BY DEF Power
<1> HIDE DEF power
<1>6. Power(radix, 0) = 1
  BY <1>4, <1>5
<1>7. ASSUME NEW n \in Nat PROVE Power(radix, n + 1) = radix * Power(radix, n)
  <2>1. n + 1 \in Nat /\ n + 1 # 0 /\ (n + 1) - 1 = n
    OBVIOUS
  <2>2. power[n + 1] = radix * power[(n + 1) - 1]
    BY <1>4, <2>1
  <2> QED
    BY <1>5, <2>1, <2>2
<1> DEFINE T == {n \in Nat : Power(radix, n) \in Nat}
<1>8. T = Nat
  <2>1. 0 \in T
    BY <1>6
  <2>2. ASSUME NEW n \in T PROVE n + 1 \in T
    BY <1>7
  <2>3. T \in SUBSET Nat
    OBVIOUS
  <2> HIDE DEF T
  <2> QED
    BY <2>1, <2>2, <2>3, NatInduct
<1>9. \A n \in Nat : Power(radix, n) \in Nat
  BY <1>8
<1> HIDE DEF T
<1> QED
  BY <1>6, <1>7, <1>9

(***************************************************************************)
(* Powers of a positive number are positive.                               *)
(***************************************************************************)
LEMMA PowerPositive ==
  ASSUME NEW radix \in Nat \ {0}, NEW n \in Nat
  PROVE  Power(radix, n) \in Nat /\ Power(radix, n) > 0
<1> DEFINE T == {k \in Nat : Power(radix, k) > 0}
<1>1. 0 \in T
  BY PowerIs
<1>2. ASSUME NEW k \in T PROVE k + 1 \in T
  <2> DEFINE p == Power(radix, k)
  <2>1. p \in Nat /\ p > 0 /\ Power(radix, k + 1) = radix * p
    BY PowerIs
  <2> HIDE DEF p
  <2>2. radix * p > 0
    BY <2>1
  <2> QED
    BY <2>1, <2>2
<1>3. T = Nat
  <2>1. T \in SUBSET Nat
    OBVIOUS
  <2> HIDE DEF T
  <2> QED
    BY <1>1, <1>2, <2>1, NatInduct
<1> QED
  BY <1>3, PowerIs

(***************************************************************************)
(* Exponents add up.                                                       *)
(***************************************************************************)
LEMMA PowerAdds ==
  ASSUME NEW radix \in Nat, NEW m \in Nat, NEW n \in Nat
  PROVE  Power(radix, m + n) = Power(radix, m) * Power(radix, n)
<1> DEFINE T == {k \in Nat : Power(radix, m + k) = Power(radix, m) * Power(radix, k)}
           q == Power(radix, m)
<1>0. q \in Nat
  BY PowerIs
<1>1. 0 \in T
  <2>1. m + 0 = m /\ q * 1 = q
    BY <1>0
  <2> QED
    BY <2>1, PowerIs
<1>2. ASSUME NEW k \in T PROVE k + 1 \in T
  <2> DEFINE p == Power(radix, k)
             s == Power(radix, m + k)
  <2>1. p \in Nat /\ Power(radix, k + 1) = radix * p /\ s = q * p
    BY PowerIs
  <2>2. s \in Nat /\ Power(radix, (m + k) + 1) = radix * s
    <3>1. m + k \in Nat
      OBVIOUS
    <3> QED
      BY <3>1, PowerIs
  <2>3. m + (k + 1) = (m + k) + 1
    OBVIOUS
  <2>4. Power(radix, m + (k + 1)) = radix * s
    BY <2>2, <2>3
  <2> HIDE DEF p, q, s
  <2>5. radix * (q * p) = q * (radix * p)
    BY <1>0, <2>1
  <2>6. Power(radix, m + (k + 1)) = q * Power(radix, k + 1)
    BY <2>1, <2>4, <2>5
  <2> QED
    BY <2>6 DEF q
<1>3. T = Nat
  <2>1. T \in SUBSET Nat
    OBVIOUS
  <2> HIDE DEF T
  <2> QED
    BY <1>1, <1>2, <2>1, NatInduct
<1> QED
  BY <1>3

(***************************************************************************)
(* Powers grow with their exponent, past it.                               *)
(***************************************************************************)
LEMMA PowerGrows ==
  ASSUME NEW radix \in Nat, radix > 1, NEW m \in Nat, NEW n \in Nat, m < n
  PROVE  radix * Power(radix, m) <= Power(radix, n)
<1> DEFINE k == n - (m + 1)
           p == Power(radix, m)
           q == Power(radix, k)
<1>1. k \in Nat /\ n = (m + 1) + k /\ m + 1 \in Nat
  OBVIOUS
<1>2. Power(radix, n) = Power(radix, m + 1) * q
  <2> HIDE DEF k
  <2> QED
    BY <1>1, PowerAdds
<1>3. Power(radix, m + 1) = radix * p /\ p \in Nat
  BY PowerIs
<1>4. q \in Nat /\ q > 0
  <2> HIDE DEF k
  <2> QED
    BY <1>1, PowerPositive
<1> HIDE DEF k, p, q
<1>5. radix * p \in Nat
  BY <1>3
<1> DEFINE r == radix * p
<1> HIDE DEF r
<1>6. r * q >= r
  <2>1. r \in Nat
    BY <1>5 DEF r
  <2> QED
    BY <2>1, <1>4
<1> QED
  BY <1>2, <1>3, <1>6 DEF r, p

LEMMA PowerMonotone ==
  ASSUME NEW radix \in Nat, radix > 1, NEW m \in Nat, NEW n \in Nat, m <= n
  PROVE  Power(radix, m) <= Power(radix, n)
<1> DEFINE p == Power(radix, m)
           q == Power(radix, n)
<1>1. p \in Nat /\ q \in Nat
  BY PowerIs
<1>2. CASE m < n
  <2>1. radix * p <= q
    BY <1>2, PowerGrows
  <2> HIDE DEF p, q
  <2>2. p <= radix * p
    BY <1>1
  <2>3. radix * p \in Nat
    BY <1>1
  <2>4. p <= q
    BY <1>1, <2>1, <2>2, <2>3
  <2> QED
    BY <2>4 DEF p, q
<1>3. CASE m = n
  BY <1>1, <1>3
<1> QED
  BY <1>2, <1>3

(***************************************************************************)
(* So the exponents compare as the powers do.                              *)
(***************************************************************************)
LEMMA PowerReflects ==
  ASSUME NEW radix \in Nat, radix > 1, NEW m \in Nat, NEW n \in Nat,
         Power(radix, m) < Power(radix, n)
  PROVE  m < n
<1> SUFFICES ASSUME n <= m PROVE FALSE
  OBVIOUS
<1>1. Power(radix, n) <= Power(radix, m)
  BY PowerMonotone
<1>2. Power(radix, n) \in Nat /\ Power(radix, m) \in Nat
  BY PowerIs
<1> QED
  BY <1>1, <1>2

(***************************************************************************)
(* A power of a power.                                                     *)
(***************************************************************************)
LEMMA PowerOfPower ==
  ASSUME NEW radix \in Nat, NEW k \in Nat, NEW n \in Nat
  PROVE  Power(Power(radix, k), n) = Power(radix, k * n)
<1> DEFINE q == Power(radix, k)
           T == {i \in Nat : Power(q, i) = Power(radix, k * i)}
<1>0. q \in Nat
  BY PowerIs
<1>1. 0 \in T
  <2>1. k * 0 = 0
    OBVIOUS
  <2> HIDE DEF q
  <2> QED
    BY <2>1, <1>0, PowerIs
<1>2. ASSUME NEW i \in T PROVE i + 1 \in T
  <2>1. k * (i + 1) = k * i + k /\ k * i \in Nat
    OBVIOUS
  <2>2. Power(radix, k * i + k) = Power(radix, k * i) * q
    BY <2>1, PowerAdds
  <2>3. Power(q, i + 1) = q * Power(q, i)
    <3> HIDE DEF q
    <3> QED
      BY <1>0, PowerIs
  <2>4. Power(radix, k * i) \in Nat
    BY <2>1, PowerIs
  <2> DEFINE p == Power(radix, k * i)
  <2>5. Power(q, i) = p
    OBVIOUS
  <2>6. q * p = p * q
    <3> HIDE DEF p, q
    <3>1. p \in Nat
      BY <2>4 DEF p
    <3> QED
      BY <1>0, <3>1
  <2>7. Power(q, i + 1) = Power(radix, k * (i + 1))
    BY <2>1, <2>2, <2>3, <2>5, <2>6
  <2> QED
    BY <2>7
<1>3. T = Nat
  <2>1. T \in SUBSET Nat
    OBVIOUS
  <2> HIDE DEF T
  <2> QED
    BY <1>1, <1>2, <2>1, NatInduct
<1> QED
  BY <1>3

(***************************************************************************)
(* Division with a rest.                                                   *)
(***************************************************************************)
LEMMA Division ==
  ASSUME NEW v \in Nat, NEW m \in Nat \ {0}
  PROVE  v \div m \in Nat /\ v % m \in Nat /\ v % m < m /\ v = m * (v \div m) + (v % m)
OBVIOUS

LEMMA DivisionUnique ==
  ASSUME NEW q \in Nat, NEW m \in Nat \ {0}, NEW r \in Nat, r < m, NEW v, v = m * q + r
  PROVE  v \div m = q /\ v % m = r
<1> DEFINE d == v \div m
           e == v % m
<1>1. m * q \in Nat /\ v \in Nat
  OBVIOUS
<1>2. d \in Nat /\ e \in Nat /\ e < m /\ v = m * d + e
  BY <1>1, Division
<1> HIDE DEF d, e
<1>3. ASSUME d < q PROVE FALSE
  <2>1. m * q >= m * (d + 1) /\ m * (d + 1) = m * d + m /\ m * d \in Nat
    BY <1>2, <1>3
  <2> QED
    BY <1>1, <1>2, <2>1
<1>4. ASSUME q < d PROVE FALSE
  <2>1. m * d >= m * (q + 1) /\ m * (q + 1) = m * q + m /\ m * d \in Nat
    BY <1>2, <1>4
  <2> QED
    BY <1>1, <1>2, <2>1
<1>5. d = q
  BY <1>2, <1>3, <1>4
<1>6. e = r
  BY <1>1, <1>2, <1>5
<1> QED
  BY <1>5, <1>6 DEF d, e

(***************************************************************************)
(* What DigitCount counts.                                                 *)
(***************************************************************************)
LEMMA DigitCountIs ==
  ASSUME NEW radix \in Nat, radix > 1
  PROVE  /\ DigitCount(radix, 0) = 0
         /\ \A v \in Nat \ {0} : DigitCount(radix, v) = 1 + DigitCount(radix, v \div radix)
         /\ \A v \in Nat : DigitCount(radix, v) \in Nat
<1> DEFINE R == Nat
           m == [i \in Nat |-> i]
           F == [q \in Nat \X [Nat -> R] |-> IF q[1] = 0 THEN 0 ELSE 1 + q[2][q[1] \div radix]]
           Body(n) == [w \in Nat |-> IF w = 0 THEN 0 ELSE 1 + n[w \div radix]]
           count == CHOOSE n : n = Body(n)
<1>0. \A w \in Nat \ {0} : w \div radix \in Nat /\ w \div radix < w
  <2> SUFFICES ASSUME NEW w \in Nat \ {0} PROVE w \div radix \in Nat /\ w \div radix < w
    OBVIOUS
  <2> DEFINE d == w \div radix
             e == w % radix
  <2>1. d \in Nat /\ e \in Nat /\ w = radix * d + e
    OBVIOUS
  <2> HIDE DEF d, e
  <2>2. d <= 0 \/ radix * d >= 2 * d
    BY <2>1
  <2>3. d < w
    BY <2>1, <2>2
  <2> QED
    BY <2>1, <2>3 DEF d
<1>1. Solvable(Nat, R, F)
  <2>1. F \in [Nat \X [Nat -> R] -> R]
    <3> SUFFICES ASSUME NEW w \in Nat, NEW g \in [Nat -> R], w # 0
                 PROVE  1 + g[w \div radix] \in R
      OBVIOUS
    <3> QED
      BY <1>0
  <2>2. m \in [Nat -> Nat] /\ R # {}
    OBVIOUS
  <2>3. LooksBelow(Nat, R, m, F)
    <3> SUFFICES ASSUME NEW a \in Nat, NEW g \in [Nat -> R], NEW h \in [Nat -> R],
                        \A b \in Nat : m[b] < m[a] => g[b] = h[b]
                 PROVE  F[<<a, g>>] = F[<<a, h>>]
      BY DEF LooksBelow
    <3>1. CASE a = 0
      BY <3>1
    <3>2. CASE a # 0
      <4>1. a \div radix \in Nat /\ a \div radix < a
        BY <1>0, <3>2
      <4>2. g[a \div radix] = h[a \div radix]
        BY <4>1
      <4> QED
        BY <3>2, <4>2
    <3> QED
      BY <3>1, <3>2
  <2> HIDE DEF F, m
  <2> QED
    BY <2>1, <2>2, <2>3, RecursionSolved
<1>2. PICK f \in [Nat -> R] : \A a \in Nat : f[a] = F[<<a, f>>]
  BY <1>1 DEF Solvable
<1>3. f = Body(f)
  BY <1>2
<1>4. count = Body(count)
  <2> HIDE DEF Body
  <2> QED
    BY <1>3
<1>5. \A v \in Nat : DigitCount(radix, v) = count[v]
  BY DEF DigitCount
<1> HIDE DEF count
<1>6. DigitCount(radix, 0) = 0
  BY <1>4, <1>5
<1>7. \A v \in Nat \ {0} : DigitCount(radix, v) = 1 + DigitCount(radix, v \div radix)
  BY <1>4, <1>5, <1>0
<1> DEFINE T == {v \in Nat : DigitCount(radix, v) \in Nat}
<1>8. T = Nat
  <2>1. ASSUME NEW v \in Nat, \A k \in Nat : k < v => k \in T PROVE v \in T
    <3>1. CASE v = 0
      BY <3>1, <1>6
    <3>2. CASE v # 0
      BY <2>1, <3>2, <1>0, <1>7
    <3> QED
      BY <3>1, <3>2
  <2>2. T \in SUBSET Nat
    OBVIOUS
  <2> HIDE DEF T
  <2> QED
    BY <2>1, <2>2, NatInductBelow
<1> QED
  BY <1>6, <1>7, <1>8

(***************************************************************************)
(* A value of k digits lies between two powers.                            *)
(***************************************************************************)
LEMMA DigitCountBounds ==
  ASSUME NEW radix \in Nat, radix > 1, NEW v \in Nat \ {0}
  PROVE  /\ DigitCount(radix, v) \in Nat \ {0}
         /\ v < Power(radix, DigitCount(radix, v))
         /\ Power(radix, DigitCount(radix, v) - 1) <= v
<1> DEFINE Bounded(w) == /\ DigitCount(radix, w) \in Nat \ {0}
                         /\ w < Power(radix, DigitCount(radix, w))
                         /\ Power(radix, DigitCount(radix, w) - 1) <= w
           T == {w \in Nat : w > 0 => Bounded(w)}
<1>1. ASSUME NEW w \in Nat, \A k \in Nat : k < w => k \in T PROVE w \in T
  <2> SUFFICES ASSUME w > 0 PROVE Bounded(w)
    OBVIOUS
  <2> DEFINE d == w \div radix
             e == w % radix
             k == DigitCount(radix, d)
             p == Power(radix, k)
  <2>1. d \in Nat /\ e \in 0 .. radix - 1 /\ w = radix * d + e
    OBVIOUS
  <2>2. DigitCount(radix, w) = k + 1 /\ k \in Nat
    <3>1. DigitCount(radix, w) = 1 + DigitCount(radix, d)
      BY DigitCountIs
    <3>2. DigitCount(radix, d) \in Nat
      <4> HIDE DEF d
      <4> QED
        BY <2>1, DigitCountIs
    <3> QED
      BY <3>1, <3>2
  <2>3. Power(radix, k + 1) = radix * p /\ p \in Nat
    <3> HIDE DEF k
    <3> QED
      BY <2>2, PowerIs
  <2>4. (k + 1) - 1 = k
    BY <2>2
  <2>5. CASE d = 0
    <3>1. k = 0
      BY <2>5, DigitCountIs
    <3>2. p = 1
      BY <3>1, PowerIs
    <3> HIDE DEF d, e, k, p
    <3>3. w < radix * p /\ p <= w
      BY <2>1, <2>5, <3>2
    <3> QED
      BY <2>2, <2>3, <2>4, <3>3 DEF p
  <2>6. CASE d > 0
    <3>1. d < w
      <4> HIDE DEF d, e
      <4>1. radix * d >= 2 * d
        BY <2>1
      <4> QED
        BY <4>1, <2>1, <2>6
    <3>2. Bounded(d)
      BY <1>1, <2>1, <2>6, <3>1
    <3> DEFINE h == Power(radix, k - 1)
    <3>3. k > 0 /\ d < p /\ h <= d /\ h \in Nat /\ p = radix * h
      <4>1. k \in Nat \ {0} /\ d < p /\ h <= d
        BY <3>2
      <4>2. k - 1 \in Nat /\ (k - 1) + 1 = k
        BY <4>1
      <4> HIDE DEF k
      <4>3. h \in Nat /\ Power(radix, (k - 1) + 1) = radix * h
        BY <4>2, PowerIs
      <4> QED
        BY <4>1, <4>2, <4>3
    <3> HIDE DEF d, e, k, p, h
    <3>4. radix * (d + 1) <= radix * p
      BY <2>1, <2>3, <3>3
    <3>5. w < radix * p
      <4>1. radix * (d + 1) = radix * d + radix
        BY <2>1
      <4>2. radix * d \in Nat /\ radix * p \in Nat
        BY <2>1, <2>3
      <4> QED
        BY <4>1, <4>2, <3>4, <2>1
    <3>6. p <= w
      <4>1. radix * h <= radix * d
        BY <2>1, <3>3
      <4>2. radix * d \in Nat /\ radix * h \in Nat
        BY <2>1, <3>3
      <4> QED
        BY <4>1, <4>2, <2>1, <3>3
    <3> QED
      BY <2>2, <2>3, <2>4, <3>5, <3>6 DEF p
  <2> QED
    BY <2>1, <2>5, <2>6
<1>2. T = Nat
  <2>1. T \in SUBSET Nat
    OBVIOUS
  <2> HIDE DEF T
  <2> QED
    BY <1>1, <2>1, NatInductBelow
<1> QED
  BY <1>2

\* f starts from start and goes the way of F as long as it is in S.
Iterates(f, F, n, S, start) ==
  /\ f = [i \in 0 .. n |-> f[i]] /\ f[0] = start
  /\ \A i \in 1 .. n : f[i - 1] \in S => f[i] = F[<<i, f[i - 1]>>]

(***************************************************************************)
(* What goes the way of F as long as it stays in S stays in S.             *)
(***************************************************************************)
LEMMA IterationIs ==
  ASSUME NEW n \in Nat, NEW S, NEW start \in S, NEW F, Steps(F, n, S),
         NEW f, Iterates(f, F, n, S, start)
  PROVE  f \in [0 .. n -> S] /\ Iterated(f, F, n, start)
<1> DEFINE T == {i \in 0 .. n : f[i] \in S}
<1>0. /\ f = [i \in 0 .. n |-> f[i]] /\ f[0] = start
      /\ \A i \in 1 .. n : f[i - 1] \in S => f[i] = F[<<i, f[i - 1]>>]
  BY DEF Iterates
<1>1. 0 \in T
  BY <1>0
<1>2. ASSUME NEW i \in 0 .. n - 1, i \in T PROVE i + 1 \in T
  <2>1. i + 1 \in 1 .. n /\ (i + 1) - 1 = i /\ f[i] \in S /\ i + 1 \in 0 .. n
    BY <1>2
  <2>2. f[i + 1] = F[<<i + 1, f[i]>>]
    BY <1>0, <2>1
  <2>3. F[<<i + 1, f[i]>>] \in S
    BY <2>1 DEF Steps
  <2> QED
    BY <2>1, <2>2, <2>3
<1> HIDE DEF T
<1>3. \A i \in 0 .. n : i \in T
  BY <1>1, <1>2, InductUpTo
<1>4. \A i \in 0 .. n : f[i] \in S
  BY <1>3 DEF T
<1>5. f \in [0 .. n -> S]
  BY <1>0, <1>4
<1>6. \A i \in 1 .. n : i - 1 \in 0 .. n
  OBVIOUS
<1> QED
  BY <1>0, <1>4, <1>5, <1>6 DEF Iterated

(***************************************************************************)
(* What the values of the first digits are defined by.                     *)
(***************************************************************************)
LEMMA HighValuesAre ==
  ASSUME NEW radix \in Nat, NEW ds \in Seq(Nat)
  PROVE  /\ Len(ds) \in Nat
         /\ HighValues(radix, ds) \in [0 .. Len(ds) -> Nat]
         /\ HighValues(radix, ds)[0] = 0
         /\ \A i \in 1 .. Len(ds) : HighValues(radix, ds)[i] = HighValues(radix, ds)[i - 1] * radix + ds[i]
<1> DEFINE n == Len(ds)
           F == [q \in (1 .. n) \X Nat |-> q[2] * radix + ds[q[1]]]
           Body(v) == [i \in 0 .. n |-> IF i = 0 THEN 0 ELSE v[i - 1] * radix + ds[i]]
           high == CHOOSE v : v = Body(v)
<1>1. n \in Nat /\ \A i \in 1 .. n : ds[i] \in Nat
  BY ElementOfSeq
<1> HIDE DEF n
<1>2. \A i \in 1 .. n, s \in Nat : F[<<i, s>>] = s * radix + ds[i]
  OBVIOUS
<1> HIDE DEF F
<1>3. Steps(F, n, Nat)
  <2> SUFFICES ASSUME NEW i \in 1 .. n, NEW s \in Nat PROVE F[<<i, s>>] \in Nat
    BY DEF Steps
  <2> DEFINE x == ds[i]
  <2>1. x \in Nat /\ F[<<i, s>>] = s * radix + x
    BY <1>1, <1>2
  <2> HIDE DEF x
  <2>2. s * radix + x \in Nat
    BY <2>1, SMTT(30)
  <2> QED
    BY <2>1, <2>2
<1>4. PICK f \in [0 .. n -> Nat] : Iterated(f, F, n, 0)
  <2>1. n \in Nat /\ 0 \in Nat
    BY <1>1
  <2> QED
    BY <2>1, <1>3, IterationExists
<1>5. f = Body(f)
  <2>1. ASSUME NEW i \in 0 .. n PROVE f[i] = IF i = 0 THEN 0 ELSE f[i - 1] * radix + ds[i]
    <3>1. CASE i = 0
      BY <3>1, <1>4 DEF Iterated
    <3>2. CASE i # 0
      <4>1. i \in 1 .. n /\ i - 1 \in 0 .. n
        BY <1>1, <3>2
      <4> QED
        BY <1>2, <1>4, <3>2, <4>1 DEF Iterated
    <3> QED
      BY <3>1, <3>2
  <2> QED
    BY <2>1, <1>4
<1>6. high = Body(high)
  <2> HIDE DEF Body
  <2> QED
    BY <1>5
<1>7. HighValues(radix, ds) = high
  BY DEF HighValues, n
<1> HIDE DEF high
<1>8. high = [i \in 0 .. n |-> high[i]] /\ high[0] = 0
  BY <1>1, <1>6
<1>9. \A i \in 1 .. n : high[i] = high[i - 1] * radix + ds[i]
  <2>1. \A i \in 1 .. n : i \in 0 .. n /\ i # 0
    BY <1>1
  <2> QED
    BY <1>6, <2>1
<1>10. Iterates(high, F, n, Nat, 0)
  BY <1>2, <1>8, <1>9 DEF Iterates
<1>11. high \in [0 .. n -> Nat]
  <2>1. n \in Nat /\ 0 \in Nat
    BY <1>1
  <2> QED
    BY <2>1, <1>3, <1>10, IterationIs
<1> QED
  BY <1>1, <1>7, <1>8, <1>9, <1>11 DEF n

\* Digits stand for a natural number.
LEMMA DigitsValueNat ==
  ASSUME NEW radix \in Nat, NEW ds \in Seq(Nat)
  PROVE  /\ DigitsValue(radix, ds) \in Nat /\ DigitsValue(radix, ds) = HighValues(radix, ds)[Len(ds)]
         /\ DigitsValue(radix, <<>>) = 0
<1>1. Len(ds) \in 0 .. Len(ds)
  BY HighValuesAre
<1>2. DigitsValue(radix, ds) \in Nat
  BY <1>1, HighValuesAre DEF DigitsValue
<1>3. <<>> \in Seq(Nat) /\ Len(<<>>) = 0
  BY EmptySeq
<1>4. HighValues(radix, <<>>)[0] = 0
  BY <1>3, HighValuesAre
<1> QED
  BY <1>2, <1>3, <1>4 DEF DigitsValue

=============================================================================

---------------------------- MODULE NumberProofs ----------------------------
(***************************************************************************)
(* What module Number promises of the integers of src/src/number, for      *)
(* limbs of any width, texts of any length and any number of calls.        *)
(***************************************************************************)
EXTENDS Number, BasicProofs

-----------------------------------------------------------------------------
(* What limbs stand for.                                                   *)

(***************************************************************************)
(* A limb counts up to Base, and one place is worth Base of the one below. *)
(***************************************************************************)
LEMMA Places ==
  /\ Base \in Nat /\ Base > 1
  /\ Power(Base, 0) = 1
  /\ \A i \in Nat : /\ Power(Base, i) \in Nat /\ Power(Base, i) > 0
                    /\ Power(Base, i + 1) = Base * Power(Base, i)
<1>1. Base \in Nat /\ Base > 1
  BY BaseAssumption
<1>2. \A i \in Nat : Power(Base, i) \in Nat /\ Power(Base, i) > 0
  BY <1>1, PowerPositive
<1> QED
  BY <1>1, <1>2, PowerIs

(***************************************************************************)
(* A sequence by its elements.                                             *)
(***************************************************************************)
LEMMA Tuple ==
  ASSUME NEW S, NEW n \in Nat, NEW f \in [1 .. n -> S]
  PROVE  f \in Seq(S) /\ Len(f) = n
<1>1. f = [i \in 1 .. n |-> f[i]] /\ \A i \in 1 .. n : f[i] \in S
  OBVIOUS
<1> QED
  BY <1>1

(***************************************************************************)
(* What the values of the lowest limbs are defined by.                     *)
(***************************************************************************)
LEMMA LowValuesAre ==
  ASSUME NEW d \in Seq(Int)
  PROVE  /\ Len(d) \in Nat
         /\ LowValues(d) \in [0 .. Len(d) -> Int]
         /\ LowValues(d)[0] = 0
         /\ \A i \in 1 .. Len(d) : LowValues(d)[i] = LowValues(d)[i - 1] + d[i] * Power(Base, i - 1)
<1> DEFINE n == Len(d)
           F == [q \in (1 .. n) \X Int |-> q[2] + d[q[1]] * Power(Base, q[1] - 1)]
           Body(v) == [i \in 0 .. n |-> IF i = 0 THEN 0 ELSE v[i - 1] + d[i] * Power(Base, i - 1)]
           low == CHOOSE v : v = Body(v)
<1>1. n \in Nat /\ \A i \in 1 .. n : d[i] \in Int
  BY ElementOfSeq
<1> HIDE DEF n
<1>2. \A i \in 1 .. n : d[i] * Power(Base, i - 1) \in Int
  <2> SUFFICES ASSUME NEW i \in 1 .. n PROVE d[i] * Power(Base, i - 1) \in Int
    OBVIOUS
  <2> DEFINE j == i - 1
  <2>1. j \in Nat /\ d[i] \in Int
    BY <1>1
  <2>2. Power(Base, j) \in Int
    <3> HIDE DEF j
    <3> QED
      BY <2>1, Places
  <2> QED
    BY <2>1, <2>2
<1>3. \A i \in 1 .. n, s \in Int : F[<<i, s>>] = s + d[i] * Power(Base, i - 1)
  OBVIOUS
<1> HIDE DEF F
<1>4. Steps(F, n, Int)
  <2> SUFFICES ASSUME NEW i \in 1 .. n, NEW s \in Int PROVE F[<<i, s>>] \in Int
    BY DEF Steps
  <2> DEFINE x == d[i] * Power(Base, i - 1)
  <2>1. x \in Int /\ F[<<i, s>>] = s + x
    BY <1>2, <1>3
  <2> HIDE DEF x
  <2> QED
    BY <2>1
<1>5. PICK f \in [0 .. n -> Int] : Iterated(f, F, n, 0)
  <2>1. n \in Nat /\ 0 \in Int
    BY <1>1
  <2>2. \E f \in [0 .. n -> Int] : Iterated(f, F, n, 0)
    BY <2>1, <1>4, IterationExists
  <2> QED
    BY <2>2
<1>6. f = Body(f)
  <2>1. ASSUME NEW i \in 0 .. n PROVE f[i] = IF i = 0 THEN 0 ELSE f[i - 1] + d[i] * Power(Base, i - 1)
    <3>1. CASE i = 0
      BY <3>1, <1>5 DEF Iterated
    <3>2. CASE i # 0
      <4>1. i \in 1 .. n /\ i - 1 \in 0 .. n
        BY <1>1, <3>2
      <4> QED
        BY <1>3, <1>5, <3>2, <4>1 DEF Iterated
    <3> QED
      BY <3>1, <3>2
  <2> QED
    BY <2>1, <1>5
<1>7. low = Body(low)
  <2> HIDE DEF Body
  <2> QED
    BY <1>6
<1>8. LowValues(d) = low
  BY DEF LowValues, n
<1> HIDE DEF low
<1> DEFINE T == {i \in Nat : i <= n => low[i] \in Int}
<1>9. T = Nat
  <2>1. 0 \in T
    BY <1>7, <1>1
  <2>2. ASSUME NEW i \in T PROVE i + 1 \in T
    <3> SUFFICES ASSUME i + 1 <= n PROVE low[i + 1] \in Int
      OBVIOUS
    <3>1. i + 1 \in 1 .. n /\ (i + 1) - 1 = i /\ i + 1 # 0 /\ i + 1 \in 0 .. n
      BY <1>1
    <3>2. low[i + 1] = low[i] + d[i + 1] * Power(Base, (i + 1) - 1)
      BY <1>7, <3>1
    <3>3. d[i + 1] * Power(Base, (i + 1) - 1) \in Int
      BY <1>2, <3>1
    <3>4. low[i] \in Int
      BY <1>1
    <3> DEFINE x == d[i + 1] * Power(Base, (i + 1) - 1)
    <3> HIDE DEF x
    <3>5. x \in Int /\ low[i + 1] = low[i] + x
      BY <3>2, <3>3 DEF x
    <3> QED
      BY <3>4, <3>5
  <2>3. T \in SUBSET Nat
    OBVIOUS
  <2> HIDE DEF T
  <2> QED
    BY <2>1, <2>2, <2>3, NatInduct
<1>10. low \in [0 .. n -> Int]
  <2>1. \A i \in 0 .. n : i \in Nat /\ i <= n
    BY <1>1
  <2>2. \A i \in 0 .. n : low[i] \in Int
    BY <1>9, <2>1
  <2>3. low = [i \in 0 .. n |-> low[i]]
    BY <1>7
  <2> QED
    BY <2>2, <2>3
<1>11. low[0] = 0
  BY <1>7, <1>1
<1>12. ASSUME NEW i \in 1 .. n PROVE low[i] = low[i - 1] + d[i] * Power(Base, i - 1)
  <2>1. i \in 0 .. n /\ i # 0
    BY <1>1
  <2> QED
    BY <1>7, <2>1
<1> QED
  BY <1>1, <1>8, <1>10, <1>11, <1>12 DEF n

(***************************************************************************)
(* One limb more.                                                          *)
(***************************************************************************)
LEMMA LowValuesNext ==
  ASSUME NEW d \in Seq(Int), NEW i \in Nat, i < Len(d)
  PROVE  /\ d[i + 1] \in Int /\ LowValues(d)[i] \in Int /\ LowValues(d)[i + 1] \in Int
         /\ LowValues(d)[i + 1] = LowValues(d)[i] + d[i + 1] * Power(Base, i)
<1>1. /\ Len(d) \in Nat /\ i \in 0 .. Len(d) /\ i + 1 \in 1 .. Len(d) /\ i + 1 \in 0 .. Len(d)
      /\ (i + 1) - 1 = i
  BY LenProperties
<1>2. d[i + 1] \in Int
  BY <1>1, ElementOfSeq
<1>3. LowValues(d)[i] \in Int /\ LowValues(d)[i + 1] \in Int
  BY <1>1, LowValuesAre
<1>4. LowValues(d)[i + 1] = LowValues(d)[(i + 1) - 1] + d[i + 1] * Power(Base, (i + 1) - 1)
  BY <1>1, LowValuesAre
<1> QED
  BY <1>1, <1>2, <1>3, <1>4

\* The magnitude of a sequence of limbs is a natural number.
LEMMA MagnitudeInt ==
  ASSUME NEW d \in Seq(Int)
  PROVE  Magnitude(d) \in Int /\ Magnitude(d) = LowValues(d)[Len(d)] /\ Len(d) \in Nat
<1>1. Len(d) \in Nat /\ Len(d) \in 0 .. Len(d)
  BY LenProperties
<1> QED
  BY <1>1, LowValuesAre DEF Magnitude

Agree(d, e, n) == \A i \in 1 .. n : d[i] = e[i]

(***************************************************************************)
(* The limbs of one sequence that are as the limbs of another are worth    *)
(* as much.                                                                *)
(***************************************************************************)
LEMMA LowValuesAgree ==
  ASSUME NEW d \in Seq(Int), NEW e \in Seq(Int), NEW n \in Nat, n <= Len(d), n <= Len(e),
         Agree(d, e, n)
  PROVE  LowValues(d)[n] = LowValues(e)[n]
<1> DEFINE T == {i \in Nat : i <= n => LowValues(d)[i] = LowValues(e)[i]}
<1>0. Len(d) \in Nat /\ Len(e) \in Nat
  BY LenProperties
<1>1. 0 \in T
  BY LowValuesAre
<1>2. ASSUME NEW i \in T PROVE i + 1 \in T
  <2> SUFFICES ASSUME i + 1 <= n PROVE LowValues(d)[i + 1] = LowValues(e)[i + 1]
    OBVIOUS
  <2>1. i < Len(d) /\ i < Len(e) /\ i + 1 \in 1 .. n /\ i \in Nat /\ LowValues(d)[i] = LowValues(e)[i]
    BY <1>0
  <2>2. LowValues(d)[i + 1] = LowValues(d)[i] + d[i + 1] * Power(Base, i)
    BY <2>1, LowValuesNext
  <2>3. LowValues(e)[i + 1] = LowValues(e)[i] + e[i + 1] * Power(Base, i)
    BY <2>1, LowValuesNext
  <2>4. d[i + 1] = e[i + 1]
    BY <2>1 DEF Agree
  <2> QED
    BY <2>1, <2>2, <2>3, <2>4
<1>3. T = Nat
  <2>1. T \in SUBSET Nat
    OBVIOUS
  <2> HIDE DEF T
  <2> QED
    BY <1>1, <1>2, <2>1, NatInduct
<1>4. n \in T /\ n <= n
  BY <1>3
<1> QED
  BY <1>4

(***************************************************************************)
(* Limbs are worth less than one of the place above them.                  *)
(***************************************************************************)
LEMMA LimbsAreInts ==
  /\ Limb \subseteq Nat /\ \A d \in Seq(Limb) : d \in Seq(Int) /\ Len(d) \in Nat /\ \A i \in 1 .. Len(d) : d[i] \in Limb
  /\ 0 \in Limb /\ 1 \in Limb /\ \A k \in Nat : k < Base => k \in Limb
<1>1. Limb \subseteq Nat /\ Limb \subseteq Int /\ 0 \in Limb /\ 1 \in Limb /\ \A k \in Nat : k < Base => k \in Limb
  BY Places DEF Limb
<1>2. ASSUME NEW d \in Seq(Limb) PROVE d \in Seq(Int) /\ Len(d) \in Nat /\ \A i \in 1 .. Len(d) : d[i] \in Limb
  BY <1>1, SeqMonotonic, ElementOfSeq, LenProperties
<1> QED
  BY <1>1, <1>2

\* The lowest i limbs stand for less than Base^i.
LEMMA LowValuesBelow ==
  ASSUME NEW d \in Seq(Limb), NEW n \in Nat, n <= Len(d)
  PROVE  LowValues(d)[n] \in Nat /\ LowValues(d)[n] < Power(Base, n)
<1> DEFINE T == {i \in Nat : i <= Len(d) => LowValues(d)[i] \in Nat /\ LowValues(d)[i] < Power(Base, i)}
<1>0. d \in Seq(Int) /\ Len(d) \in Nat
  BY LimbsAreInts
<1>1. 0 \in T
  <2>1. LowValues(d)[0] = 0 /\ Power(Base, 0) = 1
    BY <1>0, LowValuesAre, Places
  <2> QED
    BY <2>1
<1>2. ASSUME NEW i \in T PROVE i + 1 \in T
  <2> DEFINE x == d[i + 1]
             p == Power(Base, i)
             v == LowValues(d)[i]
  <2> SUFFICES ASSUME i + 1 <= Len(d)
               PROVE  LowValues(d)[i + 1] \in Nat /\ LowValues(d)[i + 1] < Power(Base, i + 1)
    OBVIOUS
  <2>1. i \in Nat /\ i < Len(d) /\ i <= Len(d) /\ i + 1 \in 1 .. Len(d)
    BY <1>0
  <2>2. LowValues(d)[i + 1] = v + x * p
    BY <1>0, <2>1, LowValuesNext
  <2>3. Power(Base, i + 1) = Base * p /\ p \in Nat /\ Base \in Nat
    BY <2>1, Places
  <2>4. v \in Nat /\ v < p
    BY <2>1
  <2>5. x \in Nat /\ x <= Base - 1
    <3>1. d[i + 1] \in Limb
      BY <2>1, ElementOfSeq
    <3> QED
      BY <3>1, Places DEF Limb
  <2> HIDE DEF x, p, v
  <2>6. x * p \in Nat /\ x * p <= (Base - 1) * p
    BY <2>3, <2>5
  <2>7. (Base - 1) * p = Base * p - p
    BY <2>3
  <2>8. Base * p \in Nat
    BY <2>3
  <2>9. v + x * p \in Nat /\ v + x * p < Base * p
    BY <2>3, <2>4, <2>6, <2>7, <2>8
  <2> QED
    BY <2>2, <2>3, <2>9
<1>3. T = Nat
  <2>1. T \in SUBSET Nat
    OBVIOUS
  <2> HIDE DEF T
  <2> QED
    BY <1>1, <1>2, <2>1, NatInduct
<1> QED
  BY <1>3

\* Limbs stand for less than Base to the power of their count.
LEMMA MagnitudeBelow ==
  ASSUME NEW d \in Seq(Limb)
  PROVE  /\ Magnitude(d) \in Nat /\ Magnitude(d) < Power(Base, Len(d))
         /\ Len(d) \in Nat /\ Magnitude(d) = LowValues(d)[Len(d)]
<1>1. Len(d) \in Nat /\ Len(d) <= Len(d) /\ d \in Seq(Int)
  BY LimbsAreInts
<1> QED
  BY <1>1, LowValuesBelow, MagnitudeInt

(***************************************************************************)
(* The top limb is not 0 exactly if the limbs are worth one of its place.  *)
(***************************************************************************)
LEMMA TopLimb ==
  ASSUME NEW d \in Seq(Limb), Len(d) > 0
  PROVE  /\ Len(d) - 1 \in Nat /\ d[Len(d)] \in Limb
         /\ LowValues(d)[Len(d) - 1] \in Nat
         /\ LowValues(d)[Len(d) - 1] < Power(Base, Len(d) - 1)
         /\ Magnitude(d) = LowValues(d)[Len(d) - 1] + d[Len(d)] * Power(Base, Len(d) - 1)
         /\ d[Len(d)] # 0 <=> Power(Base, Len(d) - 1) <= Magnitude(d)
<1> DEFINE n == Len(d)
           x == d[n]
           p == Power(Base, n - 1)
           v == LowValues(d)[n - 1]
<1>1. n \in Nat /\ n > 0 /\ n - 1 \in Nat /\ n - 1 <= n /\ n \in 1 .. n /\ d \in Seq(Int)
  BY LimbsAreInts
<1>2. x \in Limb
  BY <1>1, ElementOfSeq
<1>3. v \in Nat /\ v < p
  <2> HIDE DEF n
  <2>1. n - 1 <= Len(d)
    BY <1>1 DEF n
  <2> QED
    BY <1>1, <2>1, LowValuesBelow
<1>4. Magnitude(d) = v + x * p
  <2>1. LowValues(d)[n] = LowValues(d)[n - 1] + d[n] * Power(Base, n - 1)
    BY <1>1, LowValuesAre
  <2> QED
    BY <2>1 DEF Magnitude
<1>5. p \in Nat /\ p > 0
  BY <1>1, Places
<1>6. x \in Nat
  BY <1>2, LimbsAreInts
<1> HIDE DEF n, x, p, v
<1>7. CASE x = 0
  <2>1. v + x * p < p
    BY <1>3, <1>5, <1>7
  <2>2. v + x * p \in Nat
    BY <1>3, <1>5, <1>6
  <2>3. ~(p <= Magnitude(d))
    BY <1>4, <1>5, <2>1, <2>2
  <2> QED
    BY <1>1, <1>2, <1>3, <1>4, <1>7, <2>3 DEF n, x, p, v
<1>8. CASE x # 0
  <2>1. x * p \in Nat /\ x * p >= p
    BY <1>5, <1>6, <1>8
  <2>2. p <= v + x * p
    BY <1>3, <1>5, <2>1
  <2> QED
    BY <1>1, <1>2, <1>3, <1>4, <1>8, <2>2 DEF n, x, p, v
<1> QED
  BY <1>7, <1>8

(***************************************************************************)
(* A limb on top.                                                          *)
(***************************************************************************)
LEMMA OnTop ==
  ASSUME NEW d \in Seq(Limb), NEW x \in Limb
  PROVE  /\ Append(d, x) \in Seq(Limb) /\ Len(Append(d, x)) = Len(d) + 1
         /\ Append(d, x)[Len(d) + 1] = x
         /\ Magnitude(Append(d, x)) = Magnitude(d) + x * Power(Base, Len(d))
<1> DEFINE e == Append(d, x)
           n == Len(d)
<1>1. /\ e \in Seq(Limb) /\ Len(e) = n + 1 /\ e[n + 1] = x /\ n \in Nat
      /\ \A i \in 1 .. n : e[i] = d[i]
  BY AppendProperties
<1>2. e \in Seq(Int) /\ d \in Seq(Int)
  BY <1>1, LimbsAreInts
<1> HIDE DEF e
<1>3. LowValues(e)[n + 1] = LowValues(e)[n] + e[n + 1] * Power(Base, n)
  BY <1>1, <1>2, LowValuesNext, SMTT(30)
<1>4. LowValues(e)[n] = LowValues(d)[n]
  <2>1. Agree(e, d, n) /\ n <= Len(e) /\ n <= Len(d)
    BY <1>1 DEF Agree
  <2> QED
    BY <1>1, <1>2, <2>1, LowValuesAgree
<1>5. Magnitude(e) = Magnitude(d) + x * Power(Base, n)
  BY <1>1, <1>3, <1>4 DEF Magnitude
<1> QED
  BY <1>1, <1>5 DEF e

(***************************************************************************)
(* The limbs below a place, and those from there on.                       *)
(***************************************************************************)
LEMMA LowAndHigh ==
  ASSUME NEW d \in Seq(Int), NEW e \in Seq(Int), NEW t \in Nat,
         Len(d) = t + Len(e), \A i \in 1 .. Len(e) : d[t + i] = e[i]
  PROVE  Magnitude(d) = LowValues(d)[t] + Power(Base, t) * Magnitude(e)
<1> DEFINE n == Len(e)
           w == LowValues(d)[t]
           p == Power(Base, t)
           T == {i \in Nat : i <= n => LowValues(d)[t + i] = w + p * LowValues(e)[i]}
<1>0. n \in Nat /\ Len(d) = t + n /\ Len(d) \in Nat /\ p \in Nat /\ w \in Int
  <2>1. n \in Nat /\ Len(d) \in Nat /\ t \in 0 .. Len(d)
    BY LenProperties
  <2> QED
    BY <2>1, Places, LowValuesAre
<1>1. 0 \in T
  <2>1. LowValues(e)[0] = 0 /\ t + 0 = t
    BY LowValuesAre
  <2>2. p * 0 = 0 /\ w + 0 = w
    <3> HIDE DEF p, w
    <3> QED
      BY <1>0
  <2> QED
    BY <2>1, <2>2
<1>2. ASSUME NEW i \in T PROVE i + 1 \in T
  <2> DEFINE x == e[i + 1]
             q == Power(Base, i)
             r == Power(Base, t + i)
             u == LowValues(e)[i]
  <2> SUFFICES ASSUME i + 1 <= n
               PROVE  LowValues(d)[t + (i + 1)] = w + p * LowValues(e)[i + 1]
    OBVIOUS
  <2>0. i \in Nat /\ (i <= n => LowValues(d)[t + i] = w + p * u)
    BY <1>2
  <2>1. /\ i \in Nat /\ i < Len(e) /\ t + i \in Nat /\ t + i < Len(d) /\ i + 1 \in 1 .. Len(e)
        /\ (t + i) + 1 = t + (i + 1) /\ i <= n
    <3>1. i + 1 <= n /\ n \in Nat /\ Len(d) = t + n
      BY <1>0
    <3> HIDE DEF T, x, q, r, u, p, w
    <3> QED
      BY <2>0, <3>1 DEF n
  <2>2. LowValues(d)[t + i] = w + p * u
    BY <2>0, <2>1
  <2>3. x \in Int /\ u \in Int /\ LowValues(e)[i + 1] = u + x * q
    BY <2>1, LowValuesNext
  <2>4. LowValues(d)[(t + i) + 1] = LowValues(d)[t + i] + d[(t + i) + 1] * r
    BY <2>1, LowValuesNext
  <2>5. d[(t + i) + 1] = x
    BY <2>1
  <2>6. r = p * q /\ q \in Nat
    BY <2>1, PowerAdds, Places
  <2>7. LowValues(d)[t + (i + 1)] = (w + p * u) + x * r
    BY <2>1, <2>2, <2>4, <2>5
  <2> HIDE DEF x, q, r, u, p, w
  <2>8. (w + p * u) + x * (p * q) = w + p * (u + x * q)
    <3>1. p * (u + x * q) = p * u + x * (p * q)
      BY <1>0, <2>3, <2>6
    <3>2. p * u \in Int /\ x * (p * q) \in Int
      BY <1>0, <2>3, <2>6
    <3> QED
      BY <3>1, <3>2, <1>0
  <2> QED
    BY <2>3, <2>6, <2>7, <2>8
<1>3. T = Nat
  <2>1. T \in SUBSET Nat
    OBVIOUS
  <2> HIDE DEF T
  <2> QED
    BY <1>1, <1>2, <2>1, NatInduct
<1>4. n \in T
  <2> HIDE DEF T, n
  <2> QED
    BY <1>0, <1>3
<1>5. n <= n
  BY <1>0
<1> QED
  BY <1>4, <1>5, <1>0 DEF Magnitude

(***************************************************************************)
(* Limbs of 0 are worth nothing.                                           *)
(***************************************************************************)
LEMMA ZerosBelow ==
  ASSUME NEW d \in Seq(Int), NEW t \in Nat, t <= Len(d), \A i \in 1 .. t : d[i] = 0
  PROVE  LowValues(d)[t] = 0
<1> DEFINE T == {i \in Nat : i <= t => LowValues(d)[i] = 0}
<1>1. 0 \in T
  BY LowValuesAre
<1>2. ASSUME NEW i \in T PROVE i + 1 \in T
  <2> SUFFICES ASSUME i + 1 <= t PROVE LowValues(d)[i + 1] = 0
    OBVIOUS
  <2>1. i \in Nat /\ i < Len(d) /\ i + 1 \in 1 .. t /\ LowValues(d)[i] = 0
    BY LenProperties
  <2>2. LowValues(d)[i + 1] = LowValues(d)[i] + d[i + 1] * Power(Base, i)
    BY <2>1, LowValuesNext
  <2>3. d[i + 1] = 0 /\ Power(Base, i) \in Nat
    BY <2>1, Places
  <2> QED
    BY <2>1, <2>2, <2>3
<1>3. T = Nat
  <2>1. T \in SUBSET Nat
    OBVIOUS
  <2> HIDE DEF T
  <2> QED
    BY <1>1, <1>2, <2>1, NatInduct
<1> QED
  BY <1>3

-----------------------------------------------------------------------------
(* The loops over limbs.                                                   *)

(***************************************************************************)
(* The sum of two limbs and what is carried is told in full by the limb    *)
(* written and the next carry (intern_add_sl).                             *)
(***************************************************************************)
LEMMA AddLimbExact ==
  ASSUME NEW x \in Limb, NEW y \in Limb, NEW c \in Limb, x + y + c < 2 * Base
  PROVE  /\ AddLimb(x, y, c).r \in Limb /\ AddLimb(x, y, c).c \in {0, 1}
         /\ AddLimb(x, y, c).r + Base * AddLimb(x, y, c).c = x + y + c
<1>1. Base \in Nat /\ x \in Nat /\ y \in Nat /\ x < Base /\ y < Base /\ c \in Nat
  BY BaseAssumption DEF Limb
<1>2. CASE x + y + c < Base
  BY <1>1, <1>2 DEF AddLimb, Limb
<1>3. CASE ~(x + y + c < Base)
  BY <1>1, <1>3 DEF AddLimb, Limb
<1> QED
  BY <1>2, <1>3

(***************************************************************************)
(* The same of a difference and its borrow (intern_sub_sl).                *)
(***************************************************************************)
LEMMA SubLimbExact ==
  ASSUME NEW x \in Limb, NEW y \in Limb, NEW c \in {0, 1}
  PROVE  /\ SubLimb(x, y, c).r \in Limb /\ SubLimb(x, y, c).c \in {0, 1}
         /\ SubLimb(x, y, c).r - Base * SubLimb(x, y, c).c = x - y - c
<1>1. Base \in Nat /\ x \in Nat /\ y \in Nat /\ x < Base /\ y < Base
  BY BaseAssumption DEF Limb
<1>2. CASE x - y - c >= 0
  BY <1>1, <1>2 DEF SubLimb, Limb
<1>3. CASE ~(x - y - c >= 0)
  BY <1>1, <1>3 DEF SubLimb, Limb
<1> QED
  BY <1>2, <1>3

(***************************************************************************)
(* A product and what is carried fit two limbs (intern_mul_one).           *)
(***************************************************************************)
LEMMA MulLimbExact ==
  ASSUME NEW x \in Limb, NEW y \in Limb, NEW c \in Limb
  PROVE  /\ MulLimb(x, y, c).r \in Limb /\ MulLimb(x, y, c).c \in Limb
         /\ MulLimb(x, y, c).r + Base * MulLimb(x, y, c).c = x * y + c
<1> DEFINE n == x * y + c
           q == n \div Base
<1>1. /\ Base \in Nat /\ Base > 0
      /\ x \in Nat /\ y \in Nat /\ c \in Nat /\ x < Base /\ y < Base /\ c < Base
  BY BaseAssumption DEF Limb
<1>2. n \in Nat /\ n < Base * Base
  <2>1. \A u, v, w, m \in Nat : u < m /\ v < m /\ w < m => u * v + w \in Nat /\ u * v + w < m * m
    <3> SUFFICES ASSUME NEW u \in Nat, NEW v \in Nat, NEW w \in Nat, NEW m \in Nat,
                        u < m, v < m, w < m
                 PROVE  u * v + w \in Nat /\ u * v + w < m * m
      OBVIOUS
    <3>1. u * v \in Nat /\ u * v <= (m - 1) * v
      OBVIOUS
    <3>2. (m - 1) * v <= (m - 1) * (m - 1)
      OBVIOUS
    <3>3. (m - 1) * (m - 1) + m = m * m - m + 1
      OBVIOUS
    <3> QED
      BY <3>1, <3>2, <3>3
  <2> QED
    BY <2>1, <1>1
<1> HIDE DEF n
<1>3. q \in Nat /\ n % Base \in Limb /\ (n % Base) + Base * q = n
  <2>1. \A u \in Nat, m \in Nat \ {0} :
          u \div m \in Nat /\ u % m \in 0 .. m - 1 /\ (u % m) + m * (u \div m) = u
    OBVIOUS
  <2> QED
    BY <2>1, <1>1, <1>2 DEF Limb
<1>4. q < Base
  <2> HIDE DEF q
  <2> SUFFICES ASSUME q >= Base
               PROVE  FALSE
    BY <1>1, <1>3
  <2>1. \A u, m \in Nat : u >= m => m * u >= m * m
    OBVIOUS
  <2>2. Base * q >= Base * Base
    BY <2>1, <1>1, <1>3
  <2>3. Base * q \in Nat /\ Base * Base \in Nat /\ n % Base \in Nat
    BY <1>1, <1>3 DEF Limb
  <2> QED
    BY <2>2, <2>3, <1>2, <1>3
<1> QED
  BY <1>1, <1>3, <1>4 DEF MulLimb, Limb, n

\* What is written to d and carried in c is what is read from e.
Rounds(d, e, c) == \A i \in 1 .. Len(d) : d[i] + Base * c[i] = e[i] + c[i - 1]

(***************************************************************************)
(* A loop over limbs each of whose rounds is exact is exact as a whole.    *)
(***************************************************************************)
LEMMA LoopExact ==
  ASSUME NEW d \in Seq(Int), NEW e \in Seq(Int), Len(d) = Len(e),
         NEW c \in [0 .. Len(d) -> Int], Rounds(d, e, c)
  PROVE  Magnitude(d) + Power(Base, Len(d)) * c[Len(d)] = Magnitude(e) + c[0]
<1> DEFINE n == Len(d)
           T == {i \in 0 .. n : LowValues(d)[i] + Power(Base, i) * c[i] = LowValues(e)[i] + c[0]}
<1>0. n \in Nat /\ Base \in Nat
  BY LenProperties, Places
<1>1. 0 \in T
  <2>1. LowValues(d)[0] = 0 /\ LowValues(e)[0] = 0 /\ Power(Base, 0) = 1
    BY LowValuesAre, Places
  <2>2. c[0] \in Int /\ 0 \in 0 .. n
    BY <1>0
  <2> QED
    BY <2>1, <2>2
<1>2. ASSUME NEW i \in 0 .. n - 1, i \in T PROVE i + 1 \in T
  <2> DEFINE x == d[i + 1]
             y == e[i + 1]
             p == Power(Base, i)
             v == LowValues(d)[i]
             w == LowValues(e)[i]
             k == c[i]
             l == c[i + 1]
             s == c[0]
  <2>1. i \in Nat /\ i < Len(d) /\ i < Len(e) /\ i + 1 \in 1 .. n /\ i + 1 \in 0 .. n
    BY <1>0
  <2>2. /\ x \in Int /\ v \in Int /\ LowValues(d)[i + 1] = v + x * p
        /\ y \in Int /\ w \in Int /\ LowValues(e)[i + 1] = w + y * p
    BY <2>1, LowValuesNext
  <2>3. v + p * k = w + s
    BY <1>2
  <2>4. x + Base * l = y + k
    <3>1. (i + 1) - 1 = i
      BY <2>1
    <3> QED
      BY <2>1, <3>1 DEF Rounds
  <2>5. k \in Int /\ l \in Int /\ s \in Int /\ p \in Int
    <3>1. i \in 0 .. Len(d) /\ i + 1 \in 0 .. Len(d) /\ 0 \in 0 .. Len(d)
      BY <1>0, <2>1
    <3>2. \A j \in 0 .. Len(d) : c[j] \in Int
      OBVIOUS
    <3>3. k \in Int /\ l \in Int /\ s \in Int
      BY <3>1, <3>2
    <3> QED
      BY <2>1, <3>3, Places
  <2>6. Power(Base, i + 1) = Base * p
    BY <2>1, Places
  <2> HIDE DEF x, y, p, v, w, k, l, s
  <2>7. (v + x * p) + (Base * p) * l = (w + y * p) + s
    <3>1. (x + Base * l) * p = x * p + (Base * p) * l /\ (y + k) * p = y * p + p * k
      BY <1>0, <2>2, <2>5
    <3>2. x * p \in Int /\ (Base * p) * l \in Int /\ y * p \in Int /\ p * k \in Int
      BY <1>0, <2>2, <2>5
    <3> DEFINE xp == x * p
               lp == (Base * p) * l
               yp == y * p
               kp == p * k
    <3>3. xp + lp = yp + kp
      BY <2>4, <3>1
    <3>4. v + kp = w + s
      BY <2>3
    <3>5. xp \in Int /\ lp \in Int /\ yp \in Int /\ kp \in Int
      BY <3>2
    <3> HIDE DEF xp, lp, yp, kp
    <3>6. (v + xp) + lp = (w + yp) + s
      BY <3>3, <3>4, <3>5, <2>2, <2>5
    <3> QED
      BY <3>6 DEF xp, lp, yp
  <2> QED
    BY <2>1, <2>2, <2>6, <2>7 DEF l, s
<1>3. \A i \in 0 .. n : i \in T
  <2> HIDE DEF T, n
  <2> QED
    BY <1>0, <1>1, <1>2, InductUpTo
<1>4. n \in T
  BY <1>0, <1>3
<1> QED
  BY <1>4 DEF Magnitude

(***************************************************************************)
(* The limbs of y, as many as x has.                                       *)
(***************************************************************************)
Stretched(y, n) == [i \in 1 .. n |-> LimbAt(y, i)]

\* Limbs with zeros above them stand for what they stood for.
LEMMA StretchedIs ==
  ASSUME NEW y \in Seq(Limb), NEW n \in Nat, Len(y) <= n
  PROVE  /\ Stretched(y, n) \in Seq(Limb) /\ Len(Stretched(y, n)) = n
         /\ \A i \in 1 .. n : Stretched(y, n)[i] = LimbAt(y, i) /\ LimbAt(y, i) \in Limb
         /\ Magnitude(Stretched(y, n)) = Magnitude(y)
<1> DEFINE z == Stretched(y, n)
           k == Len(y)
<1>1. k \in Nat /\ k <= n /\ \A i \in 1 .. k : y[i] \in Limb
  BY LimbsAreInts
<1>2. \A i \in 1 .. n : LimbAt(y, i) \in Limb /\ z[i] = LimbAt(y, i)
  BY <1>1, LimbsAreInts DEF LimbAt, Stretched
<1>3. z \in [1 .. n -> Limb]
  BY <1>2 DEF Stretched
<1>4. z \in Seq(Limb) /\ Len(z) = n
  <2> HIDE DEF z
  <2> QED
    BY <1>3, Tuple
<1>5. z \in Seq(Int) /\ y \in Seq(Int)
  BY <1>4, LimbsAreInts
<1>6. \A i \in 1 .. k : z[i] = y[i]
  BY <1>1, <1>2 DEF LimbAt
<1>7. \A i \in k + 1 .. n : z[i] = 0
  BY <1>1, <1>2 DEF LimbAt
<1> HIDE DEF z
<1>8. LowValues(z)[k] = LowValues(y)[k]
  <2>1. Agree(z, y, k) /\ k <= Len(z) /\ k <= Len(y)
    BY <1>1, <1>4, <1>6 DEF Agree
  <2> QED
    BY <1>1, <1>5, <2>1, LowValuesAgree
<1> DEFINE T == {i \in 0 .. n - k : LowValues(z)[k + i] = LowValues(z)[k]}
<1>9. \A i \in 0 .. n - k : i \in T
  <2>1. 0 \in T
    BY <1>1
  <2>2. ASSUME NEW i \in 0 .. (n - k) - 1, i \in T PROVE i + 1 \in T
    <3>1. k + i \in Nat /\ k + i < Len(z) /\ (k + i) + 1 \in k + 1 .. n /\ (k + i) + 1 = k + (i + 1)
      BY <1>1, <1>4
    <3>2. LowValues(z)[(k + i) + 1] = LowValues(z)[k + i] + z[(k + i) + 1] * Power(Base, k + i)
      BY <1>5, <3>1, LowValuesNext
    <3>3. z[(k + i) + 1] = 0 /\ Power(Base, k + i) \in Nat
      BY <1>7, <3>1, Places
    <3>4. LowValues(z)[k + i] \in Int
      BY <1>5, <3>1, LowValuesNext
    <3>5. LowValues(z)[(k + i) + 1] = LowValues(z)[k + i]
      BY <3>2, <3>3, <3>4
    <3> QED
      BY <3>1, <3>5, <2>2
  <2>3. n - k \in Nat
    BY <1>1
  <2> HIDE DEF T, k
  <2> QED
    BY <2>1, <2>2, <2>3, InductUpTo
<1>10. LowValues(z)[n] = LowValues(z)[k]
  <2>1. n - k \in 0 .. n - k /\ k + (n - k) = n
    BY <1>1
  <2>2. n - k \in T
    BY <1>9, <2>1
  <2> QED
    BY <2>1, <2>2
<1>11. Magnitude(z) = Magnitude(y)
  BY <1>4, <1>8, <1>10 DEF Magnitude
<1> QED
  BY <1>2, <1>4, <1>11 DEF z

(***************************************************************************)
(* Values of sums and of multiples.                                        *)
(***************************************************************************)
Sums(e, x, y) == \A i \in 1 .. Len(e) : e[i] = x[i] + y[i]
Multiple(e, x, m) == \A i \in 1 .. Len(e) : e[i] = x[i] * m

\* Values of limbs that add up place by place add up.
LEMMA SumsAdd ==
  ASSUME NEW e \in Seq(Int), NEW x \in Seq(Int), NEW y \in Seq(Int),
         Len(x) = Len(e), Len(y) = Len(e), Sums(e, x, y)
  PROVE  Magnitude(e) = Magnitude(x) + Magnitude(y)
<1> DEFINE n == Len(e)
           T == {i \in 0 .. n : LowValues(e)[i] = LowValues(x)[i] + LowValues(y)[i]}
<1>0. n \in Nat
  BY LenProperties
<1>1. 0 \in T
  BY <1>0, LowValuesAre
<1>2. ASSUME NEW i \in 0 .. n - 1, i \in T PROVE i + 1 \in T
  <2> DEFINE p == Power(Base, i)
             xi == x[i + 1]
             yi == y[i + 1]
             u == LowValues(x)[i]
             v == LowValues(y)[i]
  <2>1. i \in Nat /\ i < Len(e) /\ i < Len(x) /\ i < Len(y) /\ i + 1 \in 1 .. n /\ i + 1 \in 0 .. n
    BY <1>0
  <2>2. /\ xi \in Int /\ u \in Int /\ LowValues(x)[i + 1] = u + xi * p
        /\ yi \in Int /\ v \in Int /\ LowValues(y)[i + 1] = v + yi * p
        /\ LowValues(e)[i + 1] = LowValues(e)[i] + e[i + 1] * p
    BY <2>1, LowValuesNext
  <2>3. LowValues(e)[i] = u + v /\ e[i + 1] = xi + yi
    BY <1>2, <2>1 DEF Sums
  <2>4. p \in Int
    BY <2>1, Places
  <2> HIDE DEF p, xi, yi, u, v
  <2>5. (u + v) + (xi + yi) * p = (u + xi * p) + (v + yi * p)
    <3>1. (xi + yi) * p = xi * p + yi * p /\ xi * p \in Int /\ yi * p \in Int
      BY <2>2, <2>4
    <3> QED
      BY <3>1, <2>2
  <2> QED
    BY <2>1, <2>2, <2>3, <2>5
<1>3. \A i \in 0 .. n : i \in T
  <2> HIDE DEF T, n
  <2> QED
    BY <1>0, <1>1, <1>2, InductUpTo
<1>4. n \in T
  BY <1>0, <1>3
<1> QED
  BY <1>4 DEF Magnitude

\* Values of limbs multiplied place by place are multiplied.
LEMMA MultipleScales ==
  ASSUME NEW e \in Seq(Int), NEW x \in Seq(Int), NEW m \in Int, Len(x) = Len(e), Multiple(e, x, m)
  PROVE  Magnitude(e) = Magnitude(x) * m
<1> DEFINE n == Len(e)
           T == {i \in 0 .. n : LowValues(e)[i] = LowValues(x)[i] * m}
<1>0. n \in Nat
  BY LenProperties
<1>1. 0 \in T
  BY <1>0, LowValuesAre
<1>2. ASSUME NEW i \in 0 .. n - 1, i \in T PROVE i + 1 \in T
  <2> DEFINE p == Power(Base, i)
             xi == x[i + 1]
             u == LowValues(x)[i]
  <2>1. i \in Nat /\ i < Len(e) /\ i < Len(x) /\ i + 1 \in 1 .. n /\ i + 1 \in 0 .. n
    BY <1>0
  <2>2. /\ xi \in Int /\ u \in Int /\ LowValues(x)[i + 1] = u + xi * p
        /\ LowValues(e)[i + 1] = LowValues(e)[i] + e[i + 1] * p
    BY <2>1, LowValuesNext
  <2>3. LowValues(e)[i] = u * m /\ e[i + 1] = xi * m
    BY <1>2, <2>1 DEF Multiple
  <2>4. p \in Int
    BY <2>1, Places
  <2> HIDE DEF p, xi, u
  <2>5. u * m + (xi * m) * p = (u + xi * p) * m
    BY <2>2, <2>4
  <2> QED
    BY <2>1, <2>2, <2>3, <2>5
<1>3. \A i \in 0 .. n : i \in T
  <2> HIDE DEF T, n
  <2> QED
    BY <1>0, <1>1, <1>2, InductUpTo
<1>4. n \in T
  BY <1>0, <1>3
<1> QED
  BY <1>4 DEF Magnitude

\* What is carried into x is small enough for the carry to be 0 or 1 afterwards.
FitsTwice(x, y, S) ==
  /\ {0, 1} \subseteq S /\ S \subseteq Limb
  /\ \A i \in 1 .. Len(x), s \in S : x[i] + LimbAt(y, i) + s < 2 * Base

\* The carries of AddLimbs.
AddCarries(x, y, carry, c) ==
  /\ c[0] = carry
  /\ \A i \in 1 .. Len(x) : c[i] = AddLimb(x[i], LimbAt(y, i), c[i - 1]).c
  /\ AddLimbs(x, y, carry) =
       [d |-> [i \in 1 .. Len(x) |-> AddLimb(x[i], LimbAt(y, i), c[i - 1]).r], c |-> c[Len(x)]]

\* The carries of AddLimbs are what its recursive function gives.
LEMMA AddCarriesExist ==
  ASSUME NEW x \in Seq(Limb), NEW y \in Seq(Limb), Len(y) <= Len(x),
         NEW S, NEW carry \in S, FitsTwice(x, y, S)
  PROVE  \E c \in [0 .. Len(x) -> S] : AddCarries(x, y, carry, c)
<1> DEFINE n == Len(x)
           F == [q \in (1 .. n) \X S |-> AddLimb(x[q[1]], LimbAt(y, q[1]), q[2]).c]
           Body(v) == [i \in 0 .. n |-> IF i = 0 THEN carry ELSE AddLimb(x[i], LimbAt(y, i), v[i - 1]).c]
           c == CHOOSE v : v = Body(v)
<1>1. n \in Nat /\ \A i \in 1 .. n : x[i] \in Limb /\ LimbAt(y, i) \in Limb
  BY LimbsAreInts, StretchedIs
<1>2. ASSUME NEW i \in 1 .. n, NEW s \in S PROVE AddLimb(x[i], LimbAt(y, i), s).c \in S
  <2>1. s \in Limb /\ x[i] + LimbAt(y, i) + s < 2 * Base
    BY DEF FitsTwice
  <2>2. AddLimb(x[i], LimbAt(y, i), s).c \in {0, 1}
    BY <1>1, <2>1, AddLimbExact
  <2> QED
    BY <2>2 DEF FitsTwice
<1>3. \A i \in 1 .. n, s \in S : F[<<i, s>>] = AddLimb(x[i], LimbAt(y, i), s).c
  OBVIOUS
<1> HIDE DEF F
<1>4. Steps(F, n, S)
  BY <1>2, <1>3 DEF Steps
<1>5. \E f \in [0 .. n -> S] : Iterated(f, F, n, carry)
  <2> HIDE DEF n
  <2> QED
    BY <1>1, <1>4, IterationExists
<1>6. PICK f \in [0 .. n -> S] : Iterated(f, F, n, carry)
  BY <1>5
<1>7. f = Body(f)
  <2>1. ASSUME NEW i \in 0 .. n
        PROVE  f[i] = IF i = 0 THEN carry ELSE AddLimb(x[i], LimbAt(y, i), f[i - 1]).c
    <3>1. CASE i = 0
      BY <3>1, <1>6 DEF Iterated
    <3>2. CASE i # 0
      <4>1. i \in 1 .. n /\ i - 1 \in 0 .. n
        BY <1>1, <3>2
      <4> QED
        BY <1>3, <1>6, <3>2, <4>1 DEF Iterated
    <3> QED
      BY <3>1, <3>2
  <2> QED
    BY <2>1, <1>6
<1>8. c = Body(c)
  <2> HIDE DEF Body
  <2> QED
    BY <1>7
<1>9. AddLimbs(x, y, carry) = [d |-> [i \in 1 .. n |-> AddLimb(x[i], LimbAt(y, i), c[i - 1]).r], c |-> c[n]]
  BY DEF AddLimbs
<1> HIDE DEF c
<1>10. c[0] = carry /\ \A i \in 1 .. n : c[i] = AddLimb(x[i], LimbAt(y, i), c[i - 1]).c
  BY <1>1, <1>8
<1>11. \A i \in 0 .. n : c[i] \in S
  <2> DEFINE T == {i \in 0 .. n : c[i] \in S}
  <2>1. 0 \in T
    BY <1>1, <1>10
  <2>2. ASSUME NEW i \in 0 .. n - 1, i \in T PROVE i + 1 \in T
    <3>1. i + 1 \in 1 .. n /\ i + 1 \in 0 .. n /\ (i + 1) - 1 = i
      BY <1>1
    <3> QED
      BY <1>2, <1>10, <2>2, <3>1
  <2>3. \A i \in 0 .. n : i \in T
    <3> HIDE DEF T, n
    <3> QED
      BY <1>1, <2>1, <2>2, InductUpTo
  <2> QED
    BY <2>3
<1>12. c \in [0 .. n -> S]
  BY <1>8, <1>11
<1> QED
  BY <1>9, <1>10, <1>12 DEF AddCarries

(***************************************************************************)
(* Sums are exact, whatever is carried through however many limbs          *)
(* (intern_add_dl, intern_add_one).                                        *)
(***************************************************************************)
LEMMA AddLimbsSum ==
  ASSUME NEW x \in Seq(Limb), NEW y \in Seq(Limb), Len(y) <= Len(x),
         NEW S, NEW carry \in S, FitsTwice(x, y, S)
  PROVE  /\ AddLimbs(x, y, carry).d \in Seq(Limb) /\ Len(AddLimbs(x, y, carry).d) = Len(x)
         /\ AddLimbs(x, y, carry).c \in Limb
         /\ Magnitude(AddLimbs(x, y, carry).d) + Power(Base, Len(x)) * AddLimbs(x, y, carry).c
              = Magnitude(x) + Magnitude(y) + carry
<1>1. PICK c \in [0 .. Len(x) -> S] : AddCarries(x, y, carry, c)
  BY AddCarriesExist
<1> DEFINE n == Len(x)
           z == Stretched(y, n)
           d == [i \in 1 .. n |-> AddLimb(x[i], z[i], c[i - 1]).r]
           e == [i \in 1 .. n |-> x[i] + z[i]]
<1>2. n \in Nat /\ n = Len(x)
  BY LimbsAreInts
<1> HIDE DEF n
<1>3. z \in Seq(Limb) /\ Len(z) = n /\ Magnitude(z) = Magnitude(y) /\ \A i \in 1 .. n : z[i] = LimbAt(y, i) /\ z[i] \in Limb
  BY <1>2, StretchedIs
<1> HIDE DEF z
<1>4. \A i \in 1 .. n : x[i] \in Limb
  BY <1>2, LimbsAreInts
<1>5. ASSUME NEW i \in 1 .. n
      PROVE  /\ AddLimb(x[i], z[i], c[i - 1]).r \in Limb
             /\ AddLimb(x[i], z[i], c[i - 1]).r + Base * c[i] = (x[i] + z[i]) + c[i - 1]
             /\ x[i] + z[i] \in Int
  <2>1. i - 1 \in 0 .. Len(x) /\ i \in 1 .. Len(x)
    BY <1>2
  <2>2. c[i - 1] \in S
    BY <2>1
  <2>3. c[i - 1] \in Limb /\ x[i] + z[i] + c[i - 1] < 2 * Base
    BY <1>3, <2>1, <2>2 DEF FitsTwice
  <2>4. c[i] = AddLimb(x[i], z[i], c[i - 1]).c
    BY <1>1, <1>3, <2>1 DEF AddCarries
  <2>5. x[i] \in Limb /\ z[i] \in Limb
    BY <1>3, <1>4
  <2>6. /\ AddLimb(x[i], z[i], c[i - 1]).r \in Limb
        /\ AddLimb(x[i], z[i], c[i - 1]).r + Base * AddLimb(x[i], z[i], c[i - 1]).c = x[i] + z[i] + c[i - 1]
    BY <2>3, <2>5, AddLimbExact
  <2>7. x[i] + z[i] \in Int
    <3>1. \A u, v \in Limb : u + v \in Int
      BY LimbsAreInts
    <3> QED
      BY <2>5, <3>1
  <2> QED
    BY <2>4, <2>6, <2>7
<1>6. d \in Seq(Limb) /\ Len(d) = n
  <2>1. d \in [1 .. n -> Limb]
    BY <1>5
  <2> HIDE DEF d
  <2> QED
    BY <1>2, <2>1, Tuple
<1>7. e \in Seq(Int) /\ Len(e) = n
  <2>1. e \in [1 .. n -> Int]
    BY <1>5
  <2> HIDE DEF e
  <2> QED
    BY <1>2, <2>1, Tuple
<1>8. \A i \in 1 .. n : d[i] + Base * c[i] = e[i] + c[i - 1] /\ e[i] = x[i] + z[i]
  BY <1>5
<1>9. AddLimbs(x, y, carry) = [d |-> d, c |-> c[n]]
  <2>1. AddLimbs(x, y, carry) =
          [d |-> [i \in 1 .. n |-> AddLimb(x[i], LimbAt(y, i), c[i - 1]).r], c |-> c[n]]
    BY <1>1, <1>2 DEF AddCarries
  <2> QED
    BY <1>3, <2>1
<1> HIDE DEF d, e
<1>10. c \in [0 .. Len(d) -> Int] /\ c[0] = carry /\ c[n] \in Limb
  <2>1. S \subseteq Limb /\ Limb \subseteq Int
    BY LimbsAreInts DEF FitsTwice
  <2>2. n \in 0 .. n
    BY <1>2
  <2> QED
    BY <1>1, <1>2, <1>6, <2>1, <2>2 DEF AddCarries
<1>11. d \in Seq(Int) /\ x \in Seq(Int) /\ z \in Seq(Int)
  BY <1>3, <1>6, LimbsAreInts
<1>12. Magnitude(d) + Power(Base, n) * c[n] = Magnitude(e) + carry
  <2>1. Rounds(d, e, c)
    BY <1>6, <1>8 DEF Rounds
  <2>2. Len(d) = Len(e)
    BY <1>6, <1>7
  <2>3. Magnitude(d) + Power(Base, Len(d)) * c[Len(d)] = Magnitude(e) + c[0]
    BY <1>7, <1>10, <1>11, <2>1, <2>2, LoopExact
  <2> QED
    BY <1>6, <1>10, <2>3
<1>13. Magnitude(e) = Magnitude(x) + Magnitude(z)
  <2>1. Sums(e, x, z)
    BY <1>7, <1>8 DEF Sums
  <2> QED
    BY <1>2, <1>3, <1>7, <1>11, <2>1, SumsAdd
<1> QED
  BY <1>2, <1>3, <1>6, <1>9, <1>10, <1>12, <1>13

\* intern_add_dl and intern_add_sl: the limbs written and the last carry are the sum.
LEMMA AddLimbsExact ==
  ASSUME NEW x \in Seq(Limb), NEW y \in Seq(Limb), Len(y) <= Len(x)
  PROVE  /\ AddLimbs(x, y, 0).d \in Seq(Limb) /\ Len(AddLimbs(x, y, 0).d) = Len(x)
         /\ AddLimbs(x, y, 0).c \in Limb
         /\ Magnitude(AddLimbs(x, y, 0).d) + Power(Base, Len(x)) * AddLimbs(x, y, 0).c
              = Magnitude(x) + Magnitude(y)
<1>1. FitsTwice(x, y, {0, 1})
  <2> SUFFICES ASSUME NEW i \in 1 .. Len(x), NEW s \in {0, 1} PROVE x[i] + LimbAt(y, i) + s < 2 * Base
    BY LimbsAreInts DEF FitsTwice
  <2>1. x[i] \in Limb /\ LimbAt(y, i) \in Limb
    BY LimbsAreInts, StretchedIs
  <2>2. ASSUME NEW u \in Limb, NEW v \in Limb, NEW w \in {0, 1} PROVE u + v + w < 2 * Base
    <3>1. Base \in Nat /\ u \in Nat /\ v \in Nat /\ u <= Base - 1 /\ v <= Base - 1
      BY Places DEF Limb
    <3>2. w \in Nat /\ w <= 1
      OBVIOUS
    <3> QED
      BY <3>1, <3>2
  <2> QED
    BY <2>1, <2>2
<1>2. 0 \in {0, 1}
  OBVIOUS
<1>3. Magnitude(x) \in Int /\ Magnitude(y) \in Int
  BY MagnitudeBelow
<1>4. Magnitude(x) + Magnitude(y) + 0 = Magnitude(x) + Magnitude(y)
  BY <1>3
<1> DEFINE S == {0, 1}
<1> HIDE DEF S
<1>5. 0 \in S /\ FitsTwice(x, y, S)
  BY <1>1, <1>2 DEF S
<1> QED
  BY <1>4, <1>5, AddLimbsSum

\* intern_add_one: a limb is added to limbs.
LEMMA AddOneExact ==
  ASSUME NEW x \in Seq(Limb), NEW carry \in Limb
  PROVE  /\ AddLimbs(x, <<>>, carry).d \in Seq(Limb) /\ Len(AddLimbs(x, <<>>, carry).d) = Len(x)
         /\ AddLimbs(x, <<>>, carry).c \in Limb
         /\ Magnitude(AddLimbs(x, <<>>, carry).d) + Power(Base, Len(x)) * AddLimbs(x, <<>>, carry).c
              = Magnitude(x) + carry
<1>0. <<>> \in Seq(Limb) /\ Len(<<>>) = 0 /\ Len(<<>>) <= Len(x)
  BY EmptySeq, LimbsAreInts
<1>1. FitsTwice(x, <<>>, Limb)
  <2> SUFFICES ASSUME NEW i \in 1 .. Len(x), NEW s \in Limb PROVE x[i] + LimbAt(<<>>, i) + s < 2 * Base
    BY LimbsAreInts DEF FitsTwice
  <2>1. x[i] \in Limb /\ LimbAt(<<>>, i) = 0
    BY LimbsAreInts, <1>0 DEF LimbAt
  <2>2. \A u, v \in Limb : u + 0 + v < 2 * Base
    BY Places DEF Limb
  <2> QED
    BY <2>1, <2>2
<1>2. Magnitude(<<>>) = 0
  <2>1. <<>> \in Seq(Int)
    BY <1>0, LimbsAreInts
  <2> QED
    BY <1>0, <2>1, LowValuesAre DEF Magnitude
<1>3. Magnitude(x) + 0 + carry = Magnitude(x) + carry
  <2>1. Magnitude(x) \in Int /\ carry \in Int
    BY MagnitudeBelow, LimbsAreInts
  <2> QED
    BY <2>1
<1> DEFINE y == <<>>
<1> HIDE DEF y
<1>4. y \in Seq(Limb) /\ Len(y) <= Len(x) /\ FitsTwice(x, y, Limb) /\ Magnitude(y) = 0
  BY <1>0, <1>1, <1>2 DEF y
<1>5. /\ AddLimbs(x, y, carry).d \in Seq(Limb) /\ Len(AddLimbs(x, y, carry).d) = Len(x)
      /\ AddLimbs(x, y, carry).c \in Limb
      /\ Magnitude(AddLimbs(x, y, carry).d) + Power(Base, Len(x)) * AddLimbs(x, y, carry).c
           = Magnitude(x) + Magnitude(y) + carry
  BY <1>4, AddLimbsSum
<1> QED
  BY <1>3, <1>4, <1>5 DEF y

\* The borrows of SubLimbs.
SubCarries(x, y, c) ==
  /\ c[0] = 0
  /\ \A i \in 1 .. Len(x) : c[i] = SubLimb(x[i], LimbAt(y, i), c[i - 1]).c
  /\ SubLimbs(x, y) = [i \in 1 .. Len(x) |-> SubLimb(x[i], LimbAt(y, i), c[i - 1]).r]

\* The borrows of SubLimbs are what its recursive function gives.
LEMMA SubCarriesExist ==
  ASSUME NEW x \in Seq(Limb), NEW y \in Seq(Limb), Len(y) <= Len(x)
  PROVE  \E c \in [0 .. Len(x) -> {0, 1}] : SubCarries(x, y, c)
<1> DEFINE n == Len(x)
           S == {0, 1}
           F == [q \in (1 .. n) \X S |-> SubLimb(x[q[1]], LimbAt(y, q[1]), q[2]).c]
           Body(v) == [i \in 0 .. n |-> IF i = 0 THEN 0 ELSE SubLimb(x[i], LimbAt(y, i), v[i - 1]).c]
           c == CHOOSE v : v = Body(v)
<1>1. n \in Nat /\ \A i \in 1 .. n : x[i] \in Limb /\ LimbAt(y, i) \in Limb
  BY LimbsAreInts, StretchedIs
<1>2. ASSUME NEW i \in 1 .. n, NEW s \in S PROVE SubLimb(x[i], LimbAt(y, i), s).c \in S
  BY <1>1, SubLimbExact
<1>0. 0 \in S
  OBVIOUS
<1> HIDE DEF S
<1>3. \A i \in 1 .. n, s \in S : F[<<i, s>>] = SubLimb(x[i], LimbAt(y, i), s).c
  OBVIOUS
<1> HIDE DEF F
<1>4. Steps(F, n, S)
  BY <1>2, <1>3 DEF Steps
<1>5. \E f \in [0 .. n -> S] : Iterated(f, F, n, 0)
  <2> HIDE DEF n
  <2> QED
    BY <1>0, <1>1, <1>4, IterationExists
<1>6. PICK f \in [0 .. n -> S] : Iterated(f, F, n, 0)
  BY <1>5
<1>7. f = Body(f)
  <2>1. ASSUME NEW i \in 0 .. n
        PROVE  f[i] = IF i = 0 THEN 0 ELSE SubLimb(x[i], LimbAt(y, i), f[i - 1]).c
    <3>1. CASE i = 0
      BY <3>1, <1>6 DEF Iterated
    <3>2. CASE i # 0
      <4>1. i \in 1 .. n /\ i - 1 \in 0 .. n
        BY <1>1, <3>2
      <4> QED
        BY <1>3, <1>6, <3>2, <4>1 DEF Iterated
    <3> QED
      BY <3>1, <3>2
  <2> QED
    BY <2>1, <1>6
<1>8. c = Body(c)
  <2> HIDE DEF Body
  <2> QED
    BY <1>7
<1>9. SubLimbs(x, y) = [i \in 1 .. n |-> SubLimb(x[i], LimbAt(y, i), c[i - 1]).r]
  BY DEF SubLimbs
<1> HIDE DEF c
<1>10. c[0] = 0 /\ \A i \in 1 .. n : c[i] = SubLimb(x[i], LimbAt(y, i), c[i - 1]).c
  BY <1>1, <1>8
<1>11. \A i \in 0 .. n : c[i] \in S
  <2> DEFINE T == {i \in 0 .. n : c[i] \in S}
  <2>1. 0 \in T
    BY <1>0, <1>1, <1>10
  <2>2. ASSUME NEW i \in 0 .. n - 1, i \in T PROVE i + 1 \in T
    <3>1. i + 1 \in 1 .. n /\ i + 1 \in 0 .. n /\ (i + 1) - 1 = i
      BY <1>1
    <3> QED
      BY <1>2, <1>10, <2>2, <3>1
  <2>3. \A i \in 0 .. n : i \in T
    <3> HIDE DEF T, n
    <3> QED
      BY <1>1, <2>1, <2>2, InductUpTo
  <2> QED
    BY <2>3
<1>12. c \in [0 .. n -> S]
  BY <1>8, <1>11
<1> QED
  BY <1>9, <1>10, <1>12 DEF SubCarries, S

(***************************************************************************)
(* Differences are exact unless the last limb borrows, which it does just  *)
(* if the smaller number is taken from: then it is one of the place above  *)
(* that nobody asks for (intern_sub_dl).                                   *)
(***************************************************************************)
LEMMA SubLimbsExact ==
  ASSUME NEW x \in Seq(Limb), NEW y \in Seq(Limb), Len(y) <= Len(x)
  PROVE  /\ SubLimbs(x, y) \in Seq(Limb) /\ Len(SubLimbs(x, y)) = Len(x)
         /\ Magnitude(SubLimbs(x, y)) =
              Magnitude(x) - Magnitude(y) +
                (IF Magnitude(x) < Magnitude(y) THEN Power(Base, Len(x)) ELSE 0)
<1>1. PICK c \in [0 .. Len(x) -> {0, 1}] : SubCarries(x, y, c)
  BY SubCarriesExist
<1> DEFINE n == Len(x)
           z == Stretched(y, n)
           d == [i \in 1 .. n |-> SubLimb(x[i], z[i], c[i - 1]).r]
           e == [i \in 1 .. n |-> x[i] + (-z[i])]
           zn == [i \in 1 .. n |-> -z[i]]
           k == [i \in 0 .. n |-> -c[i]]
<1>2. n \in Nat /\ n = Len(x)
  BY LimbsAreInts
<1> HIDE DEF n
<1>3. z \in Seq(Limb) /\ Len(z) = n /\ Magnitude(z) = Magnitude(y) /\ \A i \in 1 .. n : z[i] = LimbAt(y, i) /\ z[i] \in Limb
  BY <1>2, StretchedIs
<1> HIDE DEF z
<1>4. \A i \in 1 .. n : x[i] \in Limb
  BY <1>2, LimbsAreInts
<1>5. ASSUME NEW i \in 1 .. n
      PROVE  /\ SubLimb(x[i], z[i], c[i - 1]).r \in Limb
             /\ SubLimb(x[i], z[i], c[i - 1]).r + Base * (-c[i]) = (x[i] + (-z[i])) + (-c[i - 1])
             /\ x[i] + (-z[i]) \in Int /\ -z[i] \in Int
  <2>1. i - 1 \in 0 .. Len(x) /\ i \in 1 .. Len(x) /\ i \in 0 .. Len(x)
    BY <1>2
  <2>2. c[i - 1] \in {0, 1} /\ c[i] \in {0, 1}
    BY <2>1
  <2>4. c[i] = SubLimb(x[i], z[i], c[i - 1]).c
    BY <1>1, <1>3, <2>1 DEF SubCarries
  <2>5. x[i] \in Limb /\ z[i] \in Limb
    BY <1>3, <1>4
  <2>6. /\ SubLimb(x[i], z[i], c[i - 1]).r \in Limb
        /\ SubLimb(x[i], z[i], c[i - 1]).r - Base * c[i] = x[i] - z[i] - c[i - 1]
    BY <2>2, <2>4, <2>5, SubLimbExact
  <2>7. \A u, v \in Limb : u + (-v) \in Int /\ -v \in Int
    BY LimbsAreInts
  <2> DEFINE r == SubLimb(x[i], z[i], c[i - 1]).r
             xi == x[i]
             zi == z[i]
             ci == c[i]
             cj == c[i - 1]
  <2>8. r \in Int /\ xi \in Int /\ zi \in Int /\ ci \in Int /\ cj \in Int /\ Base \in Int /\ r - Base * ci = xi - zi - cj
    <3>0. \A u \in Limb : u \in Int
      BY LimbsAreInts
    <3>1. r \in Int
      BY <2>6, <3>0
    <3>2. xi \in Int /\ zi \in Int
      BY <2>5, <3>0
    <3>3. ci \in Int /\ cj \in Int
      BY <2>2
    <3>4. r - Base * ci = xi - zi - cj
      BY <2>6
    <3> QED
      BY <3>1, <3>2, <3>3, <3>4, Places
  <2> HIDE DEF r, xi, zi, ci, cj
  <2>9. r + Base * (-ci) = (xi + (-zi)) + (-cj)
    <3>1. Base * (-ci) = -(Base * ci) /\ Base * ci \in Int
      BY <2>8
    <3> QED
      BY <2>8, <3>1
  <2> QED
    BY <2>5, <2>6, <2>7, <2>9 DEF r, xi, zi, ci, cj
<1>6. d \in Seq(Limb) /\ Len(d) = n
  <2>1. d \in [1 .. n -> Limb]
    BY <1>5
  <2> HIDE DEF d
  <2> QED
    BY <1>2, <2>1, Tuple
<1>7. e \in Seq(Int) /\ Len(e) = n
  <2>1. e \in [1 .. n -> Int]
    BY <1>5
  <2> HIDE DEF e
  <2> QED
    BY <1>2, <2>1, Tuple
<1>71. zn \in Seq(Int) /\ Len(zn) = n
  <2>1. zn \in [1 .. n -> Int]
    BY <1>5
  <2> HIDE DEF zn
  <2> QED
    BY <1>2, <2>1, Tuple
<1>8. \A i \in 1 .. n : d[i] + Base * k[i] = e[i] + k[i - 1] /\ e[i] = x[i] + zn[i] /\ zn[i] = z[i] * (-1)
  <2> SUFFICES ASSUME NEW i \in 1 .. n
               PROVE  d[i] + Base * k[i] = e[i] + k[i - 1] /\ e[i] = x[i] + zn[i] /\ zn[i] = z[i] * (-1)
    OBVIOUS
  <2>1. i \in 0 .. n /\ i - 1 \in 0 .. n
    BY <1>2
  <2>2. k[i] = -c[i] /\ k[i - 1] = -c[i - 1]
    BY <2>1
  <2>3. -z[i] = z[i] * (-1)
    <3>1. \A u \in Limb : -u = u * (-1)
      BY LimbsAreInts
    <3> QED
      BY <1>3, <3>1
  <2> QED
    BY <1>5, <2>2, <2>3
<1>9. SubLimbs(x, y) = d
  <2>1. SubLimbs(x, y) = [i \in 1 .. n |-> SubLimb(x[i], LimbAt(y, i), c[i - 1]).r]
    BY <1>1, <1>2 DEF SubCarries
  <2> QED
    BY <1>3, <2>1
<1>10. k \in [0 .. Len(d) -> Int] /\ k[0] = 0 /\ k[n] = -c[n] /\ c[n] \in {0, 1}
  <2>1. \A i \in 0 .. n : c[i] \in {0, 1} /\ -c[i] \in Int
    BY <1>2
  <2>2. n \in 0 .. n /\ 0 \in 0 .. n
    BY <1>2
  <2>3. k[0] = -c[0] /\ c[0] = 0 /\ -0 = 0
    <3>1. c[0] = 0
      BY <1>1 DEF SubCarries
    <3>2. k[0] = -c[0]
      BY <2>2
    <3> QED
      BY <3>1, <3>2
  <2> QED
    BY <1>6, <2>1, <2>2, <2>3
<1> HIDE DEF d, e, k, zn
<1>11. d \in Seq(Int) /\ x \in Seq(Int) /\ z \in Seq(Int)
  BY <1>3, <1>6, LimbsAreInts
<1>12. Magnitude(d) + Power(Base, n) * k[n] = Magnitude(e) + 0
  <2>1. Rounds(d, e, k)
    BY <1>6, <1>8 DEF Rounds
  <2>2. Len(d) = Len(e)
    BY <1>6, <1>7
  <2>3. Magnitude(d) + Power(Base, Len(d)) * k[Len(d)] = Magnitude(e) + k[0]
    BY <1>7, <1>10, <1>11, <2>1, <2>2, LoopExact
  <2> QED
    BY <1>6, <1>10, <2>3
<1>13. Magnitude(e) = Magnitude(x) + Magnitude(zn)
  <2>1. Sums(e, x, zn)
    BY <1>7, <1>8 DEF Sums
  <2> QED
    BY <1>2, <1>71, <1>7, <1>11, <2>1, SumsAdd
<1>14. Magnitude(zn) = Magnitude(z) * (-1)
  <2>1. Multiple(zn, z, -1) /\ -1 \in Int
    BY <1>71, <1>8 DEF Multiple
  <2> QED
    BY <1>3, <1>71, <1>11, <2>1, MultipleScales
<1> DEFINE vd == Magnitude(d)
           vx == Magnitude(x)
           vy == Magnitude(y)
           p == Power(Base, n)
           cn == c[n]
<1>15. vd \in Nat /\ vd < p /\ vx \in Nat /\ vx < p /\ vy \in Nat /\ p \in Nat
  BY <1>2, <1>6, MagnitudeBelow, Places
<1>151. vy < p
  <2>1. Magnitude(z) < Power(Base, Len(z))
    BY <1>3, MagnitudeBelow
  <2> QED
    BY <1>3, <2>1
<1>16. vd + p * (-cn) = vx + vy * (-1) + 0
  BY <1>3, <1>10, <1>12, <1>13, <1>14
<1>17. cn = 0 \/ cn = 1
  BY <1>10
<1> HIDE DEF vd, vx, vy, p, cn
<1>18. vd = vx - vy + (IF vx < vy THEN p ELSE 0)
  <2>1. CASE cn = 0
    <3>1. vd = vx - vy
      BY <1>15, <1>16, <2>1
    <3> QED
      BY <1>15, <3>1
  <2>2. CASE cn = 1
    <3>1. vd = vx - vy + p
      BY <1>15, <1>16, <2>2
    <3> QED
      BY <1>15, <3>1
  <2> QED
    BY <1>17, <2>1, <2>2
<1> QED
  BY <1>2, <1>6, <1>9, <1>18 DEF vd, vx, vy, p

\* The carries of MulLimbs.
MulCarries(x, m, c) ==
  /\ c[0] = 0
  /\ \A i \in 1 .. Len(x) : c[i] = MulLimb(x[i], m, c[i - 1]).c
  /\ MulLimbs(x, m) = [d |-> [i \in 1 .. Len(x) |-> MulLimb(x[i], m, c[i - 1]).r], c |-> c[Len(x)]]

\* The carries of MulLimbs are what its recursive function gives.
LEMMA MulCarriesExist ==
  ASSUME NEW x \in Seq(Limb), NEW m \in Limb
  PROVE  \E c \in [0 .. Len(x) -> Limb] : MulCarries(x, m, c)
<1> DEFINE n == Len(x)
           F == [q \in (1 .. n) \X Limb |-> MulLimb(x[q[1]], m, q[2]).c]
           Body(v) == [i \in 0 .. n |-> IF i = 0 THEN 0 ELSE MulLimb(x[i], m, v[i - 1]).c]
           c == CHOOSE v : v = Body(v)
<1>1. n \in Nat /\ \A i \in 1 .. n : x[i] \in Limb
  BY LimbsAreInts
<1>2. ASSUME NEW i \in 1 .. n, NEW s \in Limb PROVE MulLimb(x[i], m, s).c \in Limb
  BY <1>1, MulLimbExact
<1>3. \A i \in 1 .. n, s \in Limb : F[<<i, s>>] = MulLimb(x[i], m, s).c
  OBVIOUS
<1> HIDE DEF F
<1>4. Steps(F, n, Limb)
  BY <1>2, <1>3 DEF Steps
<1>5. \E f \in [0 .. n -> Limb] : Iterated(f, F, n, 0)
  <2> HIDE DEF n
  <2>1. 0 \in Limb
    BY LimbsAreInts
  <2> QED
    BY <1>1, <1>4, <2>1, IterationExists
<1>6. PICK f \in [0 .. n -> Limb] : Iterated(f, F, n, 0)
  BY <1>5
<1>7. f = Body(f)
  <2>1. ASSUME NEW i \in 0 .. n
        PROVE  f[i] = IF i = 0 THEN 0 ELSE MulLimb(x[i], m, f[i - 1]).c
    <3>1. CASE i = 0
      BY <3>1, <1>6 DEF Iterated
    <3>2. CASE i # 0
      <4>1. i \in 1 .. n /\ i - 1 \in 0 .. n
        BY <1>1, <3>2
      <4> QED
        BY <1>3, <1>6, <3>2, <4>1 DEF Iterated
    <3> QED
      BY <3>1, <3>2
  <2> QED
    BY <2>1, <1>6
<1>8. c = Body(c)
  <2> HIDE DEF Body
  <2> QED
    BY <1>7
<1>9. MulLimbs(x, m) = [d |-> [i \in 1 .. n |-> MulLimb(x[i], m, c[i - 1]).r], c |-> c[n]]
  BY DEF MulLimbs
<1> HIDE DEF c
<1>10. c[0] = 0 /\ \A i \in 1 .. n : c[i] = MulLimb(x[i], m, c[i - 1]).c
  BY <1>1, <1>8
<1>11. \A i \in 0 .. n : c[i] \in Limb
  <2> DEFINE T == {i \in 0 .. n : c[i] \in Limb}
  <2>1. 0 \in T
    BY <1>1, <1>10, LimbsAreInts
  <2>2. ASSUME NEW i \in 0 .. n - 1, i \in T PROVE i + 1 \in T
    <3>1. i + 1 \in 1 .. n /\ i + 1 \in 0 .. n /\ (i + 1) - 1 = i
      BY <1>1
    <3> QED
      BY <1>2, <1>10, <2>2, <3>1
  <2>3. \A i \in 0 .. n : i \in T
    <3> HIDE DEF T, n
    <3> QED
      BY <1>1, <2>1, <2>2, InductUpTo
  <2> QED
    BY <2>3
<1>12. c \in [0 .. n -> Limb]
  BY <1>8, <1>11
<1> QED
  BY <1>9, <1>10, <1>12 DEF MulCarries

(***************************************************************************)
(* Products with a small factor are exact (intern_mul_one, intern_shl).    *)
(***************************************************************************)
LEMMA MulLimbsExact ==
  ASSUME NEW x \in Seq(Limb), NEW m \in Limb
  PROVE  /\ MulLimbs(x, m).d \in Seq(Limb) /\ Len(MulLimbs(x, m).d) = Len(x)
         /\ MulLimbs(x, m).c \in Limb
         /\ Magnitude(MulLimbs(x, m).d) + Power(Base, Len(x)) * MulLimbs(x, m).c = Magnitude(x) * m
<1>1. PICK c \in [0 .. Len(x) -> Limb] : MulCarries(x, m, c)
  BY MulCarriesExist
<1> DEFINE n == Len(x)
           d == [i \in 1 .. n |-> MulLimb(x[i], m, c[i - 1]).r]
           e == [i \in 1 .. n |-> x[i] * m]
<1>2. n \in Nat /\ n = Len(x)
  BY LimbsAreInts
<1> HIDE DEF n
<1>4. \A i \in 1 .. n : x[i] \in Limb
  BY <1>2, LimbsAreInts
<1>5. ASSUME NEW i \in 1 .. n
      PROVE  /\ MulLimb(x[i], m, c[i - 1]).r \in Limb
             /\ MulLimb(x[i], m, c[i - 1]).r + Base * c[i] = x[i] * m + c[i - 1]
             /\ x[i] * m \in Int
  <2>1. i - 1 \in 0 .. Len(x) /\ i \in 1 .. Len(x)
    BY <1>2
  <2>2. c[i - 1] \in Limb /\ x[i] \in Limb
    BY <1>4, <2>1
  <2>4. c[i] = MulLimb(x[i], m, c[i - 1]).c
    BY <1>1, <2>1 DEF MulCarries
  <2>6. /\ MulLimb(x[i], m, c[i - 1]).r \in Limb
        /\ MulLimb(x[i], m, c[i - 1]).r + Base * MulLimb(x[i], m, c[i - 1]).c = x[i] * m + c[i - 1]
    BY <2>2, MulLimbExact
  <2>7. x[i] * m \in Int
    <3>1. \A u, v \in Limb : u * v \in Int
      BY LimbsAreInts
    <3> QED
      BY <2>2, <3>1
  <2> QED
    BY <2>4, <2>6, <2>7
<1>6. d \in Seq(Limb) /\ Len(d) = n
  <2>1. d \in [1 .. n -> Limb]
    BY <1>5
  <2> HIDE DEF d
  <2> QED
    BY <1>2, <2>1, Tuple
<1>7. e \in Seq(Int) /\ Len(e) = n
  <2>1. e \in [1 .. n -> Int]
    BY <1>5
  <2> HIDE DEF e
  <2> QED
    BY <1>2, <2>1, Tuple
<1>8. \A i \in 1 .. n : d[i] + Base * c[i] = e[i] + c[i - 1] /\ e[i] = x[i] * m
  BY <1>5
<1>9. MulLimbs(x, m) = [d |-> d, c |-> c[n]]
  BY <1>1, <1>2 DEF MulCarries
<1> HIDE DEF d, e
<1>10. c \in [0 .. Len(d) -> Int] /\ c[0] = 0 /\ c[n] \in Limb
  <2>1. Limb \subseteq Int
    BY LimbsAreInts
  <2>2. n \in 0 .. n
    BY <1>2
  <2> QED
    BY <1>1, <1>2, <1>6, <2>1, <2>2 DEF MulCarries
<1>11. d \in Seq(Int) /\ x \in Seq(Int) /\ m \in Int
  BY <1>6, LimbsAreInts
<1>12. Magnitude(d) + Power(Base, n) * c[n] = Magnitude(e) + 0
  <2>1. Rounds(d, e, c)
    BY <1>6, <1>8 DEF Rounds
  <2>2. Len(d) = Len(e)
    BY <1>6, <1>7
  <2>3. Magnitude(d) + Power(Base, Len(d)) * c[Len(d)] = Magnitude(e) + c[0]
    BY <1>7, <1>10, <1>11, <2>1, <2>2, LoopExact
  <2> QED
    BY <1>6, <1>10, <2>3
<1>13. Magnitude(e) = Magnitude(x) * m
  <2>1. Multiple(e, x, m)
    BY <1>7, <1>8 DEF Multiple
  <2> QED
    BY <1>2, <1>7, <1>11, <2>1, MultipleScales
<1>14. Magnitude(e) \in Int
  BY <1>7, MagnitudeInt
<1>15. Magnitude(d) + Power(Base, n) * c[n] = Magnitude(x) * m
  BY <1>12, <1>13, <1>14
<1> QED
  BY <1>2, <1>6, <1>9, <1>10, <1>15

(***************************************************************************)
(* Without the zeros at the top limbs are worth as much (intern_size).     *)
(***************************************************************************)
Normal(d) == d \in Seq(Limb) /\ (Len(d) > 0 => d[Len(d)] # 0)

\* intern_size: the limbs below the zeros at the top have the same value and a top that is not 0.
LEMMA TrimmedIs ==
  ASSUME NEW d \in Seq(Limb)
  PROVE  Normal(Trimmed(d)) /\ Magnitude(Trimmed(d)) = Magnitude(d) /\ Len(Trimmed(d)) <= Len(d)
<1> DEFINE n == Len(d)
           Top(k) == (\A i \in k + 1 .. n : d[i] = 0) /\ (k > 0 => d[k] # 0)
           top == CHOOSE k \in 0 .. n : Top(k)
           T == {k \in Nat : \A i \in k + 1 .. n : d[i] = 0}
<1>1. n \in Nat /\ d \in Seq(Int) /\ \A i \in 1 .. n : d[i] \in Limb
  BY LimbsAreInts
<1>2. PICK k \in T : \A j \in T : k <= j
  <2>1. n \in T
    BY <1>1
  <2>2. T \in SUBSET Nat /\ T # {}
    BY <2>1
  <2> HIDE DEF T
  <2> QED
    BY <2>2, LeastNat
<1>3. k \in 0 .. n /\ Top(k)
  <2>1. n \in T
    BY <1>1
  <2>2. k <= n /\ k \in Nat
    BY <1>2, <2>1
  <2>3. ASSUME k > 0, d[k] = 0 PROVE FALSE
    <3>1. \A i \in (k - 1) + 1 .. n : d[i] = 0
      BY <1>1, <1>2, <2>3
    <3>2. k - 1 \in T
      BY <2>2, <2>3, <3>1
    <3> QED
      BY <1>2, <2>2, <3>2
  <2> QED
    BY <1>1, <1>2, <2>2, <2>3
<1>4. top \in 0 .. n /\ Top(top)
  <2> HIDE DEF Top
  <2> QED
    BY <1>3
<1>5. Trimmed(d) = SubSeq(d, 1, top)
  BY DEF Trimmed
<1> HIDE DEF top
<1> DEFINE e == SubSeq(d, 1, top)
<1>6. e \in Seq(Limb) /\ Len(e) = top /\ \A i \in 1 .. top : e[i] = d[i]
  <2>1. top \in Nat /\ top <= n /\ 1 \in Int /\ top \in Int /\ \A i \in 1 .. top : d[i] \in Limb
    BY <1>1, <1>4
  <2>2. /\ e \in Seq(Limb) /\ Len(e) = IF 1 <= top THEN top - 1 + 1 ELSE 0
        /\ \A i \in 1 .. top - 1 + 1 : e[i] = d[1 + i - 1]
    BY <2>1, SubSeqProperties
  <2> QED
    BY <2>1, <2>2
<1> HIDE DEF e
<1>7. Normal(e)
  BY <1>4, <1>6 DEF Normal
<1>8. e \in Seq(Int)
  BY <1>6, LimbsAreInts
<1> DEFINE z == Stretched(e, n)
<1>9. /\ z \in Seq(Limb) /\ Len(z) = n /\ Magnitude(z) = Magnitude(e)
      /\ \A i \in 1 .. n : z[i] = LimbAt(e, i)
  BY <1>1, <1>4, <1>6, StretchedIs
<1> HIDE DEF z
<1>10. z = d
  <2>1. ASSUME NEW i \in 1 .. n PROVE z[i] = d[i]
    <3>1. CASE i <= top
      BY <1>4, <1>6, <1>9, <3>1 DEF LimbAt
    <3>2. CASE ~(i <= top)
      <4>1. d[i] = 0
        BY <1>4, <3>2
      <4> QED
        BY <1>6, <1>9, <3>2, <4>1 DEF LimbAt
    <3> QED
      BY <3>1, <3>2
  <2> QED
    BY <1>9, <2>1, SeqEqual
<1> QED
  BY <1>4, <1>5, <1>6, <1>7, <1>9, <1>10 DEF e

-----------------------------------------------------------------------------
(* Numbers and their bits.                                                 *)

(***************************************************************************)
(* A limb has W bits.                                                      *)
(***************************************************************************)
LEMMA BitPlaces ==
  /\ W \in Nat /\ W > 0 /\ Base = Power(2, W)
  /\ \A i \in Nat : W * i \in Nat /\ Power(Base, i) = Power(2, W * i)
<1>1. W \in Nat /\ W > 0 /\ Base = Power(2, W)
  BY WidthAssumption
<1>2. ASSUME NEW i \in Nat PROVE W * i \in Nat /\ Power(Base, i) = Power(2, W * i)
  <2>1. W * i \in Nat
    BY <1>1
  <2>2. Power(Power(2, W), i) = Power(2, W * i)
    BY <1>1, PowerOfPower
  <2> QED
    BY <1>1, <2>1, <2>2
<1> QED
  BY <1>1, <1>2

\* A number as number_t should be: the limbs are counted and the top one is not 0.
NumOK(n) ==
  /\ n \in [s : Int, d : Seq(Limb)]
  /\ Abs(n.s) = Len(n.d)
  /\ n.s # 0 => Last(n.d) # 0

\* The parts of a number in order.
LEMMA NumParts ==
  ASSUME NEW n, NumOK(n)
  PROVE  /\ n.s \in Int /\ n.d \in Seq(Limb) /\ Normal(n.d) /\ Len(n.d) \in Nat
         /\ n = [s |-> n.s, d |-> n.d]
         /\ n.s = 0 <=> Len(n.d) = 0
         /\ n.s < 0 => n.s = -Len(n.d)
         /\ n.s >= 0 => n.s = Len(n.d)
         /\ Magnitude(n.d) \in Nat
<1>1. n.s \in Int /\ n.d \in Seq(Limb) /\ n = [s |-> n.s, d |-> n.d]
  BY DEF NumOK
<1>2. Len(n.d) \in Nat /\ Magnitude(n.d) \in Nat
  BY <1>1, MagnitudeBelow
<1>3. /\ n.s = 0 <=> Len(n.d) = 0
      /\ n.s < 0 => n.s = -Len(n.d)
      /\ n.s >= 0 => n.s = Len(n.d)
  BY <1>1, <1>2 DEF NumOK, Abs
<1>4. Normal(n.d)
  BY <1>1, <1>3 DEF Normal, NumOK, Last
<1> QED
  BY <1>1, <1>2, <1>3, <1>4

\* Limbs with a top that is not 0 and a sign are a number in order, with the value of the limbs.
LEMMA NumberIs ==
  ASSUME NEW negative \in BOOLEAN, NEW d, Normal(d)
  PROVE  /\ NumOK(Number(negative, d)) /\ Number(negative, d).d = d
         /\ Value(Number(negative, d)) = IF negative THEN -Magnitude(d) ELSE Magnitude(d)
<1> DEFINE n == Number(negative, d)
<1>1. d \in Seq(Limb) /\ Len(d) \in Nat /\ Magnitude(d) \in Nat /\ (Len(d) > 0 => d[Len(d)] # 0)
  BY MagnitudeBelow DEF Normal
<1>2. n = [s |-> IF negative THEN -Len(d) ELSE Len(d), d |-> d]
  BY DEF Number
<1>3. n.d = d /\ n.s = (IF negative THEN -Len(d) ELSE Len(d)) /\ n.s \in Int
  BY <1>1, <1>2
<1>4. n \in [s : Int, d : Seq(Limb)]
  BY <1>1, <1>2, <1>3
<1>5. NumOK(n)
  BY <1>1, <1>3, <1>4 DEF NumOK, Abs, Last
<1>6. Len(d) = 0 => Magnitude(d) = 0
  <2>1. Power(Base, 0) = 1 /\ Magnitude(d) < Power(Base, Len(d))
    BY <1>1, MagnitudeBelow, Places
  <2> QED
    BY <1>1, <2>1
<1>7. Value(n) = IF n.s < 0 THEN -Magnitude(d) ELSE Magnitude(d)
  BY <1>3 DEF Value
<1>8. CASE negative
  BY <1>1, <1>3, <1>5, <1>6, <1>7, <1>8
<1>9. CASE ~negative
  BY <1>1, <1>3, <1>5, <1>7, <1>9
<1> QED
  BY <1>8, <1>9

\* Zero is in order and has the value 0.
LEMMA ZeroOK == NumOK(Zero) /\ Value(Zero) = 0 /\ Zero.s = 0 /\ Zero.d = <<>> /\ Magnitude(<<>>) = 0 /\ Normal(<<>>)
<1>1. <<>> \in Seq(Limb) /\ Len(<<>>) = 0
  BY EmptySeq
<1>2. Normal(<<>>)
  BY <1>1 DEF Normal
<1>3. Magnitude(<<>>) = 0
  <2>1. <<>> \in Seq(Int)
    BY <1>1, LimbsAreInts
  <2> QED
    BY <1>1, <2>1, LowValuesAre DEF Magnitude
<1>4. Zero = Number(FALSE, <<>>) /\ Zero.s = Len(<<>>) /\ Zero.d = <<>>
  BY DEF Zero, Number
<1> QED
  BY <1>1, <1>2, <1>3, <1>4, NumberIs

(***************************************************************************)
(* Limbs with no zeros at the top are worth one of the top place at least. *)
(***************************************************************************)
LEMMA NormalBounds ==
  ASSUME NEW d, Normal(d)
  PROVE  /\ d \in Seq(Limb) /\ Len(d) \in Nat /\ Magnitude(d) \in Nat
         /\ Magnitude(d) < Power(Base, Len(d))
         /\ Len(d) > 0 => Len(d) - 1 \in Nat /\ Power(Base, Len(d) - 1) <= Magnitude(d) /\ Magnitude(d) > 0
<1>1. d \in Seq(Limb) /\ Len(d) \in Nat /\ Magnitude(d) \in Nat /\ Magnitude(d) < Power(Base, Len(d))
  BY MagnitudeBelow DEF Normal
<1>2. ASSUME Len(d) > 0
      PROVE  Len(d) - 1 \in Nat /\ Power(Base, Len(d) - 1) <= Magnitude(d) /\ Magnitude(d) > 0
  <2>1. Len(d) - 1 \in Nat /\ Power(Base, Len(d) - 1) <= Magnitude(d)
    BY <1>1, <1>2, TopLimb DEF Normal
  <2>2. Power(Base, Len(d) - 1) \in Nat /\ Power(Base, Len(d) - 1) > 0
    BY <2>1, Places
  <2> QED
    BY <1>1, <2>1, <2>2
<1> QED
  BY <1>1, <1>2

(***************************************************************************)
(* How many limbs there are is told by the bits of their value.            *)
(***************************************************************************)
LEMMA LimbsForBits ==
  ASSUME NEW d, Normal(d), Len(d) > 0, NEW bits \in Nat, bits > 0,
         Power(2, bits - 1) <= Magnitude(d), Magnitude(d) < Power(2, bits)
  PROVE  LimbsFor(bits) = Len(d) /\ W * (Len(d) - 1) < bits /\ bits <= W * Len(d)
<1> DEFINE n == Len(d)
           v == Magnitude(d)
<1>1. n \in Nat /\ n - 1 \in Nat /\ v \in Nat /\ v < Power(Base, n) /\ Power(Base, n - 1) <= v
  BY NormalBounds
<1>2. /\ W \in Nat /\ W > 0 /\ W * n \in Nat /\ W * (n - 1) \in Nat /\ bits - 1 \in Nat
      /\ Power(Base, n) = Power(2, W * n) /\ Power(Base, n - 1) = Power(2, W * (n - 1))
  <2> HIDE DEF n
  <2>1. bits - 1 \in Nat
    OBVIOUS
  <2> DEFINE k == n - 1
  <2>2. k \in Nat
    BY <1>1
  <2> HIDE DEF k
  <2>3. W * k \in Nat /\ Power(Base, k) = Power(2, W * k)
    BY <2>2, BitPlaces
  <2> QED
    BY <1>1, <2>1, <2>3, BitPlaces DEF k
<1> HIDE DEF n, v
<1> DEFINE wn == W * n
           wk == W * (n - 1)
<1>3. wn = wk + W
  BY <1>1, <1>2
<1> HIDE DEF wn, wk
<1>4. wn \in Nat /\ wk \in Nat /\ v < Power(2, wn) /\ Power(2, wk) <= v
  BY <1>1, <1>2 DEF wn, wk
<1>5. Power(2, bits - 1) <= v /\ v < Power(2, bits)
  BY DEF v
<1>6. Power(2, bits - 1) \in Nat /\ Power(2, bits) \in Nat /\ Power(2, wn) \in Nat /\ Power(2, wk) \in Nat
  BY <1>2, <1>4, PowerIs
<1>7. wk < bits
  <2>1. Power(2, wk) < Power(2, bits)
    BY <1>1, <1>4, <1>5, <1>6
  <2> QED
    BY <1>4, <2>1, PowerReflects
<1>8. bits - 1 < wn
  <2>1. Power(2, bits - 1) < Power(2, wn)
    BY <1>1, <1>4, <1>5, <1>6
  <2> DEFINE k == bits - 1
  <2>2. k \in Nat
    BY <1>2
  <2> HIDE DEF k
  <2>3. Power(2, k) < Power(2, wn)
    BY <2>1 DEF k
  <2>4. k < wn
    BY <1>4, <2>2, <2>3, PowerReflects
  <2> QED
    BY <2>4 DEF k
<1>9. (bits + W - 1) \div W = n
  <2> DEFINE r == bits - wk - 1
             u == bits + W - 1
  <2>1. r \in Nat /\ r < W /\ u = wn + r
    BY <1>2, <1>3, <1>4, <1>7, <1>8
  <2>2. u = W * n + r
    BY <2>1 DEF wn
  <2>4. r \in Nat /\ r < W /\ W \in Nat \ {0} /\ n \in Nat /\ u = W * n + r /\ u \in Int /\ n \in Int
    BY <1>1, <1>2, <2>1, <2>2
  <2> HIDE DEF r, u
  <2>3. u \div W = n
    BY <2>4, DivisionUnique
  <2> QED
    BY <2>3 DEF u
<1>10. bits <= wn
  BY <1>4, <1>8
<1> QED
  BY <1>7, <1>9, <1>10 DEF LimbsFor, n, wn, wk

(***************************************************************************)
(* The bits in use are those of the value.                                 *)
(***************************************************************************)
LEMMA BitsAre ==
  ASSUME NEW n, NumOK(n), n.s # 0
  PROVE  /\ Len(n.d) > 0 /\ Bits(n) \in Nat /\ Bits(n) > 0
         /\ Power(2, Bits(n) - 1) <= Magnitude(n.d) /\ Magnitude(n.d) < Power(2, Bits(n))
         /\ W * (Len(n.d) - 1) < Bits(n) /\ Bits(n) <= W * Len(n.d)
<1> DEFINE d == n.d
           l == Len(d)
           x == d[l]
           k == BitLen(x)
           u == LowValues(d)[l - 1]
           p == Power(Base, l - 1)
           v == Magnitude(d)
           w == W * (l - 1)
<1>1. d \in Seq(Limb) /\ Normal(d) /\ l \in Nat /\ l > 0
  BY NumParts
<1>2. /\ l - 1 \in Nat /\ x \in Limb /\ u \in Nat /\ u < p /\ v = u + x * p /\ x # 0
  BY <1>1, TopLimb DEF Normal
<1>3. p \in Nat /\ p = Power(2, w) /\ w \in Nat
  <2> DEFINE j == l - 1
  <2>1. j \in Nat
    BY <1>2
  <2> HIDE DEF j
  <2>2. Power(Base, j) \in Nat /\ Power(Base, j) = Power(2, W * j) /\ W * j \in Nat
    BY <2>1, Places, BitPlaces
  <2> QED
    BY <2>2 DEF j
<1>4. x \in Nat /\ x > 0
  BY <1>2, LimbsAreInts
<1>5. k \in Nat /\ k > 0 /\ x < Power(2, k) /\ Power(2, k - 1) <= x
  <2> HIDE DEF x
  <2> QED
    BY <1>4, DigitCountBounds DEF BitLen
<1>6. Bits(n) = w + k
  BY DEF Bits
<1> HIDE DEF d, l, x, k, u, p, v, w
<1> DEFINE q == Power(2, k)
           h == Power(2, k - 1)
           t == w + k
<1>7. q \in Nat /\ h \in Nat
  <2> DEFINE j == k - 1
  <2>1. j \in Nat
    BY <1>5
  <2> HIDE DEF j
  <2>2. Power(2, k) \in Nat /\ Power(2, j) \in Nat
    BY <1>5, <2>1, PowerIs
  <2> QED
    BY <2>2 DEF j
<1>8. Power(2, t) = p * q
  BY <1>3, <1>5, PowerAdds
<1>9. Power(2, t - 1) = p * h
  <2> DEFINE j == k - 1
  <2>1. j \in Nat /\ t - 1 = w + j
    BY <1>3, <1>5
  <2> HIDE DEF j, t
  <2>2. Power(2, w + j) = p * Power(2, j)
    BY <1>3, <2>1, PowerAdds
  <2> QED
    BY <2>1, <2>2 DEF j
<1>10. x < q /\ h <= x
  BY <1>5
<1> HIDE DEF q, h
<1>11. v < p * q
  <2>1. (x + 1) * p <= q * p
    BY <1>3, <1>4, <1>7, <1>10
  <2>2. (x + 1) * p = x * p + p /\ x * p \in Nat /\ q * p = p * q /\ p * q \in Nat
    BY <1>3, <1>4, <1>7
  <2> QED
    BY <1>2, <1>3, <2>1, <2>2
<1>12. p * h <= v
  <2>1. h * p <= x * p
    BY <1>3, <1>4, <1>7, <1>10
  <2>2. x * p \in Nat /\ h * p = p * h /\ h * p \in Nat
    BY <1>3, <1>4, <1>7
  <2> QED
    BY <1>2, <2>1, <2>2
<1>13. t \in Nat /\ t > 0
  BY <1>3, <1>5
<1>14. Power(2, t - 1) <= v /\ v < Power(2, t)
  BY <1>8, <1>9, <1>11, <1>12
<1> HIDE DEF t
<1>15. W * (Len(d) - 1) < t /\ t <= W * Len(d)
  BY <1>1, <1>13, <1>14, LimbsForBits DEF v, l
<1> QED
  BY <1>1, <1>6, <1>13, <1>14, <1>15 DEF d, l, v, t

-----------------------------------------------------------------------------
(* Sums and differences.                                                   *)

(***************************************************************************)
(* Of limbs of the same length those with the larger top limb are worth    *)
(* more.                                                                   *)
(***************************************************************************)
LEMMA LargerTop ==
  ASSUME NEW d \in Seq(Limb), NEW e \in Seq(Limb), Len(d) = Len(e), Len(d) > 0,
         d[Len(d)] < e[Len(e)]
  PROVE  Magnitude(d) < Magnitude(e)
<1> DEFINE x == d[Len(d)]
           y == e[Len(e)]
           p == Power(Base, Len(d) - 1)
           u == LowValues(d)[Len(d) - 1]
           v == LowValues(e)[Len(e) - 1]
           X == Magnitude(d)
           Y == Magnitude(e)
<1>1. /\ x \in Limb /\ y \in Limb /\ Len(d) - 1 \in Nat /\ u \in Nat /\ v \in Nat
      /\ u < p /\ X = u + x * p /\ Y = v + y * p /\ x < y
  <2>1. Len(d) - 1 \in Nat /\ x \in Limb /\ u \in Nat /\ u < p /\ X = u + x * p
    BY TopLimb
  <2>2. Len(e) - 1 \in Nat /\ y \in Limb /\ v \in Nat /\ Y = v + y * p
    BY TopLimb
  <2> QED
    BY <2>1, <2>2
<1>2. p \in Nat /\ x \in Nat /\ y \in Nat
  <2> DEFINE j == Len(d) - 1
  <2>1. j \in Nat
    BY <1>1
  <2> HIDE DEF j
  <2>2. Power(Base, j) \in Nat
    BY <2>1, Places
  <2> QED
    BY <1>1, <2>2, LimbsAreInts DEF j
<1> HIDE DEF x, y, p, u, v, X, Y
<1>3. (x + 1) * p <= y * p /\ (x + 1) * p = x * p + p /\ x * p \in Nat /\ y * p \in Nat
  <2>1. (x + 1) * p <= y * p
    BY <1>1, <1>2
  <2>2. (x + 1) * p = x * p + p
    BY <1>2
  <2>3. x * p \in Nat /\ y * p \in Nat
    BY <1>2
  <2> QED
    BY <2>1, <2>2, <2>3
<1>4. X < Y
  BY <1>1, <1>2, <1>3
<1> QED
  BY <1>4 DEF X, Y

(***************************************************************************)
(* The longer number, or the one with the larger top limb, is the larger   *)
(* one.                                                                    *)
(***************************************************************************)
LEMMA LongerIsLarger ==
  ASSUME NEW d, NEW e, Normal(d), Normal(e), Len(e) < Len(d)
  PROVE  Magnitude(e) < Magnitude(d)
<1> DEFINE n == Len(d)
           k == Len(e)
           j == n - 1
           X == Magnitude(d)
           Y == Magnitude(e)
<1>1. n \in Nat /\ k \in Nat /\ X \in Nat /\ Y \in Nat /\ Y < Power(Base, k)
  BY NormalBounds
<1>2. n > 0 /\ k <= j /\ j \in Nat
  BY <1>1
<1>3. Power(Base, j) <= X
  BY <1>2, NormalBounds
<1> HIDE DEF X, Y, j, k
<1>4. Power(Base, k) <= Power(Base, j)
  BY <1>1, <1>2, Places, PowerMonotone
<1>5. Power(Base, k) \in Nat /\ Power(Base, j) \in Nat
  BY <1>1, <1>2, Places
<1>6. Y < X
  BY <1>1, <1>3, <1>4, <1>5
<1> QED
  BY <1>6 DEF X, Y

\* A call gave the number with these limbs and this sign.
Gave(got, negative, d) == got.is = "number" /\ got.n = Number(negative, d) /\ Normal(d)

(***************************************************************************)
(* number_add and number_sub with operands of the same sign.               *)
(***************************************************************************)
LEMMA SumExact ==
  ASSUME NEW x, NEW y, NumOK(x), NumOK(y), Len(y.d) <= Len(x.d), NEW limbs
  PROVE  /\ \E d : Gave(Sum(x, y, limbs), x.s < 0, d) /\ Magnitude(d) = Magnitude(x.d) + Magnitude(y.d)
         /\ Sum(x, y, limbs).over = (Len(x.d) + 1 > 4 * limbs)
<1> DEFINE n == Len(x.d)
           X == Magnitude(x.d)
           Y == Magnitude(y.d)
           sum == AddLimbs(x.d, y.d, 0)
           s == sum.d
           c == sum.c
           d == IF c = 0 THEN s ELSE Append(s, c)
           p == Power(Base, n)
<1>1. x.d \in Seq(Limb) /\ y.d \in Seq(Limb) /\ Normal(x.d) /\ Normal(y.d)
  BY NumParts
<1>2. n \in Nat /\ X \in Nat /\ Y \in Nat /\ p \in Nat /\ Y < p
  <2>1. n \in Nat /\ X \in Nat /\ Y \in Nat /\ Len(y.d) \in Nat /\ Y < Power(Base, Len(y.d))
    BY <1>1, NormalBounds
  <2>2. p \in Nat /\ Power(Base, Len(y.d)) \in Nat /\ Power(Base, Len(y.d)) <= p
    BY <2>1, Places, PowerMonotone
  <2> QED
    BY <2>1, <2>2
<1>3. s \in Seq(Limb) /\ Len(s) = n /\ c \in Limb /\ Magnitude(s) + p * c = X + Y
  BY <1>1, AddLimbsExact
<1>4. Magnitude(s) \in Nat /\ c \in Nat
  BY <1>3, MagnitudeBelow, LimbsAreInts
<1>5. Normal(d) /\ Magnitude(d) = X + Y
  <2> HIDE DEF sum, s, c
  <2>1. CASE c = 0
    <3>1. d = s
      BY <2>1
    <3>2. Magnitude(s) = X + Y
      BY <1>2, <1>3, <1>4, <2>1
    <3>3. ASSUME n > 0 PROVE s[n] # 0
      <4>1. n - 1 \in Nat /\ Power(Base, n - 1) <= X
        BY <1>1, <1>2, <3>3, NormalBounds
      <4>2. Power(Base, n - 1) <= Magnitude(s)
        <5> DEFINE j == n - 1
        <5>1. j \in Nat
          BY <4>1
        <5> HIDE DEF j
        <5>2. Power(Base, j) \in Nat
          BY <5>1, Places
        <5>3. Power(Base, n - 1) \in Nat
          BY <5>2 DEF j
        <5> HIDE DEF X, Y
        <5> QED
          BY <1>2, <3>2, <4>1, <5>3
      <4> QED
        BY <1>3, <3>3, <4>2, TopLimb
    <3> QED
      BY <1>3, <3>1, <3>2, <3>3 DEF Normal
  <2>2. CASE c # 0
    <3>1. d = Append(s, c)
      BY <2>2
    <3>2. d \in Seq(Limb) /\ Len(d) = n + 1 /\ d[n + 1] = c /\ Magnitude(d) = Magnitude(s) + c * p
      BY <1>3, <3>1, OnTop
    <3> HIDE DEF d
    <3>3. c * p = p * c
      BY <1>2, <1>4
    <3>4. Magnitude(d) = X + Y
      BY <1>3, <3>2, <3>3
    <3> QED
      BY <2>2, <3>2, <3>4 DEF Normal
  <2> QED
    BY <2>1, <2>2
<1>6. Sum(x, y, limbs) = Made(Number(x.s < 0, d), Len(x.d) + 1, limbs)
  BY DEF Sum
<1> HIDE DEF d
<1>7. Gave(Sum(x, y, limbs), x.s < 0, d) /\ Sum(x, y, limbs).over = (Len(x.d) + 1 > 4 * limbs)
  BY <1>5, <1>6 DEF Gave, Made, Room
<1> QED
  BY <1>5, <1>7

\* What the result of Difference is off by, without its sign.
Slip(x, y) == IF TopTie(x, y) THEN Power(Base, Len(x.d)) ELSE 0

(***************************************************************************)
(* number_add and number_sub with operands of different signs.             *)
(***************************************************************************)
LEMMA DifferenceExact ==
  ASSUME NEW x, NEW y, NumOK(x), NumOK(y), Len(y.d) <= Len(x.d), NEW limbs, (x.s < 0) # (y.s < 0)
  PROVE  /\ \E d : \/ /\ Gave(Difference(x, y, limbs), x.s < 0, d)
                      /\ Magnitude(d) = Magnitude(x.d) - Magnitude(y.d) + Slip(x, y)
                   \/ /\ Gave(Difference(x, y, limbs), ~(x.s < 0), d)
                      /\ Magnitude(d) = Magnitude(y.d) - Magnitude(x.d)
                      /\ Slip(x, y) = 0
         /\ Difference(x, y, limbs).over = (Len(x.d) > 4 * limbs)
<1> DEFINE n == Len(x.d)
           k == Len(y.d)
           X == Magnitude(x.d)
           Y == Magnitude(y.d)
           swap == n = k /\ x.d[n] < y.d[n]
           s == IF swap THEN SubLimbs(y.d, x.d) ELSE SubLimbs(x.d, y.d)
           d == Trimmed(s)
<1>1. x.d \in Seq(Limb) /\ y.d \in Seq(Limb) /\ Normal(x.d) /\ Normal(y.d)
  BY NumParts
<1>2. n \in Nat /\ k \in Nat /\ X \in Nat /\ Y \in Nat /\ n > 0
  <2>1. n \in Nat /\ k \in Nat /\ X \in Nat /\ Y \in Nat
    BY <1>1, NormalBounds
  <2>2. x.s < 0 \/ y.s < 0
    OBVIOUS
  <2>3. x.s < 0 => n > 0
    BY NumParts
  <2>4. y.s < 0 => k > 0
    BY NumParts
  <2> QED
    BY <2>1, <2>2, <2>3, <2>4
<1>3. Difference(x, y, limbs) = Made(Number((x.s < 0) # swap, d), n, limbs)
  BY DEF Difference
<1>4. Difference(x, y, limbs).over = (n > 4 * limbs)
  BY <1>3 DEF Made, Room
<1>5. CASE swap
  <2>1. s = SubLimbs(y.d, x.d)
    BY <1>5
  <2>2. X < Y
    BY <1>1, <1>2, <1>5, LargerTop
  <2>3. s \in Seq(Limb) /\ Magnitude(s) = Y - X + (IF Y < X THEN Power(Base, k) ELSE 0)
    BY <1>1, <1>5, <2>1, SubLimbsExact
  <2> HIDE DEF s
  <2>4. Normal(d) /\ Magnitude(d) = Magnitude(s)
    BY <2>3, TrimmedIs
  <2> HIDE DEF d
  <2>5. Magnitude(d) = Y - X
    BY <1>2, <2>2, <2>3, <2>4
  <2>6. ~TopTie(x, y)
    <3>1. x.d[n] \in Limb /\ y.d[n] \in Limb
      BY <1>1, <1>2, <1>5, LimbsAreInts
    <3>3. x.d[n] \in Nat /\ y.d[n] \in Nat /\ x.d[n] < y.d[n]
      BY <1>5, <3>1, LimbsAreInts
    <3>2. x.d[n] # y.d[n]
      BY <3>3
    <3> QED
      BY <1>5, <3>2 DEF TopTie, Last
  <2>7. ((x.s < 0) # swap) = ~(x.s < 0)
    BY <1>5
  <2>8. Gave(Difference(x, y, limbs), ~(x.s < 0), d)
    BY <1>3, <2>4, <2>7 DEF Gave, Made
  <2> QED
    BY <1>4, <2>5, <2>6, <2>8 DEF Slip
<1>6. CASE ~swap
  <2>1. s = SubLimbs(x.d, y.d)
    BY <1>6
  <2>2. s \in Seq(Limb) /\ Magnitude(s) = X - Y + (IF X < Y THEN Power(Base, n) ELSE 0)
    BY <1>1, <2>1, SubLimbsExact
  <2> HIDE DEF s
  <2>3. Normal(d) /\ Magnitude(d) = Magnitude(s)
    BY <2>2, TrimmedIs
  <2> HIDE DEF d
  <2>4. X < Y <=> TopTie(x, y)
    <3>1. TopTie(x, y) => X < Y
      BY DEF TopTie
    <3>2. ASSUME X < Y PROVE TopTie(x, y)
      <4>1. n = k
        <5>1. ASSUME k < n PROVE FALSE
          <6>1. Y < X
            BY <1>1, <5>1, LongerIsLarger
          <6> QED
            BY <1>2, <3>2, <6>1
        <5> QED
          BY <1>2, <5>1
      <4>2. x.d[n] \in Limb /\ y.d[n] \in Limb
        BY <1>1, <1>2, <4>1, LimbsAreInts
      <4>3. x.d[n] \in Nat /\ y.d[n] \in Nat
        BY <4>2, LimbsAreInts
      <4>4. ~(y.d[n] < x.d[n])
        <5>1. ASSUME y.d[n] < x.d[n] PROVE FALSE
          <6>1. Y < X
            BY <1>1, <1>2, <4>1, <5>1, LargerTop
          <6> QED
            BY <1>2, <3>2, <6>1
        <5> QED
          BY <5>1
      <4>5. ~(x.d[n] < y.d[n])
        BY <1>6, <4>1
      <4>6. x.d[n] = y.d[n]
        BY <4>3, <4>4, <4>5
      <4> QED
        BY <3>2, <4>1, <4>6 DEF TopTie, Last
    <3> QED
      BY <3>1, <3>2
  <2>5. Magnitude(d) = X - Y + Slip(x, y)
    BY <2>2, <2>3, <2>4 DEF Slip
  <2>6. ((x.s < 0) # swap) = (x.s < 0)
    BY <1>6
  <2>7. Gave(Difference(x, y, limbs), x.s < 0, d)
    BY <1>3, <2>3, <2>6 DEF Gave, Made
  <2> QED
    BY <1>4, <2>5, <2>7
<1> QED
  BY <1>5, <1>6

\* What a call that gave a number gave.
LEMMA GaveValue ==
  ASSUME NEW got, NEW negative \in BOOLEAN, NEW d, Gave(got, negative, d)
  PROVE  /\ got.is = "number" /\ NumOK(got.n) /\ Magnitude(d) \in Nat
         /\ Value(got.n) = IF negative THEN -Magnitude(d) ELSE Magnitude(d)
<1>1. got.is = "number" /\ got.n = Number(negative, d) /\ Normal(d)
  BY DEF Gave
<1>2. Magnitude(d) \in Nat
  BY <1>1, NormalBounds
<1> QED
  BY <1>1, <1>2, NumberIs

\* The value of a number is its magnitude, with its sign.
LEMMA ValueIs ==
  ASSUME NEW n, NumOK(n)
  PROVE  /\ Magnitude(n.d) \in Nat /\ Value(n) \in Int /\ n.s \in Int /\ (n.s < 0) \in BOOLEAN
         /\ n.s < 0 => Value(n) = -Magnitude(n.d) /\ Magnitude(n.d) > 0
         /\ ~(n.s < 0) => Value(n) = Magnitude(n.d)
<1>1. Magnitude(n.d) \in Nat /\ n.s \in Int /\ Normal(n.d) /\ Len(n.d) \in Nat /\ (n.s < 0 => n.s = -Len(n.d))
  BY NumParts
<1>2. n.s < 0 => Magnitude(n.d) > 0
  BY <1>1, NormalBounds
<1> QED
  BY <1>1, <1>2 DEF Value

(***************************************************************************)
(* number_add and number_sub once the operands are in order: the result is *)
(* the sum, off by what Off says.                                          *)
(***************************************************************************)
LEMMA CombineExact ==
  ASSUME NEW x, NEW y, NumOK(x), NumOK(y), Len(y.d) <= Len(x.d), NEW limbs
  PROVE  /\ Combine(x, y, limbs).is = "number" /\ NumOK(Combine(x, y, limbs).n)
         /\ Value(Combine(x, y, limbs).n) = Value(x) + Value(y) + Off(x, y)
         /\ Combine(x, y, limbs).over => (Len(x.d) > 4 * limbs \/ Len(x.d) + 1 > 4 * limbs)
<1> DEFINE X == Magnitude(x.d)
           Y == Magnitude(y.d)
           got == Combine(x, y, limbs)
           v == Value(got.n)
           p == Power(Base, Len(x.d))
<1>1. /\ X \in Nat /\ Y \in Nat /\ (x.s < 0) \in BOOLEAN /\ (y.s < 0) \in BOOLEAN
      /\ Value(x) = IF x.s < 0 THEN -X ELSE X
      /\ Value(y) = IF y.s < 0 THEN -Y ELSE Y
  BY ValueIs
<1>2. p \in Nat
  <2>1. Len(x.d) \in Nat
    BY NumParts
  <2> QED
    BY <2>1, Places
<1>3. CASE (x.s < 0) # (y.s < 0)
  <2>1. got = Difference(x, y, limbs)
    BY <1>3 DEF Combine
  <2>2. got.over = (Len(x.d) > 4 * limbs)
    BY <1>3, <2>1, DifferenceExact
  <2>3. PICK d : \/ Gave(got, x.s < 0, d) /\ Magnitude(d) = X - Y + Slip(x, y)
                 \/ Gave(got, ~(x.s < 0), d) /\ Magnitude(d) = Y - X /\ Slip(x, y) = 0
    BY <1>3, <2>1, DifferenceExact
  <2> HIDE DEF got
  <2> DEFINE D == Magnitude(d)
             S == Slip(x, y)
  <2>4. S \in Nat /\ Off(x, y) = (IF x.s < 0 THEN -S ELSE S)
    <3>1. S = IF TopTie(x, y) THEN p ELSE 0
      BY DEF Slip
    <3>2. Off(x, y) = IF TopTie(x, y) THEN (IF x.s < 0 THEN -1 ELSE 1) * p ELSE 0
      BY DEF Off
    <3> HIDE DEF p, S
    <3>3. (-1) * p = -p
      BY <1>2
    <3>4. 1 * p = p
      BY <1>2
    <3>5. CASE TopTie(x, y)
      BY <1>2, <3>1, <3>2, <3>3, <3>4, <3>5
    <3>6. CASE ~TopTie(x, y)
      <4>1. S = 0 /\ Off(x, y) = 0
        BY <3>1, <3>2, <3>6
      <4>2. S \in Nat /\ ~(S > 0)
        BY <4>1
      <4>3. Off(x, y) \in Int /\ ~(Off(x, y) > 0) /\ ~(Off(x, y) < 0)
        BY <4>1
      <4> HIDE <4>1
      <4> DEFINE o == Off(x, y)
      <4>4. o \in Int /\ ~(o > 0) /\ ~(o < 0)
        BY <4>3
      <4> HIDE DEF o
      <4>5. o = -S /\ o = S
        BY <4>2, <4>4
      <4> QED
        BY <4>2, <4>5 DEF o
    <3> QED
      BY <3>5, <3>6
  <2>5. CASE Gave(got, x.s < 0, d) /\ D = X - Y + S
    <3>1. got.is = "number" /\ NumOK(got.n) /\ D \in Nat /\ v = IF x.s < 0 THEN -D ELSE D
      BY <1>1, <2>5, GaveValue
    <3> HIDE DEF X, Y, D, S, v
    <3>2. v = Value(x) + Value(y) + Off(x, y)
      BY <1>1, <1>3, <2>4, <2>5, <3>1
    <3> QED
      BY <2>2, <3>1, <3>2 DEF v, got
  <2>6. CASE Gave(got, ~(x.s < 0), d) /\ D = Y - X /\ S = 0
    <3>1. got.is = "number" /\ NumOK(got.n) /\ D \in Nat /\ v = IF ~(x.s < 0) THEN -D ELSE D
      BY <1>1, <2>6, GaveValue
    <3> HIDE DEF X, Y, D, S, v
    <3>2. v = Value(x) + Value(y) + Off(x, y)
      BY <1>1, <1>3, <2>4, <2>6, <3>1
    <3> QED
      BY <2>2, <3>1, <3>2 DEF v, got
  <2> QED
    BY <2>3, <2>5, <2>6
<1>4. CASE (x.s < 0) = (y.s < 0)
  <2>1. got = Sum(x, y, limbs)
    BY <1>4 DEF Combine
  <2>2. got.over = (Len(x.d) + 1 > 4 * limbs)
    BY <2>1, SumExact
  <2>3. PICK d : Gave(got, x.s < 0, d) /\ Magnitude(d) = X + Y
    BY <2>1, SumExact
  <2> HIDE DEF got
  <2> DEFINE D == Magnitude(d)
  <2>4. got.is = "number" /\ NumOK(got.n) /\ D \in Nat /\ v = IF x.s < 0 THEN -D ELSE D
    BY <1>1, <2>3, GaveValue
  <2>5. Off(x, y) = 0
    BY <1>4 DEF Off, TopTie
  <2>6. D = X + Y
    BY <2>3
  <2> HIDE DEF X, Y, D, v
  <2>7. v = Value(x) + Value(y) + Off(x, y)
    BY <1>1, <1>4, <2>4, <2>5, <2>6
  <2> QED
    BY <2>2, <2>4, <2>7 DEF v, got
<1> QED
  BY <1>3, <1>4

(***************************************************************************)
(* The longer operand is put in front, whichever it is.                    *)
(***************************************************************************)
LEMMA OrderedExact ==
  ASSUME NEW x, NEW y, NumOK(x), NumOK(y), NEW limbs
  PROVE  /\ NumOK(Longer(x, y)) /\ NumOK(Shorter(x, y))
         /\ Combine(Longer(x, y), Shorter(x, y), limbs).is = "number"
         /\ NumOK(Combine(Longer(x, y), Shorter(x, y), limbs).n)
         /\ Value(Combine(Longer(x, y), Shorter(x, y), limbs).n) = Value(x) + Value(y) + Off(x, y)
         /\ Combine(Longer(x, y), Shorter(x, y), limbs).over =>
              (Len(Longer(x, y).d) > 4 * limbs \/ Len(Longer(x, y).d) + 1 > 4 * limbs)
<1>1. Len(x.d) \in Nat /\ Len(y.d) \in Nat /\ Value(x) \in Int /\ Value(y) \in Int
  BY NumParts, ValueIs
<1>2. CASE Len(x.d) < Len(y.d)
  <2>1. Longer(x, y) = y /\ Shorter(x, y) = x /\ Len(x.d) <= Len(y.d)
    BY <1>1, <1>2 DEF Longer, Shorter
  <2>2. Off(x, y) = 0 /\ Off(y, x) = 0
    BY <1>1, <1>2 DEF Off, TopTie
  <2>3. Value(y) + Value(x) + Off(y, x) = Value(x) + Value(y) + Off(x, y)
    BY <1>1, <2>2
  <2> QED
    BY <2>1, <2>3, CombineExact
<1>3. CASE ~(Len(x.d) < Len(y.d))
  <2>1. Longer(x, y) = x /\ Shorter(x, y) = y /\ Len(y.d) <= Len(x.d)
    BY <1>1, <1>3 DEF Longer, Shorter
  <2> QED
    BY <2>1, CombineExact
<1> QED
  BY <1>2, <1>3

(***************************************************************************)
(* number_add: the result is the sum, off by what Off says, and room is    *)
(* short only if the longer operand is negative.                           *)
(***************************************************************************)
THEOREM AddExact ==
  ASSUME NEW x, NEW y, NumOK(x), NumOK(y)
  PROVE  /\ NumOK(Add(x, y).n)
         /\ Add(x, y).is = "number" => Value(Add(x, y).n) = Value(x) + Value(y) + Off(x, y)
         /\ Add(x, y).is = "error" \/ Add(x, y).over => Longer(x, y).s < 0
<1> DEFINE l == Longer(x, y)
           limbs == l.s + 1
           n == Len(l.d)
           com == Combine(l, Shorter(x, y), limbs)
<1>1. NumOK(l)
  BY OrderedExact
<1>2. n \in Nat /\ l.s \in Int /\ (l.s >= 0 => l.s = n)
  BY <1>1, NumParts
<1>3. com.is = "number" /\ NumOK(com.n) /\ Value(com.n) = Value(x) + Value(y) + Off(x, y)
  BY OrderedExact
<1>4. com.over => (n > 4 * limbs \/ n + 1 > 4 * limbs)
  BY OrderedExact
<1>5. CASE limbs < 0
  <2>1. Add(x, y) = Refused
    BY <1>5 DEF Add
  <2>2. l.s < 0
    BY <1>2, <1>5
  <2> QED
    BY <2>1, <2>2, ZeroOK DEF Refused
<1>6. CASE ~(limbs < 0)
  <2>1. Add(x, y) = com
    BY <1>6 DEF Add
  <2>2. com.over => l.s < 0
    <3> DEFINE s == l.s
    <3>1. n \in Nat /\ s \in Int /\ (s >= 0 => s = n)
      BY <1>2
    <3>2. com.over => (n > 4 * (s + 1) \/ n + 1 > 4 * (s + 1))
      BY <1>4
    <3> HIDE DEF n, s, com
    <3>3. com.over => s < 0
      BY <3>1, <3>2
    <3> QED
      BY <3>3 DEF s
  <2> HIDE DEF com
  <2> QED
    BY <1>3, <2>1, <2>2
<1> QED
  BY <1>5, <1>6

\* The number with the other sign, as ResultsExact has it.
Negated(n) == [n EXCEPT !.s = -@]

\* The operand that number_sub negates is in order and has the negated value.
LEMMA NegatedIs ==
  ASSUME NEW n, NumOK(n)
  PROVE  NumOK(Negated(n)) /\ Value(Negated(n)) = -Value(n)
<1> DEFINE m == Negated(n)
<1>1. /\ n.s \in Int /\ n.d \in Seq(Limb) /\ Len(n.d) \in Nat /\ n = [s |-> n.s, d |-> n.d]
      /\ n.s = 0 <=> Len(n.d) = 0
      /\ n \in [s : Int, d : Seq(Limb)]
  BY NumParts DEF NumOK
<1>2. m.s = -n.s /\ m.d = n.d /\ m \in [s : Int, d : Seq(Limb)]
  BY <1>1 DEF Negated
<1>3. Abs(n.s) = Len(n.d) /\ (n.s # 0 => Last(n.d) # 0)
  BY DEF NumOK
<1>4. Abs(m.s) = Len(m.d)
  BY <1>1, <1>2, <1>3 DEF Abs
<1>5. m.s # 0 => Last(m.d) # 0
  BY <1>1, <1>2, <1>3
<1>6. NumOK(m)
  BY <1>2, <1>4, <1>5 DEF NumOK
<1>7. /\ Magnitude(n.d) \in Nat
      /\ n.s < 0 => Value(n) = -Magnitude(n.d) /\ Magnitude(n.d) > 0
      /\ ~(n.s < 0) => Value(n) = Magnitude(n.d)
  BY ValueIs
<1>8. /\ m.s < 0 => Value(m) = -Magnitude(n.d) /\ Magnitude(n.d) > 0
      /\ ~(m.s < 0) => Value(m) = Magnitude(n.d)
  BY <1>2, <1>6, ValueIs
<1>9. n.s = 0 => Magnitude(n.d) = 0
  <2>1. ASSUME n.s = 0 PROVE Magnitude(n.d) = 0
    <3>1. ~(Magnitude(n.d) > 0)
      <4>1. Magnitude(n.d) < Power(Base, Len(n.d)) /\ Power(Base, 0) = 1 /\ Len(n.d) = 0
        BY <1>1, <2>1, MagnitudeBelow, Places
      <4> QED
        BY <1>7, <4>1
    <3> QED
      BY <1>7, <3>1
  <2> QED
    BY <2>1
<1> HIDE DEF m
<1>10. Value(m) = -Value(n)
  <2> DEFINE M == Magnitude(n.d)
             v == Value(n)
             w == Value(m)
             s == n.s
             t == m.s
  <2>1. /\ M \in Nat /\ s \in Int /\ t = -s
        /\ s < 0 => v = -M /\ M > 0
        /\ ~(s < 0) => v = M
        /\ t < 0 => w = -M /\ M > 0
        /\ ~(t < 0) => w = M
        /\ s = 0 => M = 0
    BY <1>1, <1>2, <1>7, <1>8, <1>9
  <2> HIDE DEF M, v, w, s, t
  <2>2. w = -v
    <3>1. CASE s < 0
      BY <2>1, <3>1
    <3>2. CASE s = 0
      <4>1. ~(s < 0) /\ ~(s > 0) /\ v = M /\ ~(M > 0)
        BY <2>1, <3>2
      <4>2. ~(t < 0) /\ w = M
        BY <2>1, <4>1
      <4> QED
        BY <2>1, <4>1, <4>2
    <3>3. CASE s > 0
      BY <2>1, <3>3
    <3> QED
      BY <2>1, <3>1, <3>2, <3>3
  <2> QED
    BY <2>2 DEF v, w
<1> QED
  BY <1>6, <1>10 DEF m

(***************************************************************************)
(* number_sub: the result is the difference, off by what Off says, and     *)
(* there is always room for it.                                            *)
(***************************************************************************)
THEOREM SubExact ==
  ASSUME NEW x, NEW y, NumOK(x), NumOK(y)
  PROVE  /\ Sub(x, y).is = "number" /\ NumOK(Sub(x, y).n) /\ ~Sub(x, y).over
         /\ Value(Sub(x, y).n) = Value(x) - Value(y) + Off(x, Negated(y))
<1> DEFINE neg == Negated(y)
           l == Longer(x, neg)
           n == Len(l.d)
           limbs == n + 1
           com == Combine(l, Shorter(x, neg), limbs)
<1>1. NumOK(neg) /\ Value(neg) = -Value(y)
  BY NegatedIs
<1>2. Sub(x, y) = com
  BY DEF Sub, Negated
<1> HIDE DEF neg
<1>3. NumOK(l)
  BY <1>1, OrderedExact
<1>4. n \in Nat
  BY <1>3, NumParts
<1>5. /\ com.is = "number" /\ NumOK(com.n) /\ Value(com.n) = Value(x) + Value(neg) + Off(x, neg)
      /\ com.over => (n > 4 * limbs \/ n + 1 > 4 * limbs)
  BY <1>1, OrderedExact
<1>6. ~com.over
  <2> HIDE DEF n, com
  <2> QED
    BY <1>4, <1>5
<1>7. Value(x) \in Int /\ Value(y) \in Int
  BY ValueIs
<1>8. Value(x) + Value(neg) = Value(x) - Value(y)
  BY <1>1, <1>7
<1> HIDE DEF com
<1>9. Value(com.n) = Value(x) - Value(y) + Off(x, neg)
  BY <1>5, <1>8
<1> QED
  BY <1>2, <1>5, <1>6, <1>9 DEF neg

-----------------------------------------------------------------------------
(* Shifts to the left.                                                     *)

\* The limbs with the carry on top of them, unless it is 0.
WithCarry(d, c) == IF c = 0 THEN d ELSE Append(d, c)

(***************************************************************************)
(* The carry on top: what the limbs and it are worth, and no zero at the   *)
(* top if that is enough.                                                  *)
(***************************************************************************)
LEMMA WithCarryIs ==
  ASSUME NEW d \in Seq(Limb), NEW c \in Limb, NEW v, v = Magnitude(d) + Power(Base, Len(d)) * c,
         Len(d) > 0 => Power(Base, Len(d) - 1) <= v
  PROVE  /\ Normal(WithCarry(d, c)) /\ Magnitude(WithCarry(d, c)) = v
         /\ Len(WithCarry(d, c)) = Len(d) + (IF c = 0 THEN 0 ELSE 1)
<1> DEFINE n == Len(d)
           p == Power(Base, n)
           M == Magnitude(d)
<1>1. n \in Nat /\ M \in Nat /\ c \in Nat
  BY MagnitudeBelow, LimbsAreInts
<1>2. p \in Nat
  BY <1>1, Places
<1>3. CASE c = 0
  <2>1. WithCarry(d, c) = d
    BY <1>3 DEF WithCarry
  <2>2. M = v
    BY <1>1, <1>2, <1>3
  <2>3. n > 0 => d[n] # 0
    BY <2>2, TopLimb
  <2>4. Normal(d) /\ Len(d) = Len(d) + (IF c = 0 THEN 0 ELSE 1)
    BY <1>1, <1>3, <2>3 DEF Normal
  <2> QED
    BY <2>1, <2>2, <2>4
<1>4. CASE c # 0
  <2>1. WithCarry(d, c) = Append(d, c)
    BY <1>4 DEF WithCarry
  <2>2. /\ Append(d, c) \in Seq(Limb) /\ Len(Append(d, c)) = n + 1 /\ Append(d, c)[n + 1] = c
        /\ Magnitude(Append(d, c)) = M + c * p
    BY OnTop
  <2>3. c * p = p * c
    BY <1>1, <1>2
  <2> QED
    BY <1>4, <2>1, <2>2, <2>3 DEF Normal
<1> QED
  BY <1>3, <1>4

(***************************************************************************)
(* A distance in bits, taken apart into limbs and bits of a limb.          *)
(***************************************************************************)
LEMMA Distance ==
  ASSUME NEW s \in Nat
  PROVE  /\ s \div W \in Nat /\ s % W \in Nat /\ s % W < W /\ s = W * (s \div W) + (s % W)
         /\ Power(2, s % W) \in Limb /\ Power(2, s % W) \in Nat /\ Power(2, s % W) > 0
         /\ Power(2, s) \in Nat /\ Power(2, s) > 0
         /\ Power(2, s) = Power(Base, s \div W) * Power(2, s % W)
<1> DEFINE t == s \div W
           u == s % W
<1>1. W \in Nat \ {0} /\ Base = Power(2, W)
  BY BitPlaces
<1>2. t \in Nat /\ u \in Nat /\ u < W /\ s = W * t + u
  BY <1>1, Division
<1> HIDE DEF t, u
<1>3. Power(2, u) \in Nat /\ Power(2, u) > 0
  BY <1>2, PowerPositive, PowerIs
<1>4. Power(2, u) < Power(2, W)
  BY <1>1, <1>2, PowerGrows, PowerMonotone, PowerReflects, PowerIs
<1>5. Power(2, u) \in Limb
  BY <1>1, <1>3, <1>4, LimbsAreInts
<1>6. W * t \in Nat /\ Power(Base, t) = Power(2, W * t)
  BY <1>2, BitPlaces
<1>7. Power(2, s) = Power(Base, t) * Power(2, u)
  BY <1>2, <1>6, PowerAdds
<1>8. Power(2, s) \in Nat /\ Power(2, s) > 0
  BY PowerPositive, PowerIs
<1> QED
  BY <1>2, <1>3, <1>5, <1>7, <1>8 DEF t, u

(***************************************************************************)
(* Whole limbs of zeros below multiply by a place.                         *)
(***************************************************************************)
LEMMA ZerosAndLimbs ==
  ASSUME NEW t \in Nat, NEW d \in Seq(Limb), NEW c \in Limb, Normal(WithCarry(d, c)),
         Len(WithCarry(d, c)) > 0,
         NEW all, all = [i \in 1 .. t |-> 0] \o d \o (IF c = 0 THEN <<>> ELSE <<c>>)
  PROVE  /\ Normal(all) /\ Len(all) = t + Len(WithCarry(d, c))
         /\ Magnitude(all) = Power(Base, t) * Magnitude(WithCarry(d, c))
<1> DEFINE z == [i \in 1 .. t |-> 0]
           top == IF c = 0 THEN <<>> ELSE <<c>>
           e == WithCarry(d, c)
           n == Len(d)
           zd == z \o d
<1>1. n \in Nat /\ d \in Seq(Limb) /\ \A i \in 1 .. n : d[i] \in Limb
  BY LimbsAreInts
<1>2. z \in Seq(Limb) /\ Len(z) = t /\ \A i \in 1 .. t : z[i] = 0
  <2>1. z \in [1 .. t -> Limb]
    BY LimbsAreInts
  <2>2. \A i \in 1 .. t : z[i] = 0
    OBVIOUS
  <2> HIDE DEF z
  <2> QED
    BY <2>1, <2>2, Tuple
<1>3. top \in Seq(Limb) /\ Len(top) = (IF c = 0 THEN 0 ELSE 1) /\ (c # 0 => top[1] = c)
  OBVIOUS
<1>4. e = IF c = 0 THEN d ELSE Append(d, c)
  BY DEF WithCarry
<1> HIDE DEF z, top
<1>5. /\ zd \in Seq(Limb) /\ Len(zd) = t + n
      /\ \A i \in 1 .. t + n : zd[i] = IF i <= t THEN z[i] ELSE d[i - t]
  <2>1. /\ zd \in Seq(Limb) /\ Len(zd) = Len(z) + Len(d)
        /\ \A i \in 1 .. Len(z) + Len(d) : zd[i] = IF i <= Len(z) THEN z[i] ELSE d[i - Len(z)]
    BY <1>2, ConcatProperties
  <2> QED
    BY <1>2, <2>1
<1>6. all = zd \o top
  BY DEF z, top
<1> HIDE DEF zd
<1>7. /\ all \in Seq(Limb) /\ Len(all) = t + n + Len(top)
      /\ \A i \in 1 .. t + n + Len(top) : all[i] = IF i <= t + n THEN zd[i] ELSE top[i - (t + n)]
  <2>2. zd \in Seq(Limb) /\ top \in Seq(Limb)
    BY <1>3, <1>5
  <2>3. /\ zd \o top \in Seq(Limb) /\ Len(zd \o top) = Len(zd) + Len(top)
        /\ \A i \in 1 .. Len(zd) + Len(top) : (zd \o top)[i] = IF i <= Len(zd) THEN zd[i] ELSE top[i - Len(zd)]
    BY <2>2, ConcatProperties
  <2>1. /\ all \in Seq(Limb) /\ Len(all) = Len(zd) + Len(top)
        /\ \A i \in 1 .. Len(zd) + Len(top) : all[i] = IF i <= Len(zd) THEN zd[i] ELSE top[i - Len(zd)]
    BY <1>6, <2>3
  <2> QED
    BY <1>5, <2>1
<1>8. Len(e) = n + Len(top) /\ e \in Seq(Limb) /\ \A i \in 1 .. Len(e) : e[i] = IF i <= n THEN d[i] ELSE c
  <2>1. CASE c = 0
    BY <1>1, <1>3, <1>4, <2>1
  <2>2. CASE c # 0
    <3>1. e = Append(d, c)
      BY <1>4, <2>2
    <3>2. Len(e) = n + 1 /\ e \in Seq(Limb)
      BY <3>1, AppendProperties
    <3>3. \A i \in 1 .. n + 1 : e[i] = IF i <= n THEN d[i] ELSE c
      BY <1>1, <3>1, AppendProperties
    <3> QED
      BY <1>3, <2>2, <3>2, <3>3
  <2> QED
    BY <2>1, <2>2
<1> HIDE DEF e
<1> DEFINE k == Len(top)
<1>9. k \in {0, 1} /\ (k = 1 => top[1] = c)
  BY <1>3
<1> HIDE DEF k
<1>10. Len(all) = t + Len(e) /\ Len(e) = n + k /\ Len(all) = t + n + k
  BY <1>1, <1>7, <1>8, <1>9 DEF k
<1>11. ASSUME NEW i \in 1 .. Len(e) PROVE all[t + i] = e[i]
  <2>1. t + i \in 1 .. t + n + k
    BY <1>1, <1>9, <1>10
  <2>2. all[t + i] = IF t + i <= t + n THEN zd[t + i] ELSE top[t + i - (t + n)]
    BY <1>7, <2>1 DEF k
  <2>3. CASE i <= n
    <3>1. t + i \in 1 .. t + n /\ ~(t + i <= t) /\ t + i - t = i /\ t + i <= t + n
      BY <1>1, <2>3
    <3>2. zd[t + i] = d[i]
      BY <1>5, <3>1
    <3> QED
      BY <1>8, <2>2, <2>3, <3>1, <3>2
  <2>4. CASE ~(i <= n)
    <3>1. i = n + 1 /\ k = 1
      BY <1>1, <1>9, <1>10, <2>4
    <3>2. t + i - (t + n) = 1 /\ ~(t + i <= t + n)
      BY <1>1, <3>1
    <3>3. all[t + i] = c
      BY <1>9, <2>2, <3>1, <3>2
    <3> QED
      BY <1>8, <2>4, <3>3
  <2> QED
    BY <2>3, <2>4
<1>12. \A i \in 1 .. t : all[i] = 0
  <2>1. ASSUME NEW i \in 1 .. t PROVE all[i] = 0
    <3>1. i \in 1 .. t + n + k /\ i <= t + n /\ i \in 1 .. t + n /\ i <= t
      BY <1>1, <1>9
    <3>2. all[i] = zd[i] /\ zd[i] = z[i]
      BY <1>5, <1>7, <3>1 DEF k
    <3> QED
      BY <1>2, <3>2
  <2> QED
    BY <2>1
<1>13. all \in Seq(Int) /\ e \in Seq(Int) /\ t <= Len(all) /\ Len(e) \in Nat
  <2>1. all \in Seq(Int) /\ e \in Seq(Int)
    BY <1>7, <1>8, LimbsAreInts
  <2> QED
    BY <1>1, <1>9, <1>10, <2>1
<1>14. LowValues(all)[t] = 0
  BY <1>12, <1>13, ZerosBelow
<1>15. Magnitude(all) = Power(Base, t) * Magnitude(e)
  <2>1. Magnitude(all) = LowValues(all)[t] + Power(Base, t) * Magnitude(e)
    BY <1>10, <1>11, <1>13, LowAndHigh
  <2>2. Power(Base, t) \in Nat /\ Magnitude(e) \in Nat
    BY <1>8, Places, MagnitudeBelow
  <2> QED
    BY <1>14, <2>1, <2>2
<1>16. Normal(all)
  <2>1. e[Len(e)] # 0 /\ Len(e) > 0
    BY DEF Normal, e
  <2>2. Len(e) \in 1 .. Len(e)
    BY <1>13, <2>1
  <2>3. all[t + Len(e)] = e[Len(e)]
    BY <1>11, <2>2
  <2> QED
    BY <1>7, <1>10, <2>1, <2>3 DEF Normal
<1> QED
  BY <1>10, <1>15, <1>16 DEF e

(***************************************************************************)
(* number_shl: the value is multiplied by 2^s, in as many limbs as were    *)
(* reckoned.                                                               *)
(***************************************************************************)
THEOREM ShlExact ==
  ASSUME NEW x, NumOK(x), NEW s \in Nat
  PROVE  /\ Shl(x, s).is = "number" /\ NumOK(Shl(x, s).n) /\ ~Shl(x, s).over
         /\ Value(Shl(x, s).n) = Value(x) * Power(2, s)
<1> DEFINE got == Shl(x, s)
           P == Power(2, s)
<1>1. P \in Nat /\ P > 0
  BY Distance
<1>2. CASE x.s = 0
  <2>1. got = Made(x, 0, 0)
    BY <1>2 DEF Shl
  <2>2. got.is = "number" /\ got.n = x /\ ~got.over
    <3>1. ~(0 > Room(0))
      BY DEF Room
    <3> HIDE DEF got
    <3> QED
      BY <2>1, <3>1 DEF Made
  <2>3. Len(x.d) = 0 /\ x.d \in Seq(Limb)
    BY <1>2, NumParts
  <2>4. Magnitude(x.d) = 0
    <3>1. Magnitude(x.d) \in Nat /\ Magnitude(x.d) < Power(Base, Len(x.d)) /\ Power(Base, 0) = 1
      BY <2>3, MagnitudeBelow, Places
    <3> QED
      BY <2>3, <3>1
  <2>5. Value(x) = 0
    BY <1>2, <2>4 DEF Value
  <2>6. 0 * P = 0
    BY <1>1
  <2> QED
    BY <2>2, <2>5, <2>6
<1>3. CASE x.s # 0
  <2> DEFINE d == x.d
             n == Len(d)
             X == Magnitude(d)
             t == s \div W
             m == Power(2, s % W)
             b == Bits(x)
             sh == MulLimbs(d, m)
             e == WithCarry(sh.d, sh.c)
             all == [i \in 1 .. t |-> 0] \o sh.d \o (IF sh.c = 0 THEN <<>> ELSE <<sh.c>>)
             limbs == LimbsFor(b + s)
             v == X * m
  <2>1. d \in Seq(Limb) /\ Normal(d) /\ n \in Nat /\ X \in Nat
    BY NumParts
  <2>2. /\ n > 0 /\ b \in Nat /\ b > 0 /\ Power(2, b - 1) <= X /\ X < Power(2, b)
    BY <1>3, BitsAre
  <2>3. t \in Nat /\ m \in Limb /\ m \in Nat /\ m > 0 /\ P = Power(Base, t) * m
    BY Distance
  <2>4. n - 1 \in Nat /\ Power(Base, n - 1) <= X /\ X > 0 /\ Power(Base, n - 1) \in Nat
    <3>1. n - 1 \in Nat /\ Power(Base, n - 1) <= X /\ X > 0
      BY <2>1, <2>2, NormalBounds
    <3> DEFINE j == n - 1
    <3> HIDE DEF j
    <3>2. j \in Nat
      BY <3>1 DEF j
    <3>3. Power(Base, j) \in Nat
      BY <3>2, Places
    <3> QED
      BY <3>1, <3>3 DEF j
  <2> HIDE DEF t, m, n, X, b
  <2>5. /\ sh.d \in Seq(Limb) /\ Len(sh.d) = n /\ sh.c \in Limb
        /\ Magnitude(sh.d) + Power(Base, n) * sh.c = X * m
    BY <2>1, <2>3, MulLimbsExact DEF n, X
  <2> HIDE DEF sh
  <2>6. v \in Nat /\ X <= v /\ v > 0
    BY <2>1, <2>3, <2>4
  <2>7. v = Magnitude(sh.d) + Power(Base, Len(sh.d)) * sh.c
    BY <2>5
  <2>8. Power(Base, Len(sh.d) - 1) <= v
    <3> DEFINE p == Power(Base, n - 1)
    <3>1. p \in Nat /\ p <= X
      BY <2>4
    <3> HIDE DEF p, v
    <3>2. p <= v
      BY <2>1, <2>6, <3>1
    <3> QED
      BY <2>5, <3>2 DEF p
  <2> HIDE DEF v
  <2>9. Normal(e) /\ Magnitude(e) = v /\ Len(e) = n + (IF sh.c = 0 THEN 0 ELSE 1)
    BY <2>5, <2>7, <2>8, WithCarryIs
  <2>10. Len(e) > 0
    BY <2>1, <2>2, <2>9
  <2>11. Normal(all) /\ Len(all) = t + Len(e) /\ Magnitude(all) = Power(Base, t) * v
    BY <2>3, <2>5, <2>9, <2>10, ZerosAndLimbs, ZenonT(40)
  <2>12. Len(e) \in Nat /\ Len(all) \in Nat /\ Len(all) > 0 /\ all \in Seq(Limb)
    <3>1. Len(e) \in Nat /\ Len(all) \in Nat /\ all \in Seq(Limb)
      BY <2>9, <2>11, NormalBounds
    <3> HIDE DEF all, e
    <3> QED
      BY <2>3, <2>10, <2>11, <3>1
  <2>13. got = Made(Number(x.s < 0, SubSeq(all, 1, limbs)), Len(all), limbs)
    BY <1>3 DEF Shl, sh, t, m, b
  <2> HIDE DEF all, e, got
  <2> DEFINE M == Magnitude(all)
  <2>14. M = X * P
    <3> DEFINE p == Power(Base, t)
    <3>1. p \in Nat
      BY <2>3, Places
    <3>2. M = p * (X * m) /\ P = p * m
      BY <2>3, <2>11 DEF v
    <3> HIDE DEF p, M, P
    <3>3. p * (X * m) = X * (p * m)
      BY <2>1, <2>3, <3>1
    <3> QED
      BY <3>2, <3>3
  <2>15. Power(2, b + s - 1) <= M /\ M < Power(2, b + s)
    <3> DEFINE j == b - 1
               lo == Power(2, j)
               hi == Power(2, b)
    <3>1. j \in Nat /\ j + s = b + s - 1
      BY <2>2
    <3>2. lo \in Nat /\ hi \in Nat
      BY <2>2, <3>1, PowerIs
    <3>3. lo <= X /\ X < hi
      BY <2>2
    <3> HIDE DEF j
    <3>4. Power(2, j + s) = lo * P /\ Power(2, b + s) = hi * P
      BY <2>2, <3>1, PowerAdds
    <3> HIDE DEF lo, hi, P, M
    <3>5. lo * P <= X * P
      BY <1>1, <2>1, <3>2, <3>3
    <3>6. X * P < hi * P
      <4>1. (X + 1) * P <= hi * P
        BY <1>1, <2>1, <3>2, <3>3
      <4>2. (X + 1) * P = X * P + P /\ X * P \in Nat /\ hi * P \in Nat
        BY <1>1, <2>1, <3>2
      <4> QED
        BY <1>1, <4>1, <4>2
    <3> QED
      BY <2>14, <3>1, <3>4, <3>5, <3>6
  <2>16. limbs = Len(all)
    <3> DEFINE k == b + s
    <3>1. k \in Nat /\ k > 0
      BY <2>2
    <3>2. Power(2, k - 1) <= M /\ M < Power(2, k)
      <4>1. k - 1 = b + s - 1
        BY <2>2
      <4> HIDE DEF M
      <4> QED
        BY <2>15, <4>1
    <3> HIDE DEF k
    <3>3. LimbsFor(k) = Len(all)
      BY <2>11, <2>12, <3>1, <3>2, LimbsForBits
    <3> QED
      BY <3>3 DEF k
  <2>17. SubSeq(all, 1, limbs) = all
    BY <2>12, <2>16, SubSeqFull
  <2>18. got.is = "number" /\ got.n = Number(x.s < 0, all) /\ ~got.over
    <3> DEFINE l == Len(all)
    <3>1. got.over = (l > 4 * l)
      BY <2>13, <2>16 DEF Made, Room
    <3>2. l \in Nat
      BY <2>12
    <3> HIDE DEF l
    <3>3. ~(l > 4 * l)
      BY <3>2
    <3> QED
      BY <2>13, <2>17, <3>1, <3>3 DEF Made
  <2>19. (x.s < 0) \in BOOLEAN /\ Value(x) = IF x.s < 0 THEN -X ELSE X
    BY ValueIs DEF X
  <2>20. NumOK(got.n) /\ Value(got.n) = IF x.s < 0 THEN -M ELSE M
    BY <2>11, <2>18, <2>19, NumberIs
  <2>21. (-X) * P = -(X * P)
    BY <1>1, <2>1
  <2> HIDE DEF M, P
  <2>22. Value(got.n) = Value(x) * P
    BY <2>14, <2>19, <2>20, <2>21
  <2> QED
    BY <2>18, <2>20, <2>22 DEF got, P
<1> QED
  BY <1>2, <1>3

-----------------------------------------------------------------------------
(* Shifts to the right.                                                    *)

\* What intern_shr writes for a limb x below the limb y.
ShrLimb(x, y, h) == ((x + Base * y) \div h) % Base

\* v is m times q, and r is left.
Divided(v, m, q, r) == m \in Nat \ {0} /\ q \in Nat /\ r \in Nat /\ r < m /\ v = m * q + r

\* Then q and r are what division gives.
LEMMA DividedIs ==
  ASSUME NEW v, NEW m, NEW q, NEW r, Divided(v, m, q, r)
  PROVE  v \div m = q /\ v % m = r
<1>1. m \in Nat \ {0} /\ q \in Nat /\ r \in Nat
  BY DEF Divided
<1>2. r < m
  BY DEF Divided
<1>3. v = m * q + r
  BY DEF Divided
<1>4. v \div m = q
  BY <1>1, <1>2, <1>3, DivisionUnique
<1>5. v % m = r
  <2> DEFINE p == m * q
             d == v \div m
             e == v % m
  <2>1. p \in Nat /\ v = p + r
    BY <1>1, <1>3
  <2> HIDE DEF p
  <2>2. v \in Nat
    BY <1>1, <2>1
  <2>3. e \in Nat /\ v = m * d + e
    BY <1>1, <2>2, Division
  <2> HIDE DEF d, e
  <2>4. v = p + e
    BY <1>4, <2>3 DEF p, d
  <2>5. e = r
    BY <1>1, <2>1, <2>3, <2>4
  <2> QED
    BY <2>5 DEF e
<1> QED
  BY <1>4, <1>5

(***************************************************************************)
(* One limb of a shift to the right: the bits shifted out of the limb      *)
(* above come in at its top.                                               *)
(***************************************************************************)
LEMMA ShrLimbExact ==
  ASSUME NEW x \in Limb, NEW y \in Limb, NEW u \in Nat, u < W, NEW h, h = Power(2, u)
  PROVE  /\ ShrLimb(x, y, h) \in Limb /\ h \in Nat /\ h > 0 /\ x % h \in Nat /\ x % h < h
         /\ ShrLimb(x, y, h) * h + Base * (-(y % h)) = x + (-(x % h))
<1> DEFINE g == Power(2, W - u)
           qx == x \div h
           mx == x % h
           qy == y \div h
           my == y % h
           r == qx + g * my
<1>1. W \in Nat /\ Base = Power(2, W) /\ Base \in Nat /\ Base > 1
  BY BitPlaces, Places
<1>2. x \in Nat /\ y \in Nat /\ x < Base
  BY <1>1 DEF Limb
<1>3. h \in Nat /\ h > 0 /\ g \in Nat /\ g > 0 /\ Base = h * g
  <2> DEFINE k == W - u
  <2>1. k \in Nat /\ u + k = W
    BY <1>1
  <2> HIDE DEF k
  <2>2. Power(2, k) \in Nat /\ Power(2, k) > 0 /\ Power(2, u) \in Nat /\ Power(2, u) > 0
    <3>0. k \in Nat /\ 2 \in Nat \ {0}
      BY <2>1
    <3>1. Power(2, k) \in Nat /\ Power(2, k) > 0
      BY <3>0, PowerPositive
    <3>2. Power(2, u) \in Nat /\ Power(2, u) > 0
      BY PowerIs, PowerPositive
    <3> QED
      BY <3>1, <3>2
  <2>3. Power(2, u + k) = Power(2, u) * Power(2, k)
    BY <2>1, PowerAdds
  <2> QED
    BY <1>1, <2>1, <2>2, <2>3 DEF k
<1> HIDE DEF g
<1>0. h \in Nat \ {0}
  BY <1>3
<1>4. qx \in Nat /\ mx \in Nat /\ mx < h /\ x = h * qx + mx
  BY <1>2, <1>0, Division
<1>5. qy \in Nat /\ my \in Nat /\ my < h /\ y = h * qy + my
  BY <1>2, <1>0, Division
<1> HIDE DEF qx, mx, qy, my
<1>6. qx < g
  <2>1. ASSUME g <= qx PROVE FALSE
    <3>1. h * g <= h * qx
      BY <1>3, <1>4, <2>1
    <3>2. h * qx \in Nat /\ h * g \in Nat
      BY <1>3, <1>4
    <3> DEFINE a == h * qx
               b == h * g
    <3> HIDE DEF a, b
    <3>3. b <= a /\ a \in Nat /\ b \in Nat /\ Base = b /\ x = a + mx
      BY <1>3, <1>4, <3>1, <3>2 DEF a, b
    <3> QED
      BY <1>2, <1>4, <3>3
  <2> QED
    BY <1>3, <1>4, <2>1
<1>7. r \in Nat /\ r < Base
  <2>1. g * (my + 1) <= g * h
    BY <1>3, <1>5
  <2>2. g * (my + 1) = g * my + g /\ g * h = h * g /\ g * my \in Nat
    BY <1>3, <1>5
  <2> DEFINE a == g * my
             b == h * g
             e == g * (my + 1)
             f == g * h
  <2>3. a \in Nat /\ e <= f /\ e = a + g /\ f = b /\ Base = b /\ r = qx + a
    BY <1>3, <2>1, <2>2
  <2> HIDE DEF a, b, e, f, r
  <2> QED
    BY <1>1, <1>3, <1>4, <1>6, <2>3
<1>8. (x + Base * y) \div h = qx + g * y
  <2> DEFINE v == x + Base * y
             q == qx + g * y
  <2>1. q \in Nat
    BY <1>2, <1>3, <1>4
  <2>2. v = h * q + mx
    <3>1. Base * y = h * (g * y)
      BY <1>2, <1>3
    <3>2. h * q = h * qx + h * (g * y)
      BY <1>2, <1>3, <1>4
    <3>3. h * qx \in Nat /\ h * (g * y) \in Nat
      BY <1>2, <1>3, <1>4
    <3> DEFINE a == h * qx
               b == h * (g * y)
               c == Base * y
               d == h * q
    <3>4. a \in Nat /\ b \in Nat /\ c = b /\ d = a + b /\ x = a + mx /\ v = x + c
      BY <1>4, <3>1, <3>2, <3>3
    <3> HIDE DEF a, b, c, d, v
    <3>5. v = d + mx
      BY <1>4, <3>4
    <3> QED
      BY <3>5 DEF d
  <2> HIDE DEF v, q
  <2>3. v \div h = q
    <3>1. h \in Nat \ {0}
      BY <1>3
    <3> QED
      BY <1>4, <2>1, <2>2, <3>1, DivisionUnique
  <2> QED
    BY <2>3 DEF v, q
<1>9. (qx + g * y) % Base = r
  <2> DEFINE v == qx + g * y
  <2>1. v = Base * qy + r
    <3>1. g * y = g * (h * qy) + g * my
      BY <1>3, <1>5
    <3>2. g * (h * qy) = Base * qy
      BY <1>3, <1>5
    <3>3. g * my \in Nat /\ Base * qy \in Nat
      BY <1>1, <1>3, <1>5
    <3> DEFINE a == g * y
               b == g * my
               c == Base * qy
    <3>4. a = c + b /\ b \in Nat /\ c \in Nat /\ v = qx + a /\ r = qx + b
      BY <3>1, <3>2, <3>3
    <3> HIDE DEF a, b, c, v, r
    <3>5. v = c + r
      BY <1>4, <3>4
    <3> QED
      BY <3>5 DEF c
  <2> HIDE DEF v, r
  <2>2. Base \in Nat \ {0}
    BY <1>1
  <2>4. qy \in Nat /\ r \in Nat /\ r < Base
    BY <1>5, <1>7 DEF r
  <2> DEFINE b == Base
             k == qy
  <2>5. b \in Nat \ {0} /\ k \in Nat /\ r \in Nat /\ r < b /\ v = b * k + r
    BY <2>1, <2>2, <2>4
  <2> HIDE DEF b, k
  <2>3. v % b = r
    <3>1. Divided(v, b, k, r)
      BY <2>5 DEF Divided
    <3> QED
      BY <3>1, DividedIs
  <2> QED
    BY <2>3 DEF v, b
<1>10. ShrLimb(x, y, h) = r
  BY <1>8, <1>9 DEF ShrLimb
<1>11. r * h + Base * (-my) = x + (-mx)
  <2>1. r * h = h * qx + Base * my
    <3>1. r * h = h * qx + h * (g * my)
      BY <1>3, <1>4, <1>5
    <3>2. h * (g * my) = Base * my
      BY <1>3, <1>5
    <3> QED
      BY <3>1, <3>2
  <2>2. Base * (-my) = -(Base * my) /\ Base * my \in Nat /\ h * qx \in Nat
    BY <1>1, <1>3, <1>4, <1>5
  <2> DEFINE a == h * qx
             b == Base * my
             c == Base * (-my)
             e == r * h
  <2>3. a \in Nat /\ b \in Nat /\ c = -b /\ e = a + b /\ x = a + mx
    BY <1>4, <2>1, <2>2
  <2> HIDE DEF a, b, c, e
  <2>4. e + c = x + (-mx)
    BY <1>4, <2>3
  <2> QED
    BY <2>4 DEF c, e
<1>12. r \in Limb
  BY <1>7, LimbsAreInts
<1> HIDE DEF r
<1> QED
  BY <1>3, <1>4, <1>10, <1>11, <1>12 DEF mx, my

(***************************************************************************)
(* The limbs from t + 1 on are worth what is left of the value when it is  *)
(* divided by a place.                                                     *)
(***************************************************************************)
LEMMA LimbsFrom ==
  ASSUME NEW d \in Seq(Limb), NEW t \in Nat, t < Len(d),
         NEW D, D = [i \in 1 .. Len(d) - t |-> d[t + i]]
  PROVE  /\ D \in Seq(Limb) /\ Len(D) = Len(d) - t /\ Magnitude(D) \in Nat
         /\ LowValues(d)[t] \in Nat /\ LowValues(d)[t] < Power(Base, t)
         /\ Magnitude(d) = LowValues(d)[t] + Power(Base, t) * Magnitude(D)
<1> DEFINE n == Len(d)
           k == n - t
<1>1. n \in Nat /\ k \in Nat /\ k > 0 /\ \A i \in 1 .. n : d[i] \in Limb
  BY LimbsAreInts
<1>2. D \in [1 .. k -> Limb] /\ \A i \in 1 .. k : D[i] = d[t + i]
  <2>1. \A i \in 1 .. k : t + i \in 1 .. n
    BY <1>1
  <2> QED
    BY <1>1, <2>1
<1> HIDE DEF k
<1>3. D \in Seq(Limb) /\ Len(D) = k
  BY <1>1, <1>2, Tuple
<1>4. D \in Seq(Int) /\ d \in Seq(Int)
  BY <1>3, LimbsAreInts
<1>5. n = t + Len(D) /\ \A i \in 1 .. Len(D) : d[t + i] = D[i]
  BY <1>1, <1>2, <1>3 DEF k
<1>6. Magnitude(d) = LowValues(d)[t] + Power(Base, t) * Magnitude(D)
  BY <1>4, <1>5, LowAndHigh
<1>7. Magnitude(D) \in Nat
  BY <1>3, MagnitudeBelow
<1>8. LowValues(d)[t] \in Nat /\ LowValues(d)[t] < Power(Base, t)
  BY LowValuesBelow
<1> QED
  BY <1>3, <1>6, <1>7, <1>8 DEF k

(***************************************************************************)
(* intern_shr divides by 2^s.                                              *)
(***************************************************************************)
LEMMA ShiftedIs ==
  ASSUME NEW d \in Seq(Limb), NEW s \in Nat, s \div W < Len(d), NEW junk
  PROVE  /\ Shifted(d, s, junk) \in Seq(Limb) /\ Len(Shifted(d, s, junk)) = Len(d) - s \div W
         /\ Magnitude(Shifted(d, s, junk)) = Magnitude(d) \div Power(2, s)
<1> DEFINE t == s \div W
           u == s % W
           h == Power(2, u)
           n == Len(d)
           k == n - t
           At(i) == LimbAt(d, t + i)
           D == [i \in 1 .. k |-> d[t + i]]
           r == Shifted(d, s, junk)
           rh == [i \in 1 .. k |-> r[i] * h]
           c == [i \in 0 .. k |-> -(At(i + 1) % h)]
<1>1. /\ t \in Nat /\ u \in Nat /\ u < W /\ h \in Limb /\ h \in Nat /\ h > 0
      /\ Power(2, s) = Power(Base, t) * h
  BY Distance
<1>2. n \in Nat /\ d \in Seq(Int) /\ t < n /\ k \in Nat /\ k > 0 /\ \A i \in 1 .. n : d[i] \in Limb
  BY <1>1, LimbsAreInts
<1>3. /\ D \in Seq(Limb) /\ Len(D) = k /\ Magnitude(D) \in Nat
      /\ LowValues(d)[t] \in Nat /\ LowValues(d)[t] < Power(Base, t)
      /\ Magnitude(d) = LowValues(d)[t] + Power(Base, t) * Magnitude(D)
  BY <1>1, <1>2, LimbsFrom, ZenonT(40)
<1>4. /\ \A i \in 1 .. k + 1 : At(i) \in Limb
      /\ \A i \in 1 .. k : At(i) = D[i]
      /\ At(k + 1) = 0
  <2>1. \A i \in 1 .. k : t + i \in 1 .. n
    BY <1>1, <1>2
  <2>2. t + (k + 1) = n + 1 /\ n + 1 \notin 1 .. n
    BY <1>1, <1>2
  <2>3. \A i \in 1 .. k : LimbAt(d, t + i) = d[t + i] /\ d[t + i] \in Limb
    BY <1>2, <2>1 DEF LimbAt
  <2>4. LimbAt(d, n + 1) = 0
    BY <2>2 DEF LimbAt
  <2>5. At(k + 1) = 0
    BY <2>2, <2>4
  <2>6. \A i \in 1 .. k : At(i) = D[i] /\ At(i) \in Limb
    BY <2>3
  <2>7. \A i \in 1 .. k + 1 : i \in 1 .. k \/ i = k + 1
    BY <1>2
  <2> QED
    BY <2>5, <2>6, <2>7, LimbsAreInts
<1>5. r = [i \in 1 .. k |-> ShrLimb(At(i), At(i + 1), h)]
  <2>1. r = [i \in 1 .. k |-> (((IF i = 1 THEN d[t + 1] ELSE At(i)) + Base * LimbAt(d, t + i + 1)) \div h) % Base]
    BY <1>2 DEF Shifted
  <2>2. ASSUME NEW i \in 1 .. k
        PROVE  /\ (IF i = 1 THEN d[t + 1] ELSE At(i)) = At(i)
               /\ LimbAt(d, t + i + 1) = At(i + 1)
    <3>1. t + i + 1 = t + (i + 1)
      BY <1>1, <1>2
    <3>2. t + 1 \in 1 .. n
      BY <1>1, <1>2
    <3>3. LimbAt(d, t + 1) = d[t + 1]
      BY <3>2 DEF LimbAt
    <3> QED
      BY <3>1, <3>3
  <2>3. \A i \in 1 .. k : (((IF i = 1 THEN d[t + 1] ELSE At(i)) + Base * LimbAt(d, t + i + 1)) \div h) % Base
                            = ShrLimb(At(i), At(i + 1), h)
    BY <2>2 DEF ShrLimb
  <2> QED
    BY <2>1, <2>3
<1> HIDE DEF At, D, k, r
<1>6. ASSUME NEW i \in 1 .. k
      PROVE  /\ r[i] \in Limb /\ r[i] * h \in Int
             /\ r[i] * h + Base * (-(At(i + 1) % h)) = D[i] + (-(At(i) % h))
  <2> DEFINE x == At(i)
             y == At(i + 1)
  <2>1. x \in Limb /\ y \in Limb /\ D[i] = x
    <3>1. i \in 1 .. k + 1 /\ i + 1 \in 1 .. k + 1
      BY <1>2
    <3> QED
      BY <1>4, <3>1
  <2>2. r[i] = ShrLimb(x, y, h)
    BY <1>5
  <2> HIDE DEF x, y
  <2>3. /\ ShrLimb(x, y, h) \in Limb
        /\ ShrLimb(x, y, h) * h + Base * (-(y % h)) = x + (-(x % h))
    BY <1>1, <2>1, ShrLimbExact
  <2>4. r[i] \in Nat
    BY <2>2, <2>3, LimbsAreInts
  <2>5. r[i] * h \in Int
    <3> DEFINE z == r[i]
    <3>1. z \in Nat
      BY <2>4
    <3> HIDE DEF z
    <3>2. z * h \in Int
      BY <1>1, <3>1
    <3> QED
      BY <3>2 DEF z
  <2> QED
    BY <2>1, <2>2, <2>3, <2>5 DEF x, y
<1>7. r \in Seq(Limb) /\ Len(r) = k
  <2>1. r \in [1 .. k -> Limb]
    BY <1>5, <1>6
  <2> QED
    BY <1>2, <2>1, Tuple
<1>8. rh \in Seq(Int) /\ Len(rh) = k /\ \A i \in 1 .. k : rh[i] = r[i] * h
  <2>1. rh \in [1 .. k -> Int] /\ \A i \in 1 .. k : rh[i] = r[i] * h
    BY <1>6
  <2> HIDE DEF rh
  <2> QED
    BY <1>2, <2>1, Tuple
<1>9. ASSUME NEW i \in 1 .. k + 1 PROVE At(i) % h \in Nat /\ At(i) % h < h
  <2> DEFINE x == At(i)
  <2>1. x \in Nat /\ h \in Nat \ {0}
    <3>1. x \in Limb
      BY <1>4
    <3> HIDE DEF x
    <3> QED
      BY <1>1, <3>1, LimbsAreInts
  <2> HIDE DEF x
  <2>2. x % h \in Nat /\ x % h < h
    BY <2>1, Division
  <2> QED
    BY <2>2 DEF x
<1>10. /\ c \in [0 .. k -> Int]
       /\ \A i \in 0 .. k : c[i] = -(At(i + 1) % h)
  <2>1. ASSUME NEW i \in 0 .. k PROVE -(At(i + 1) % h) \in Int
    <3>1. i + 1 \in 1 .. k + 1
      BY <1>2
    <3> DEFINE z == At(i + 1) % h
    <3>2. z \in Nat
      BY <1>9, <3>1
    <3> HIDE DEF z
    <3>3. -z \in Int
      BY <3>2
    <3> QED
      BY <3>3 DEF z
  <2> QED
    BY <2>1
<1> HIDE DEF rh, c
<1>11. Rounds(rh, D, c)
  <2>1. ASSUME NEW i \in 1 .. k PROVE rh[i] + Base * c[i] = D[i] + c[i - 1]
    <3>1. i \in 0 .. k /\ i - 1 \in 0 .. k /\ (i - 1) + 1 = i
      BY <1>2
    <3>2. c[i] = -(At(i + 1) % h) /\ c[i - 1] = -(At(i) % h)
      BY <1>10, <3>1
    <3> QED
      BY <1>6, <1>8, <3>2
  <2> QED
    BY <1>8, <2>1 DEF Rounds
<1>12. D \in Seq(Int)
  BY <1>3, LimbsAreInts
<1>13. Magnitude(rh) + Power(Base, k) * c[k] = Magnitude(D) + c[0]
  BY <1>3, <1>8, <1>10, <1>11, <1>12, LoopExact
<1>14. c[k] = 0
  <2>1. k \in 0 .. k
    BY <1>2
  <2>2. c[k] = -(0 % h)
    BY <1>4, <1>10, <2>1
  <2>3. 0 % h = 0
    <3>1. 0 = h * 0 + 0 /\ h \in Nat \ {0}
      BY <1>1
    <3> QED
      BY <1>1, <3>1, DivisionUnique
  <2>4. c[k] \in Int
    BY <1>10, <2>1
  <2> DEFINE z == 0 % h
             y == c[k]
  <2>5. z \in Nat /\ ~(z > 0) /\ y = -z /\ y \in Int
    BY <2>2, <2>3, <2>4
  <2> HIDE DEF z, y
  <2>6. y = 0
    BY <2>5
  <2> QED
    BY <2>6 DEF y
<1> DEFINE R == Magnitude(r)
           M == Magnitude(D)
           X == Magnitude(d)
           l == LowValues(d)[t]
           p == Power(Base, t)
           w == At(1) % h
<1>15. Magnitude(rh) = R * h
  <2>1. r \in Seq(Int) /\ Len(r) = Len(rh) /\ h \in Int
    BY <1>1, <1>7, <1>8, LimbsAreInts
  <2>2. Multiple(rh, r, h)
    BY <1>8 DEF Multiple
  <2> QED
    BY <1>8, <2>1, <2>2, MultipleScales
<1>16. R \in Nat /\ M \in Nat /\ w \in Nat /\ w < h /\ p \in Nat /\ l \in Nat /\ l < p /\ c[0] = -w
  <2>1. R \in Nat
    BY <1>7, MagnitudeBelow
  <2>2. 1 \in 1 .. k + 1 /\ 0 \in 0 .. k /\ 0 + 1 = 1
    BY <1>2
  <2>3. w \in Nat /\ w < h /\ c[0] = -w
    BY <1>9, <1>10, <2>2
  <2>4. p \in Nat
    BY <1>1, Places
  <2> QED
    BY <1>3, <2>1, <2>3, <2>4
<1>17. Power(Base, k) \in Nat
  BY <1>2, Places
<1>18. X = l + p * M
  BY <1>3
<1> HIDE DEF R, M, X, l, p, w, h
<1>19. M = R * h + w
  <2> DEFINE a == R * h
             q == Power(Base, k)
  <2>1. a \in Nat /\ q \in Nat /\ q * 0 = 0
    BY <1>1, <1>16, <1>17
  <2>2. a + q * 0 = M + (-w)
    BY <1>13, <1>14, <1>15, <1>16 DEF M
  <2> HIDE DEF a, q
  <2>3. M = a + w
    BY <1>16, <2>1, <2>2
  <2> QED
    BY <2>3 DEF a
<1> DEFINE ph == p * h
           e == l + p * w
<1>20. ph \in Nat /\ ph > 0 /\ e \in Nat /\ e < ph
  <2>1. p * (w + 1) <= p * h
    BY <1>1, <1>16
  <2>2. p * (w + 1) = p * w + p /\ p * w \in Nat
    BY <1>16
  <2>3. ph \in Nat
    BY <1>1, <1>16
  <2> DEFINE a == p * w
             b == p * (w + 1)
  <2>4. a \in Nat /\ b = a + p /\ b <= ph /\ e = l + a
    BY <2>1, <2>2
  <2> HIDE DEF a, b, ph, e
  <2> QED
    BY <1>16, <2>3, <2>4
<1>21. X = ph * R + e
  <2>1. p * M = p * (R * h) + p * w
    <3>1. R * h \in Nat
      BY <1>1, <1>16
    <3> DEFINE a == R * h
    <3>2. a \in Nat /\ M = a + w
      BY <1>19, <3>1
    <3> HIDE DEF a
    <3>3. p * M = p * a + p * w
      BY <1>16, <3>2
    <3> QED
      BY <3>3 DEF a
  <2>2. p * (R * h) = ph * R
    BY <1>1, <1>16
  <2>3. ph * R \in Nat /\ p * w \in Nat
    BY <1>1, <1>16
  <2> DEFINE a == p * M
             b == ph * R
             f == p * w
  <2>4. a = b + f /\ b \in Nat /\ f \in Nat /\ X = l + a /\ e = l + f
    BY <1>18, <2>1, <2>2, <2>3
  <2> HIDE DEF a, b, f, e
  <2>5. X = b + e
    BY <1>16, <2>4
  <2> QED
    BY <2>5 DEF b
<1> HIDE DEF ph, e
<1>22. X \div ph = R
  <2>1. ph \in Nat \ {0}
    BY <1>20
  <2> QED
    BY <1>16, <1>20, <1>21, <2>1, DivisionUnique
<1>23. ph = Power(2, s)
  BY <1>1 DEF ph, p, h
<1> QED
  BY <1>7, <1>22, <1>23 DEF R, X, r, k

(***************************************************************************)
(* number_shr: the magnitude is divided by 2^s, and where a limb is left   *)
(* to read there is room for what is written.                              *)
(***************************************************************************)
THEOREM ShrExact ==
  ASSUME NEW x, NumOK(x), NEW s \in Nat, NEW junk
  PROVE  /\ NumOK(Shr(x, s, junk).n)
         /\ Shr(x, s, junk).is = "number" =>
              Value(Shr(x, s, junk).n) =
                (IF x.s < 0 THEN -1 ELSE 1) * (Magnitude(x.d) \div Power(2, s))
         /\ Shr(x, s, junk).is = "error" \/ Shr(x, s, junk).over => s >= W * Len(x.d)
<1> DEFINE got == Shr(x, s, junk)
           d == x.d
           n == Len(d)
           X == Magnitude(d)
           P == Power(2, s)
           Q == X \div P
           sign == IF x.s < 0 THEN -1 ELSE 1
           b == Bits(x)
           t == s \div W
           all == Trimmed(Shifted(d, s, junk))
           left == b - s
<1>1. P \in Nat /\ P > 0 /\ t \in Nat
  BY Distance
<1>2. d \in Seq(Limb) /\ Normal(d) /\ n \in Nat /\ X \in Nat /\ (x.s < 0) \in BOOLEAN
  BY NumParts, ValueIs
<1>3. Q \in Nat
  <2>1. P \in Nat \ {0}
    BY <1>1
  <2> HIDE DEF X, P
  <2> QED
    BY <1>2, <2>1, Division
<1>4. (-1) * Q = -Q /\ 1 * Q = Q
  <2> HIDE DEF Q
  <2>1. (-1) * Q = -Q
    BY <1>3
  <2>2. 1 * Q = Q
    BY <1>3
  <2> QED
    BY <2>1, <2>2
<1>5. CASE x.s = 0
  <2>1. got = Made(x, 0, 0)
    BY <1>5 DEF Shr
  <2>2. got.is = "number" /\ got.n = x /\ ~got.over
    <3>1. ~(0 > Room(0))
      BY DEF Room
    <3> HIDE DEF got
    <3> QED
      BY <2>1, <3>1 DEF Made
  <2>3. n = 0
    BY <1>5, NumParts
  <2>4. X = 0
    <3>1. X < Power(Base, n) /\ Power(Base, 0) = 1
      BY <1>2, MagnitudeBelow, Places
    <3> HIDE DEF X
    <3> QED
      BY <1>2, <2>3, <3>1
  <2>5. Q = 0
    <3>1. 0 = P * 0 + 0 /\ P \in Nat \ {0}
      BY <1>1
    <3> HIDE DEF P
    <3>2. 0 \div P = 0
      BY <1>1, <3>1, DivisionUnique
    <3> QED
      BY <2>4, <3>2
  <2>6. Value(x) = X
    BY <1>5 DEF Value
  <2>7. Value(got.n) = sign * Q
    <3>1. sign = 1
      BY <1>5
    <3> HIDE DEF got, sign, Q, X
    <3> QED
      BY <1>4, <2>2, <2>4, <2>5, <2>6, <3>1
  <2> HIDE DEF got, sign, Q
  <2>8. NumOK(got.n) /\ ~(got.is = "error")
    BY <2>2
  <2> QED
    BY <2>2, <2>7, <2>8 DEF got, sign, Q, P, X, d
<1>6. CASE x.s # 0
  <2>1. /\ n > 0 /\ b \in Nat /\ b > 0 /\ Power(2, b - 1) <= X /\ X < Power(2, b)
        /\ W * (n - 1) < b /\ b <= W * n
    BY <1>6, BitsAre
  <2>2. left \in Int /\ W \in Nat /\ W > 0 /\ W * n \in Nat
    <3>1. W \in Nat /\ W > 0
      BY BitPlaces
    <3> HIDE DEF n, b
    <3> QED
      BY <1>2, <2>1, <3>1
  <2>3. CASE left <= -W
    <3>1. got = Refused
      BY <1>6, <2>3 DEF Shr
    <3>2. s >= W * n
      <4> DEFINE wn == W * n
                 wk == W * (n - 1)
      <4>1. wn = wk + W /\ wk \in Nat
        <5> HIDE DEF n
        <5>1. n - 1 \in Nat
          BY <1>2, <2>1
        <5> QED
          BY <1>2, <2>1, <2>2, <5>1
      <4>2. wk < b
        BY <2>1
      <4> HIDE DEF wn, wk, b
      <4>3. s >= wn
        BY <2>1, <2>2, <2>3, <4>1, <4>2
      <4> QED
        BY <4>3 DEF wn
    <3>3. got.is = "error" /\ NumOK(got.n)
      BY <3>1, ZeroOK DEF Refused
    <3> HIDE DEF got, sign, Q
    <3>4. ~(got.is = "number")
      BY <3>3
    <3> QED
      BY <3>2, <3>3, <3>4 DEF got, d, n
  <2>4. CASE ~(left <= -W)
    <3> DEFINE limbs == IF left <= 0 THEN 0 ELSE LimbsFor(left)
               part == SubSeq(all, 1, limbs)
    <3>1. got = Made(Number(x.s < 0, part), Len(all), limbs)
      BY <1>6, <2>4 DEF Shr
    <3>2. ASSUME t < n
          PROVE  Normal(all) /\ Magnitude(all) = Q
      <4>1. Shifted(d, s, junk) \in Seq(Limb) /\ Magnitude(Shifted(d, s, junk)) = Q
        BY <1>2, <3>2, ShiftedIs
      <4> QED
        BY <4>1, TrimmedIs
    <3>3. s < W * n => t < n
      <4> DEFINE u == s % W
      <4>1. t \in Nat /\ u \in Nat /\ s = W * t + u
        BY Distance
      <4> HIDE DEF t, u, n
      <4>2. ASSUME n <= t PROVE W * n <= s
        <5>1. W * n <= W * t /\ W * t \in Nat
          BY <1>2, <2>2, <4>1, <4>2
        <5> DEFINE a == W * n
                   e == W * t
        <5>2. a <= e /\ e \in Nat /\ s = e + u /\ a \in Nat
          BY <2>2, <4>1, <5>1
        <5> HIDE DEF a, e
        <5>3. a <= s
          BY <4>1, <5>2
        <5> QED
          BY <5>3 DEF a
      <4> QED
        BY <1>2, <2>2, <4>1, <4>2
    <3>4. CASE left <= 0
      <4>1. Q = 0
        <5>1. b <= s
          <6> HIDE DEF b
          <6> QED
            BY <2>1, <3>4
        <5> HIDE DEF b
        <5>2. Power(2, b) <= P
          BY <2>1, <5>1, PowerMonotone
        <5>3. Power(2, b) \in Nat
          BY <2>1, PowerIs
        <5>4. X < P
          <6> HIDE DEF X, P
          <6> QED
            BY <1>1, <1>2, <2>1, <5>2, <5>3
        <5> HIDE DEF X, P
        <5>5. X = P * 0 + X /\ P \in Nat \ {0}
          BY <1>1, <1>2
        <5> QED
          BY <1>2, <5>4, <5>5, DivisionUnique
      <4>2. limbs = 0
        BY <3>4
      <4>3. part = <<>>
        BY <4>2, SubSeqEmpty
      <4> HIDE DEF part, limbs, all
      <4>4. Len(<<>>) = 0 /\ Normal(<<>>) /\ Magnitude(<<>>) = 0
        BY ZeroOK, EmptySeq
      <4>5. got.is = "number" /\ got.n = Number(x.s < 0, <<>>) /\ got.over = (Len(all) > 4 * 0)
        BY <3>1, <4>2, <4>3 DEF Made, Room
      <4> HIDE DEF got
      <4>6. NumOK(got.n) /\ Value(got.n) = IF x.s < 0 THEN -0 ELSE 0
        BY <1>2, <4>4, <4>5, NumberIs
      <4>7. Value(got.n) = sign * Q
        <5>1. sign * Q = IF x.s < 0 THEN -Q ELSE Q
          BY <1>4
        <5>2. -0 = -Q
          BY <4>1
        <5> HIDE DEF sign, Q
        <5> QED
          BY <4>1, <4>6, <5>1, <5>2
      <4>8. ASSUME s < W * n PROVE ~got.over
        <5>1. Normal(all) /\ Magnitude(all) = 0
          BY <3>2, <3>3, <4>1, <4>8
        <5>2. Len(all) \in Nat /\ ~(Len(all) > 0)
          BY <5>1, NormalBounds
        <5> DEFINE l == Len(all)
        <5>3. l \in Nat /\ ~(l > 0) /\ got.over = (l > 4 * 0)
          BY <4>5, <5>2
        <5> HIDE DEF l
        <5>4. ~(l > 4 * 0)
          BY <5>3
        <5> QED
          BY <5>3, <5>4
      <4>9. ~(s < W * n) => s >= W * n
        <5> DEFINE wn == W * n
        <5>1. wn \in Nat
          BY <2>2
        <5> HIDE DEF wn
        <5>2. ~(s < wn) => s >= wn
          BY <5>1
        <5> QED
          BY <5>2 DEF wn
      <4>10. got.is # "error"
        BY <4>5
      <4> HIDE DEF sign, Q
      <4> QED
        BY <4>6, <4>7, <4>8, <4>9, <4>10 DEF got, sign, Q, d, n, X, P
    <3>5. CASE ~(left <= 0)
      <4>1. s < b /\ left \in Nat /\ left > 0 /\ limbs = LimbsFor(left)
        <5> HIDE DEF b
        <5> QED
          BY <2>1, <3>5
      <4>2. s < W * n
        <5> DEFINE wn == W * n
        <5>1. wn \in Nat /\ b <= wn
          BY <2>1, <2>2
        <5> HIDE DEF wn, b
        <5>2. s < wn
          BY <2>1, <4>1, <5>1
        <5> QED
          BY <5>2 DEF wn
      <4>3. Normal(all) /\ Magnitude(all) = Q
        BY <3>2, <3>3, <4>2
      <4> HIDE DEF all
      <4>4. Power(2, left - 1) <= Q /\ Q < Power(2, left)
        <5> DEFINE r == X % P
        <5>1. X = P * Q + r /\ r \in Nat /\ r < P
          <6>1. P \in Nat \ {0}
            BY <1>1
          <6> HIDE DEF X, P
          <6> QED
            BY <1>2, <6>1, Division
        <5> HIDE DEF r, Q, X
        <5> DEFINE k == left - 1
                   lo == Power(2, k)
                   hi == Power(2, left)
        <5>2. k \in Nat /\ k + s = b - 1 /\ left + s = b
          <6> HIDE DEF b
          <6> QED
            BY <2>1, <4>1
        <5> HIDE DEF k
        <5>3. lo \in Nat /\ hi \in Nat
          BY <4>1, <5>2, PowerIs
        <5> HIDE DEF left
        <5>4. Power(2, k + s) = lo * P
          BY <4>1, <5>2, PowerAdds
        <5>5. Power(2, left + s) = hi * P
          BY <4>1, <5>2, PowerAdds
        <5>6. lo * P <= X /\ X < hi * P
          BY <2>1, <5>2, <5>4, <5>5
        <5> HIDE DEF lo, hi, P
        <5>7. lo <= Q
          <6>1. ASSUME Q < lo PROVE FALSE
            <7>1. (Q + 1) * P <= lo * P
              BY <1>1, <1>3, <5>3, <6>1
            <7>2. (Q + 1) * P = P * Q + P /\ P * Q \in Nat /\ lo * P \in Nat
              BY <1>1, <1>3, <5>3
            <7> DEFINE a == P * Q
                       e == (Q + 1) * P
                       f == lo * P
            <7>3. a \in Nat /\ e = a + P /\ f \in Nat /\ e <= f /\ f <= X /\ X = a + r
              BY <5>1, <5>6, <7>1, <7>2
            <7> HIDE DEF a, e, f
            <7> QED
              BY <1>1, <5>1, <7>3
          <6> QED
            BY <1>3, <5>3, <6>1
        <5>8. Q < hi
          <6>1. ASSUME hi <= Q PROVE FALSE
            <7>1. hi * P <= Q * P
              BY <1>1, <1>3, <5>3, <6>1
            <7>2. Q * P = P * Q /\ P * Q \in Nat /\ hi * P \in Nat
              BY <1>1, <1>3, <5>3
            <7> DEFINE a == P * Q
                       f == hi * P
            <7>3. a \in Nat /\ f \in Nat /\ f <= a /\ X < f /\ X = a + r
              BY <5>1, <5>6, <7>1, <7>2
            <7> HIDE DEF a, f
            <7> QED
              BY <5>1, <7>3
          <6> QED
            BY <1>3, <5>3, <6>1
        <5> QED
          BY <5>7, <5>8 DEF lo, hi, k
      <4>5. Len(all) \in Nat /\ Len(all) > 0 /\ all \in Seq(Limb)
        <5>1. Len(all) \in Nat /\ all \in Seq(Limb) /\ Magnitude(all) < Power(Base, Len(all)) /\ Power(Base, 0) = 1
          BY <4>3, NormalBounds, Places
        <5>2. Q > 0
          <6> DEFINE k == left - 1
          <6>1. k \in Nat
            BY <4>1
          <6> HIDE DEF k
          <6>2. Power(2, k) \in Nat /\ Power(2, k) > 0
            BY <6>1, PowerPositive
          <6> DEFINE z == Power(2, k)
          <6>3. z \in Nat /\ z > 0 /\ z <= Q
            BY <4>4, <6>2 DEF k
          <6> HIDE DEF z, Q
          <6> QED
            BY <1>3, <6>3
        <5>3. Len(all) # 0
          <6> HIDE DEF Q
          <6> QED
            BY <1>3, <4>3, <5>1, <5>2
        <5> QED
          BY <5>1, <5>3
      <4>6. limbs = Len(all)
        <5> HIDE DEF left
        <5>1. Power(2, left - 1) <= Magnitude(all) /\ Magnitude(all) < Power(2, left)
          BY <4>3, <4>4
        <5>2. LimbsFor(left) = Len(all)
          BY <4>1, <4>3, <4>5, <5>1, LimbsForBits
        <5> QED
          BY <4>1, <5>2
      <4> HIDE DEF limbs
      <4>7. part = all
        BY <4>5, <4>6, SubSeqFull
      <4> HIDE DEF part
      <4>8. got.is = "number" /\ got.n = Number(x.s < 0, all) /\ ~got.over
        <5> DEFINE l == Len(all)
        <5>1. got.over = (l > 4 * l)
          BY <3>1, <4>6 DEF Made, Room
        <5>2. l \in Nat
          BY <4>5
        <5> HIDE DEF l
        <5>3. ~(l > 4 * l)
          BY <5>2
        <5>4. got.is = "number" /\ got.n = Number(x.s < 0, all)
          BY <3>1, <4>7 DEF Made
        <5> QED
          BY <5>1, <5>3, <5>4
      <4> HIDE DEF got
      <4>9. NumOK(got.n) /\ Value(got.n) = IF x.s < 0 THEN -Q ELSE Q
        BY <1>2, <4>3, <4>8, NumberIs
      <4>10. sign * Q = IF x.s < 0 THEN -Q ELSE Q
        BY <1>4
      <4>11. got.is # "error"
        BY <4>8
      <4> HIDE DEF sign, Q
      <4> QED
        BY <4>8, <4>9, <4>10, <4>11 DEF got, sign, Q, d, n, X, P
    <3> QED
      BY <3>4, <3>5
  <2> QED
    BY <2>3, <2>4
<1> QED
  BY <1>5, <1>6

-----------------------------------------------------------------------------
(* The values of digits.                                                   *)

(***************************************************************************)
(* Digits that agree are worth as much.                                    *)
(***************************************************************************)
LEMMA HighValuesAgree ==
  ASSUME NEW radix \in Nat, NEW d \in Seq(Nat), NEW e \in Seq(Nat), NEW n \in Nat,
         n <= Len(d), n <= Len(e), Agree(d, e, n)
  PROVE  HighValues(radix, d)[n] = HighValues(radix, e)[n]
<1> DEFINE T == {i \in 0 .. n : HighValues(radix, d)[i] = HighValues(radix, e)[i]}
<1>0. Len(d) \in Nat /\ Len(e) \in Nat
  BY LenProperties
<1>1. 0 \in T
  BY HighValuesAre
<1>2. ASSUME NEW i \in 0 .. n - 1, i \in T PROVE i + 1 \in T
  <2>1. i + 1 \in 1 .. Len(d) /\ i + 1 \in 1 .. Len(e) /\ i + 1 \in 1 .. n /\ (i + 1) - 1 = i /\ i + 1 \in 0 .. n
    BY <1>0
  <2>2. HighValues(radix, d)[i + 1] = HighValues(radix, d)[i] * radix + d[i + 1]
    BY <2>1, HighValuesAre
  <2>3. HighValues(radix, e)[i + 1] = HighValues(radix, e)[i] * radix + e[i + 1]
    BY <2>1, HighValuesAre
  <2>4. d[i + 1] = e[i + 1]
    BY <2>1 DEF Agree
  <2> QED
    BY <1>2, <2>1, <2>2, <2>3, <2>4
<1> HIDE DEF T
<1>3. n \in T
  <2>1. \A i \in 0 .. n : i \in T
    BY <1>1, <1>2, InductUpTo
  <2> QED
    BY <2>1
<1> QED
  BY <1>3 DEF T

(***************************************************************************)
(* One digit more.                                                         *)
(***************************************************************************)
LEMMA DigitsValueAppend ==
  ASSUME NEW radix \in Nat, NEW ds \in Seq(Nat), NEW c \in Nat
  PROVE  /\ Append(ds, c) \in Seq(Nat) /\ Len(Append(ds, c)) = Len(ds) + 1
         /\ DigitsValue(radix, Append(ds, c)) = DigitsValue(radix, ds) * radix + c
<1> DEFINE e == Append(ds, c)
           n == Len(ds)
<1>1. e \in Seq(Nat) /\ Len(e) = n + 1 /\ (\A i \in 1 .. n : e[i] = ds[i]) /\ e[n + 1] = c
  BY AppendProperties
<1>2. n \in Nat
  BY LenProperties
<1> HIDE DEF e
<1>3. n + 1 \in 1 .. Len(e) /\ (n + 1) - 1 = n
  BY <1>1, <1>2
<1>4. HighValues(radix, e)[n + 1] = HighValues(radix, e)[n] * radix + c
  <2> DEFINE v == HighValues(radix, e)
  <2>1. \A i \in 1 .. Len(e) : v[i] = v[i - 1] * radix + e[i]
    BY <1>1, HighValuesAre
  <2> HIDE DEF v
  <2>2. v[n + 1] = v[(n + 1) - 1] * radix + e[n + 1]
    BY <1>3, <2>1
  <2>3. v[n + 1] = v[n] * radix + c
    BY <1>1, <1>3, <2>2
  <2> QED
    BY <2>3 DEF v
<1>5. Agree(e, ds, n)
  BY <1>1 DEF Agree
<1>6. HighValues(radix, e)[n] = HighValues(radix, ds)[n]
  BY <1>1, <1>2, <1>5, HighValuesAgree
<1>7. DigitsValue(radix, e) = HighValues(radix, e)[n + 1] /\ DigitsValue(radix, ds) = HighValues(radix, ds)[n]
  BY <1>1 DEF DigitsValue
<1> QED
  BY <1>1, <1>4, <1>6, <1>7 DEF e

\* A single digit stands for itself.
LEMMA DigitsValueOne ==
  ASSUME NEW radix \in Nat, NEW c \in Nat
  PROVE  <<c>> \in Seq(Nat) /\ Len(<<c>>) = 1 /\ DigitsValue(radix, <<c>>) = c
<1>1. <<>> \in Seq(Nat) /\ Len(<<>>) = 0
  BY EmptySeq
<1>2. Append(<<>>, c) = <<c>>
  OBVIOUS
<1>6. DigitsValue(radix, <<>>) = 0
  BY <1>1, DigitsValueNat
<1>3. DigitsValue(radix, <<>>) = 0 /\ 0 * radix + c = c
  BY <1>6
<1>4. <<c>> \in Seq(Nat) /\ Len(<<c>>) = 1
  OBVIOUS
<1>5. DigitsValue(radix, Append(<<>>, c)) = DigitsValue(radix, <<>>) * radix + c
  BY <1>1, DigitsValueAppend
<1> QED
  BY <1>2, <1>3, <1>4, <1>5

(***************************************************************************)
(* The value of n digits is less than radix^n, and radix^(n - 1) at least  *)
(* unless the first one is 0.                                              *)
(***************************************************************************)
LEMMA DigitsBound ==
  ASSUME NEW radix \in Nat, radix > 1, NEW ds \in Seq(0 .. radix - 1)
  PROVE  /\ ds \in Seq(Nat) /\ Len(ds) \in Nat
         /\ DigitsValue(radix, ds) \in Nat
         /\ DigitsValue(radix, ds) < Power(radix, Len(ds))
         /\ Len(ds) > 0 /\ ds[1] # 0 => Power(radix, Len(ds) - 1) <= DigitsValue(radix, ds)
<1> DEFINE n == Len(ds)
           v == HighValues(radix, ds)
           T == {i \in 0 .. n : /\ v[i] < Power(radix, i)
                                /\ i > 0 /\ ds[1] # 0 => Power(radix, i - 1) <= v[i]}
<1>1. n \in Nat /\ ds \in Seq(Nat) /\ \A i \in 1 .. n : ds[i] \in Nat /\ ds[i] < radix
  <2>1. \A i \in 1 .. n : ds[i] \in 0 .. radix - 1
    BY ElementOfSeq
  <2>2. ds \in Seq(Nat)
    <3>1. 0 .. radix - 1 \subseteq Nat
      OBVIOUS
    <3> QED
      BY <3>1, SeqMonotonic
  <2>3. n \in Nat
    BY LenProperties
  <2> QED
    BY <2>1, <2>2, <2>3
<1>2. v \in [0 .. n -> Nat] /\ v[0] = 0 /\ \A i \in 1 .. n : v[i] = v[i - 1] * radix + ds[i]
  BY <1>1, HighValuesAre
<1> HIDE DEF v
<1>3. 0 \in T
  <2>1. Power(radix, 0) = 1
    BY PowerIs
  <2> QED
    BY <1>1, <1>2, <2>1
<1>4. ASSUME NEW i \in 0 .. n - 1, i \in T PROVE i + 1 \in T
  <2> DEFINE j == i + 1
             p == Power(radix, i)
             q == Power(radix, j)
             x == ds[j]
             a == v[i]
             b == v[j]
  <2>1. j \in 1 .. n /\ j - 1 = i /\ j \in 0 .. n /\ i \in 0 .. n /\ i \in Nat
    BY <1>1
  <2>2. b = a * radix + x /\ x \in Nat /\ x < radix /\ a \in Nat
    BY <1>1, <1>2, <2>1
  <2>3. p \in Nat /\ q = radix * p /\ q \in Nat
    BY <2>1, PowerIs
  <2>4. a < p /\ (i > 0 /\ ds[1] # 0 => Power(radix, i - 1) <= a)
    BY <1>4
  <2> HIDE DEF p, q, x, a, b
  <2>5. b < q
    <3>1. (a + 1) * radix <= p * radix
      BY <2>2, <2>3, <2>4
    <3>2. (a + 1) * radix = a * radix + radix /\ a * radix \in Nat /\ p * radix = radix * p
      BY <2>2, <2>3
    <3> DEFINE e == a * radix
               f == p * radix
               g == (a + 1) * radix
    <3>3. g = e + radix /\ e \in Nat /\ g <= f /\ q = f /\ b = e + x
      BY <2>2, <2>3, <3>1, <3>2
    <3> HIDE DEF e, f, g
    <3> QED
      BY <2>2, <2>3, <3>3
  <2>6. ASSUME ds[1] # 0 PROVE p <= b
    <3>1. CASE i = 0
      <4>1. p = 1 /\ j = 1
        BY <3>1, PowerIs DEF p
      <4>2. x # 0 /\ a * radix \in Nat
        BY <2>2, <2>6, <4>1 DEF x
      <4> DEFINE e == a * radix
      <4>3. e \in Nat /\ b = e + x
        BY <2>2, <4>2
      <4> HIDE DEF e
      <4> QED
        BY <2>2, <4>1, <4>2, <4>3
    <3>2. CASE i > 0
      <4> DEFINE k == i - 1
                 r == Power(radix, k)
      <4>1. k \in Nat /\ i = k + 1
        BY <2>1, <3>2
      <4>2. r <= a
        BY <2>4, <2>6, <3>2
      <4> HIDE DEF k
      <4>3. p = radix * r /\ r \in Nat
        BY <4>1, PowerIs DEF p
      <4> HIDE DEF r
      <4>4. radix * r <= radix * a /\ radix * a = a * radix /\ a * radix \in Nat /\ radix * r \in Nat
        BY <2>2, <4>2, <4>3
      <4> DEFINE e == a * radix
                 f == radix * a
                 g == radix * r
      <4>5. g <= f /\ f = e /\ e \in Nat /\ g \in Nat /\ p = g /\ b = e + x
        BY <2>2, <4>3, <4>4
      <4> HIDE DEF e, f, g
      <4> QED
        BY <2>2, <4>5
    <3> QED
      BY <2>1, <3>1, <3>2
  <2> QED
    BY <2>1, <2>5, <2>6 DEF p, q, b
<1> HIDE DEF T
<1>5. n \in T
  <2>1. \A i \in 0 .. n : i \in T
    BY <1>1, <1>3, <1>4, InductUpTo
  <2> QED
    BY <1>1, <2>1
<1>6. DigitsValue(radix, ds) = v[n] /\ v[n] \in Nat
  BY <1>1, <1>2 DEF v, DigitsValue
<1> QED
  BY <1>1, <1>5, <1>6 DEF T

-----------------------------------------------------------------------------
(* The scanner.                                                            *)

\* The states of the scanner.
ScanStates ==
  [cs : {"START", "NUMBER0", "NUMBERX", "ZEROS", "DIGITS", "ABORT"}, sign : {-1, 1},
   radix : {2, 8, 10, 16}, digits : Nat, ds : Seq(Nat)]

\* A state by its parts.
ScanState(cs, sign, radix, digits, ds) ==
  [cs |-> cs, sign |-> sign, radix |-> radix, digits |-> digits, ds |-> ds]

(***************************************************************************)
(* What each character leads to, state by state.                           *)
(***************************************************************************)
LEMMA ScanIs ==
  ASSUME NEW q \in ScanStates, NEW c \in Nat
  PROVE  /\ c = Blank => Scan(q, c) = q
         /\ c # Blank =>
              /\ q.cs = "START" /\ c = Plus => Scan(q, c) = [q EXCEPT !.cs = "NUMBER0"]
              /\ q.cs = "START" /\ c = Minus => Scan(q, c) = [q EXCEPT !.cs = "NUMBER0", !.sign = -1]
              /\ q.cs \in {"START", "NUMBER0"} /\ c = 0 => Scan(q, c) = [q EXCEPT !.cs = "NUMBERX"]
              /\ q.cs \in {"START", "NUMBER0"} /\ c \in 1 .. 9 => Scan(q, c) = FirstDigit(q, 10, c)
              /\ q.cs = "START" /\ c \notin {Plus, Minus} /\ c \notin 0 .. 9 => Scan(q, c) = [q EXCEPT !.cs = "ABORT"]
              /\ q.cs = "NUMBER0" /\ c \notin 0 .. 9 => Scan(q, c) = [q EXCEPT !.cs = "ABORT"]
              /\ q.cs = "NUMBERX" /\ c \in {11, Oh, Ex} => Scan(q, c) = [q EXCEPT !.cs = "ZEROS", !.radix = RadixOf(c)]
              /\ q.cs = "NUMBERX" /\ c \in 0 .. 9 => Scan(q, c) = FirstDigit(q, 10, c)
              /\ q.cs = "NUMBERX" /\ c \notin {11, Oh, Ex} /\ c \notin 0 .. 9 => Scan(q, c) = [q EXCEPT !.cs = "ABORT"]
              /\ q.cs = "ZEROS" /\ c < q.radix => Scan(q, c) = FirstDigit(q, q.radix, c)
              /\ q.cs = "ZEROS" /\ ~(c < q.radix) => Scan(q, c) = [q EXCEPT !.cs = "ABORT"]
              /\ q.cs = "DIGITS" /\ c < q.radix =>
                   Scan(q, c) = [q EXCEPT !.digits = @ + Counted(q, c), !.ds = Append(@, c)]
              /\ q.cs = "DIGITS" /\ ~(c < q.radix) => Scan(q, c) = [q EXCEPT !.cs = "ABORT"]
              /\ q.cs = "ABORT" => Scan(q, c) = [q EXCEPT !.cs = "ABORT"]
<1>1. q.cs \in {"START", "NUMBER0", "NUMBERX", "ZEROS", "DIGITS", "ABORT"} /\ q.radix \in {2, 8, 10, 16}
  BY DEF ScanStates
<1>2. c \in 0 .. q.radix - 1 <=> c < q.radix
  BY <1>1
<1>3. c = Blank => Scan(q, c) = q
  <2>1. [q EXCEPT !.cs = q.cs] = q
    BY DEF ScanStates
  <2> SUFFICES ASSUME c = Blank PROVE Scan(q, c) = q
    OBVIOUS
  <2>2. CASE q.cs = "ABORT"
    BY <2>1, <2>2 DEF Scan, Blank, Plus, Minus, Oh, Ex
  <2>3. CASE q.cs # "ABORT"
    <3>1. c \notin 0 .. 19
      BY DEF Blank
    <3>2. c \notin {Plus, Minus, Oh, Ex, 11}
      BY DEF Blank, Plus, Minus, Oh, Ex
    <3>3. c # 0 /\ c \notin 1 .. 9 /\ c \notin 0 .. 9 /\ c \notin {11, Oh, Ex} /\ c \notin 0 .. q.radix - 1 /\ c # Plus /\ c # Minus
      BY <1>1, <3>1, <3>2
    <3> QED
      BY <2>3, <3>3 DEF Scan
  <2> QED
    BY <2>2, <2>3
<1>4. ASSUME c # Blank, q.cs = "START"
      PROVE  /\ c = Plus => Scan(q, c) = [q EXCEPT !.cs = "NUMBER0"]
             /\ c = Minus => Scan(q, c) = [q EXCEPT !.cs = "NUMBER0", !.sign = -1]
             /\ c = 0 => Scan(q, c) = [q EXCEPT !.cs = "NUMBERX"]
             /\ c \in 1 .. 9 => Scan(q, c) = FirstDigit(q, 10, c)
             /\ c \notin {Plus, Minus} /\ c \notin 0 .. 9 => Scan(q, c) = [q EXCEPT !.cs = "ABORT"]
  BY <1>4 DEF Scan, Plus, Minus, Oh, Ex, Blank
<1>5. ASSUME c # Blank, q.cs = "NUMBER0"
      PROVE  /\ c = 0 => Scan(q, c) = [q EXCEPT !.cs = "NUMBERX"]
             /\ c \in 1 .. 9 => Scan(q, c) = FirstDigit(q, 10, c)
             /\ c \notin 0 .. 9 => Scan(q, c) = [q EXCEPT !.cs = "ABORT"]
  BY <1>5 DEF Scan, Plus, Minus, Oh, Ex, Blank
<1>6. ASSUME c # Blank, q.cs = "NUMBERX"
      PROVE  /\ c \in {11, Oh, Ex} => Scan(q, c) = [q EXCEPT !.cs = "ZEROS", !.radix = RadixOf(c)]
             /\ c \in 0 .. 9 => Scan(q, c) = FirstDigit(q, 10, c)
             /\ c \notin {11, Oh, Ex} /\ c \notin 0 .. 9 => Scan(q, c) = [q EXCEPT !.cs = "ABORT"]
  BY <1>6 DEF Scan, Plus, Minus, Oh, Ex, Blank
<1>7. ASSUME c # Blank, q.cs = "ZEROS"
      PROVE  /\ c < q.radix => Scan(q, c) = FirstDigit(q, q.radix, c)
             /\ ~(c < q.radix) => Scan(q, c) = [q EXCEPT !.cs = "ABORT"]
  BY <1>2, <1>7 DEF Scan, Plus, Minus, Oh, Ex, Blank
<1>8. ASSUME c # Blank, q.cs = "DIGITS"
      PROVE  /\ c < q.radix => Scan(q, c) = [q EXCEPT !.digits = @ + Counted(q, c), !.ds = Append(@, c)]
             /\ ~(c < q.radix) => Scan(q, c) = [q EXCEPT !.cs = "ABORT"]
  BY <1>2, <1>8 DEF Scan, Plus, Minus, Oh, Ex, Blank
<1>9. ASSUME c # Blank, q.cs = "ABORT"
      PROVE  Scan(q, c) = [q EXCEPT !.cs = "ABORT"]
  BY <1>9 DEF Scan
<1> QED
  BY <1>3, <1>4, <1>5, <1>6, <1>7, <1>8, <1>9

\* A step of the scanner to another state, field by field.
LEMMA MoveIs ==
  ASSUME NEW q \in ScanStates, NEW cs \in {"NUMBER0", "NUMBERX", "ABORT"}
  PROVE  /\ [q EXCEPT !.cs = cs] \in ScanStates /\ [q EXCEPT !.cs = cs].cs = cs
         /\ [q EXCEPT !.cs = cs].sign = q.sign /\ [q EXCEPT !.cs = cs].radix = q.radix
         /\ [q EXCEPT !.cs = cs].digits = q.digits /\ [q EXCEPT !.cs = cs].ds = q.ds
BY DEF ScanStates

\* A further digit, field by field.
LEMMA NextDigitIs ==
  ASSUME NEW q \in ScanStates, NEW c \in Nat, NEW r, r = [q EXCEPT !.digits = @ + Counted(q, c), !.ds = Append(@, c)]
  PROVE  /\ r \in ScanStates /\ r.cs = q.cs /\ r.sign = q.sign /\ r.radix = q.radix
         /\ r.digits = q.digits + Counted(q, c) /\ r.ds = Append(q.ds, c)
         /\ Counted(q, c) \in {0, 1} /\ (Counted(q, c) = 0 => q.radix = 8 /\ c = 0)
<1>1. Counted(q, c) \in {0, 1} /\ (Counted(q, c) = 0 => q.radix = 8 /\ c = 0)
  BY DEF Counted
<1>2. q.digits \in Nat /\ q.ds \in Seq(Nat)
  BY DEF ScanStates
<1> DEFINE n == q.digits + Counted(q, c)
           ds == Append(q.ds, c)
<1>3. n \in Nat
  BY <1>1, <1>2
<1>4. ds \in Seq(Nat)
  BY <1>2, AppendProperties
<1>5. r = [q EXCEPT !.digits = n, !.ds = ds]
  OBVIOUS
<1> HIDE DEF n, ds
<1>6. /\ r \in ScanStates /\ r.cs = q.cs /\ r.sign = q.sign /\ r.radix = q.radix /\ r.digits = n /\ r.ds = ds
  BY <1>3, <1>4, <1>5 DEF ScanStates
<1> QED
  BY <1>1, <1>6 DEF n, ds

\* A prefix, field by field.
LEMMA PrefixIs ==
  ASSUME NEW q \in ScanStates, NEW c \in {11, Oh, Ex}, NEW r, r = [q EXCEPT !.cs = "ZEROS", !.radix = RadixOf(c)]
  PROVE  /\ r \in ScanStates /\ r.cs = "ZEROS" /\ r.sign = q.sign /\ r.radix = RadixOf(c)
         /\ r.digits = q.digits /\ r.ds = q.ds
<1>1. RadixOf(c) \in {2, 8, 10, 16}
  BY DEF RadixOf, Oh, Ex
<1> QED
  BY <1>1 DEF ScanStates

(***************************************************************************)
(* The scanner stays among its states.                                     *)
(***************************************************************************)
LEMMA ScanTyped ==
  ASSUME NEW q \in ScanStates, NEW c \in Nat
  PROVE  Scan(q, c) \in ScanStates
<1>1. /\ q.cs \in {"START", "NUMBER0", "NUMBERX", "ZEROS", "DIGITS", "ABORT"} /\ q.radix \in {2, 8, 10, 16}
      /\ <<c>> \in Seq(Nat)
  BY DEF ScanStates
<1>2. \A cs \in {"NUMBER0", "NUMBERX", "ABORT"} : [q EXCEPT !.cs = cs] \in ScanStates
  BY MoveIs
<1>3. \A radix \in {2, 8, 10, 16} : FirstDigit(q, radix, c) \in ScanStates
  BY <1>1 DEF FirstDigit, ScanStates
<1>4. [q EXCEPT !.cs = "NUMBER0", !.sign = -1] \in ScanStates
  BY DEF ScanStates
<1> DEFINE r == Scan(q, c)
           To(cs) == [q EXCEPT !.cs = cs]
<1>5. CASE c = Blank
  BY <1>5, ScanIs, ZenonT(40)
<1>6. CASE c # Blank /\ q.cs = "START"
  <2>1. \/ r = To("NUMBER0") \/ r = [q EXCEPT !.cs = "NUMBER0", !.sign = -1]
        \/ r = To("NUMBERX") \/ r = FirstDigit(q, 10, c) \/ r = To("ABORT")
    <3>1. c = Plus \/ c = Minus \/ c = 0 \/ c \in 1 .. 9 \/ (c \notin {Plus, Minus} /\ c \notin 0 .. 9)
      OBVIOUS
    <3> HIDE DEF r
    <3> QED
      BY <1>6, <3>1, ScanIs, ZenonT(40) DEF r
  <2> QED
    BY <1>2, <1>3, <1>4, <2>1, SMTT(30)
<1>7. CASE c # Blank /\ q.cs = "NUMBER0"
  <2>1. r = To("NUMBERX") \/ r = FirstDigit(q, 10, c) \/ r = To("ABORT")
    <3>1. c = 0 \/ c \in 1 .. 9 \/ c \notin 0 .. 9
      OBVIOUS
    <3> QED
      BY <1>7, <3>1, ScanIs, ZenonT(40)
  <2> QED
    BY <1>2, <1>3, <2>1
<1>8. CASE c # Blank /\ q.cs = "NUMBERX"
  <2>1. CASE c \in {11, Oh, Ex}
    BY <1>8, <2>1, ScanIs, PrefixIs, ZenonT(40)
  <2>2. CASE c \notin {11, Oh, Ex}
    BY <1>2, <1>3, <1>8, <2>2, ScanIs, ZenonT(40)
  <2> QED
    BY <2>1, <2>2
<1>9. CASE c # Blank /\ q.cs = "ZEROS"
  BY <1>1, <1>2, <1>3, <1>9, ScanIs, ZenonT(40)
<1>10. CASE c # Blank /\ q.cs = "DIGITS"
  <2>1. CASE c < q.radix
    <3>1. r = [q EXCEPT !.digits = @ + Counted(q, c), !.ds = Append(@, c)]
      BY <1>10, <2>1, ScanIs, ZenonT(40)
    <3> HIDE DEF r
    <3>2. r \in ScanStates
      BY <3>1, NextDigitIs, ZenonT(40)
    <3> QED
      BY <3>2 DEF r
  <2>2. CASE ~(c < q.radix)
    BY <1>2, <1>10, <2>2, ScanIs, ZenonT(40)
  <2> QED
    BY <2>1, <2>2
<1>11. CASE c # Blank /\ q.cs = "ABORT"
  BY <1>2, <1>11, ScanIs, ZenonT(40)
<1> QED
  BY <1>1, <1>5, <1>6, <1>7, <1>8, <1>9, <1>10, <1>11

\* The states a text takes the scanner through, and what of it is not blank.
ScanRun(q, t) ==
  /\ q[0] = ScanStart /\ \A i \in 1 .. Len(t) : q[i] = Scan(q[i - 1], t[i])
  /\ Scanned(t) = q[Len(t)]
NonBlankRun(u, t) ==
  /\ u[0] = <<>> /\ \A i \in 1 .. Len(t) : u[i] = IF t[i] = Blank THEN u[i - 1] ELSE Append(u[i - 1], t[i])
  /\ NonBlank(t) = u[Len(t)]

\* The states of the scanner are what the recursive function of Scanned gives.
LEMMA ScanRunExists ==
  ASSUME NEW t \in Seq(Nat)
  PROVE  Len(t) \in Nat /\ \E q \in [0 .. Len(t) -> ScanStates] : ScanRun(q, t)
<1> DEFINE n == Len(t)
           F == [p \in (1 .. n) \X ScanStates |-> Scan(p[2], t[p[1]])]
           Body(v) == [i \in 0 .. n |-> IF i = 0 THEN ScanStart ELSE Scan(v[i - 1], t[i])]
           q == CHOOSE v : v = Body(v)
<1>1. n \in Nat /\ \A i \in 1 .. n : t[i] \in Nat
  BY ElementOfSeq
<1>2. ScanStart \in ScanStates
  <2>1. <<>> \in Seq(Nat)
    BY EmptySeq
  <2> QED
    BY <2>1 DEF ScanStart, ScanStates
<1> HIDE DEF n
<1>3. \A i \in 1 .. n, s \in ScanStates : F[<<i, s>>] = Scan(s, t[i])
  OBVIOUS
<1> HIDE DEF F
<1>4. Steps(F, n, ScanStates)
  BY <1>1, <1>3, ScanTyped DEF Steps
<1>5. PICK f \in [0 .. n -> ScanStates] : Iterated(f, F, n, ScanStart)
  BY <1>1, <1>2, <1>4, IterationExists
<1>6. f = Body(f)
  <2>1. ASSUME NEW i \in 0 .. n PROVE f[i] = IF i = 0 THEN ScanStart ELSE Scan(f[i - 1], t[i])
    <3>1. CASE i = 0
      BY <3>1, <1>5 DEF Iterated
    <3>2. CASE i # 0
      <4>1. i \in 1 .. n /\ i - 1 \in 0 .. n
        BY <1>1, <3>2
      <4> QED
        BY <1>3, <1>5, <3>2, <4>1 DEF Iterated
    <3> QED
      BY <3>1, <3>2
  <2> QED
    BY <2>1, <1>5
<1>7. q = Body(q)
  <2> HIDE DEF Body
  <2> QED
    BY <1>6
<1>8. Scanned(t) = q[n]
  BY DEF Scanned, n
<1> HIDE DEF q
<1>9. q = [i \in 0 .. n |-> q[i]] /\ q[0] = ScanStart
  BY <1>1, <1>7
<1>10. \A i \in 1 .. n : q[i] = Scan(q[i - 1], t[i])
  <2>1. \A i \in 1 .. n : i \in 0 .. n /\ i # 0
    BY <1>1
  <2> QED
    BY <1>7, <2>1
<1>11. Iterates(q, F, n, ScanStates, ScanStart)
  BY <1>3, <1>9, <1>10 DEF Iterates
<1>12. q \in [0 .. n -> ScanStates]
  BY <1>1, <1>2, <1>4, <1>11, IterationIs
<1> QED
  BY <1>1, <1>8, <1>9, <1>10, <1>12 DEF ScanRun, n

\* The text without blanks, built character by character.
LEMMA NonBlankRunExists ==
  ASSUME NEW t \in Seq(Nat)
  PROVE  \E u \in [0 .. Len(t) -> Seq(Nat)] : NonBlankRun(u, t)
<1> DEFINE n == Len(t)
           S == Seq(Nat)
           G(s, c) == IF c = Blank THEN s ELSE Append(s, c)
           F == [p \in (1 .. n) \X S |-> G(p[2], t[p[1]])]
           Body(v) == [i \in 0 .. n |-> IF i = 0 THEN <<>> ELSE IF t[i] = Blank THEN v[i - 1] ELSE Append(v[i - 1], t[i])]
           u == CHOOSE v : v = Body(v)
<1>1. n \in Nat /\ \A i \in 1 .. n : t[i] \in Nat
  BY ElementOfSeq
<1>2. <<>> \in S
  BY EmptySeq
<1> HIDE DEF n
<1>3. \A i \in 1 .. n, s \in S : F[<<i, s>>] = G(s, t[i])
  OBVIOUS
<1> HIDE DEF F
<1>4. Steps(F, n, S)
  <2> SUFFICES ASSUME NEW i \in 1 .. n, NEW s \in S PROVE F[<<i, s>>] \in S
    BY DEF Steps
  <2>1. Append(s, t[i]) \in S
    BY <1>1, AppendProperties
  <2> QED
    BY <1>3, <2>1
<1>5. PICK f \in [0 .. n -> S] : Iterated(f, F, n, <<>>)
  <2> HIDE DEF S
  <2> QED
    BY <1>1, <1>2, <1>4, IterationExists
<1>6. f = Body(f)
  <2>1. ASSUME NEW i \in 0 .. n PROVE f[i] = IF i = 0 THEN <<>> ELSE G(f[i - 1], t[i])
    <3> HIDE DEF S, G
    <3>1. CASE i = 0
      BY <3>1, <1>5 DEF Iterated
    <3>2. CASE i # 0
      <4>1. i \in 1 .. n /\ i - 1 \in 0 .. n
        BY <1>1, <3>2
      <4> QED
        BY <1>3, <1>5, <3>2, <4>1 DEF Iterated
    <3> QED
      BY <3>1, <3>2
  <2> QED
    BY <2>1, <1>5
<1>7. u = Body(u)
  <2> HIDE DEF Body
  <2> QED
    BY <1>6
<1>8. NonBlank(t) = u[n]
  BY DEF NonBlank, n
<1> HIDE DEF u
<1>9. u = [i \in 0 .. n |-> u[i]] /\ u[0] = <<>>
  BY <1>1, <1>7
<1>10. \A i \in 1 .. n : u[i] = IF t[i] = Blank THEN u[i - 1] ELSE Append(u[i - 1], t[i])
  <2>1. \A i \in 1 .. n : i \in 0 .. n /\ i # 0
    BY <1>1
  <2> QED
    BY <1>7, <2>1
<1>11. Iterates(u, F, n, S, <<>>)
  BY <1>3, <1>9, <1>10 DEF Iterates
<1>12. u \in [0 .. n -> S]
  <2> HIDE DEF S
  <2> QED
    BY <1>1, <1>2, <1>4, <1>11, IterationIs
<1> QED
  BY <1>8, <1>9, <1>10, <1>12 DEF NonBlankRun, n

\* What Meaning makes of a text without its blanks.
SignLen(u) == IF u # <<>> /\ u[1] \in {Plus, Minus} THEN 1 ELSE 0
SignNum(u) == IF SignLen(u) = 1 /\ u[1] = Minus THEN -1 ELSE 1
Prefixed(u) == Len(u) > SignLen(u) + 1 /\ u[SignLen(u) + 1] = 0 /\ u[SignLen(u) + 2] \in {11, Oh, Ex}
RadixIn(u) == IF Prefixed(u) THEN RadixOf(u[SignLen(u) + 2]) ELSE 10
DigitsIn(u) == SubSeq(u, SignLen(u) + (IF Prefixed(u) THEN 3 ELSE 1), Len(u))
Below(ds, radix) == \A i \in 1 .. Len(ds) : ds[i] < radix

\* Meaning in terms of the operators above.
LEMMA MeaningIs ==
  ASSUME NEW t, NEW u, u = NonBlank(t)
  PROVE  Meaning(t) = [sign |-> SignNum(u), radix |-> RadixIn(u), ds |-> DigitsIn(u),
                       wellformed |-> Below(DigitsIn(u), RadixIn(u))]
BY DEF Meaning, SignNum, RadixIn, DigitsIn, Below, Prefixed, SignLen

\* A sign is at most one character.
LEMMA SignLenIs ==
  ASSUME NEW u \in Seq(Nat)
  PROVE  /\ Len(u) \in Nat /\ SignLen(u) \in {0, 1} /\ SignLen(u) <= Len(u)
         /\ RadixIn(u) \in {2, 8, 10, 16} /\ SignNum(u) \in {-1, 1}
<1>1. Len(u) \in Nat /\ (u # <<>> => Len(u) > 0)
  BY LenProperties, EmptySeq
<1>2. RadixIn(u) \in {2, 8, 10, 16}
  <2>1. CASE Prefixed(u)
    <3> DEFINE c == u[SignLen(u) + 2]
    <3>1. c \in {11, Oh, Ex} /\ RadixIn(u) = RadixOf(c)
      BY <2>1 DEF Prefixed, RadixIn
    <3> HIDE DEF c
    <3> QED
      BY <3>1 DEF RadixOf, Oh, Ex
  <2>2. CASE ~Prefixed(u)
    BY <2>2 DEF RadixIn
  <2> QED
    BY <2>1, <2>2
<1>3. SignLen(u) \in {0, 1} /\ SignLen(u) <= Len(u) /\ SignNum(u) \in {-1, 1}
  BY <1>1 DEF SignLen, SignNum
<1> QED
  BY <1>1, <1>2, <1>3

(***************************************************************************)
(* A part that ends with the sequence grows with it.                       *)
(***************************************************************************)
LEMMA SubSeqGrows ==
  ASSUME NEW S, NEW u \in Seq(S), NEW c \in S, NEW m \in Nat, m > 0, m <= Len(u) + 1
  PROVE  /\ SubSeq(u, m, Len(u)) \in Seq(S) /\ Len(SubSeq(u, m, Len(u))) = Len(u) + 1 - m
         /\ SubSeq(Append(u, c), m, Len(u) + 1) = Append(SubSeq(u, m, Len(u)), c)
<1> DEFINE n == Len(u)
           v == Append(u, c)
           p == SubSeq(u, m, n)
           q == SubSeq(v, m, n + 1)
           r == Append(p, c)
<1>1. n \in Nat /\ \A i \in 1 .. n : u[i] \in S
  BY LenProperties, ElementOfSeq
<1>2. (\A i \in 1 .. n : v[i] = u[i]) /\ v[n + 1] = c
  BY AppendProperties
<1> HIDE DEF n, v
<1>3. p \in Seq(S) /\ Len(p) = n + 1 - m /\ \A i \in 1 .. n - m + 1 : p[i] = u[m + i - 1]
  <2>1. \A i \in m .. n : u[i] \in S
    BY <1>1
  <2>2. /\ p \in Seq(S) /\ Len(p) = (IF m <= n THEN n - m + 1 ELSE 0)
        /\ \A i \in 1 .. n - m + 1 : p[i] = u[m + i - 1]
    BY <1>1, <2>1, SubSeqProperties
  <2>3. m <= n + 1
    BY DEF n
  <2> QED
    BY <1>1, <2>2, <2>3
<1>4. q \in Seq(S) /\ Len(q) = n + 2 - m /\ \A i \in 1 .. n + 2 - m : q[i] = v[m + i - 1]
  <2>1. \A i \in m .. n + 1 : v[i] \in S
    <3>1. \A i \in m .. n + 1 : i \in 1 .. n \/ i = n + 1
      BY <1>1
    <3> QED
      BY <1>1, <1>2, <3>1
  <2> DEFINE k == n + 1
  <2>2. k \in Int /\ m \in Int /\ m <= k
    BY <1>1 DEF n
  <2> HIDE DEF k
  <2>3. /\ SubSeq(v, m, k) \in Seq(S) /\ Len(SubSeq(v, m, k)) = (IF m <= k THEN k - m + 1 ELSE 0)
        /\ \A i \in 1 .. k - m + 1 : SubSeq(v, m, k)[i] = v[m + i - 1]
    BY <2>1, <2>2, SubSeqProperties DEF k
  <2>4. k - m + 1 = n + 2 - m
    BY <1>1 DEF k
  <2> QED
    BY <2>2, <2>3, <2>4 DEF k
<1> HIDE DEF p, q
<1>5. /\ r \in Seq(S) /\ Len(r) = n + 1 - m + 1 /\ (\A i \in 1 .. n + 1 - m : r[i] = p[i]) /\ r[n + 1 - m + 1] = c
  BY <1>3, AppendProperties
<1> HIDE DEF r
<1>6. Len(q) = Len(r)
  BY <1>1, <1>4, <1>5
<1>7. ASSUME NEW i \in 1 .. Len(q) PROVE q[i] = r[i]
  <2>1. i \in 1 .. n + 2 - m /\ q[i] = v[m + i - 1]
    BY <1>4
  <2>2. CASE i <= n + 1 - m
    <3>1. i \in 1 .. n + 1 - m /\ i \in 1 .. n - m + 1 /\ m + i - 1 \in 1 .. n
      BY <1>1, <2>1, <2>2
    <3> QED
      BY <1>2, <1>3, <1>5, <2>1, <3>1
  <2>3. CASE ~(i <= n + 1 - m)
    <3>1. i = n + 1 - m + 1 /\ m + i - 1 = n + 1
      BY <1>1, <2>1, <2>3
    <3> QED
      BY <1>2, <1>5, <2>1, <3>1
  <2> QED
    BY <2>2, <2>3
<1>8. q = r
  BY <1>4, <1>5, <1>6, <1>7, SeqEqual
<1> QED
  BY <1>3, <1>8 DEF n, v, p, q, r

\* Enough is read for the sign and the radix to be known.
Settled(u) == Len(u) > SignLen(u) + 1 \/ (Len(u) = SignLen(u) + 1 /\ u[Len(u)] # 0)

(***************************************************************************)
(* From there on every character is one more digit.                        *)
(***************************************************************************)
LEMMA SettledGrows ==
  ASSUME NEW u \in Seq(Nat), NEW c \in Nat, Settled(u), NEW v, v = Append(u, c)
  PROVE  /\ Settled(v) /\ SignNum(v) = SignNum(u) /\ RadixIn(v) = RadixIn(u)
         /\ DigitsIn(v) = Append(DigitsIn(u), c)
         /\ DigitsIn(u) \in Seq(Nat)
<1> DEFINE n == Len(u)
           s == SignLen(u)
<1>1. n \in Nat /\ s \in {0, 1} /\ s < n
  BY SignLenIs DEF Settled
<1>2. v \in Seq(Nat) /\ Len(v) = n + 1 /\ (\A i \in 1 .. n : v[i] = u[i]) /\ v[n + 1] = c
  BY AppendProperties
<1>3. SignLen(v) = s /\ SignNum(v) = SignNum(u)
  <2>1. v[1] = u[1] /\ u # <<>> /\ v # <<>>
    <3>1. 1 \in 1 .. n
      BY <1>1
    <3>2. v # <<>> /\ u # <<>>
      BY <1>1, <1>2, EmptySeq
    <3> QED
      BY <1>2, <3>1, <3>2
  <2>2. SignLen(v) = s
    BY <2>1 DEF SignLen
  <2> QED
    BY <2>1, <2>2 DEF SignNum
<1>4. (Prefixed(v) <=> Prefixed(u)) /\ RadixIn(v) = RadixIn(u)
  <2>1. CASE n > s + 1
    <3>1. s + 1 \in 1 .. n /\ s + 2 \in 1 .. n /\ Len(v) > s + 1
      BY <1>1, <1>2, <2>1
    <3>2. v[s + 1] = u[s + 1] /\ v[s + 2] = u[s + 2]
      BY <1>2, <3>1
    <3>3. (Prefixed(v) <=> Prefixed(u))
      BY <1>3, <2>1, <3>1, <3>2 DEF Prefixed
    <3> QED
      BY <1>3, <3>2, <3>3 DEF RadixIn
  <2>2. CASE ~(n > s + 1)
    <3>1. n = s + 1 /\ u[s + 1] # 0 /\ s + 1 \in 1 .. n
      BY <1>1, <2>2 DEF Settled
    <3>2. v[s + 1] # 0
      BY <1>2, <3>1
    <3>3. ~Prefixed(v) /\ ~Prefixed(u)
      BY <1>3, <2>2, <3>2 DEF Prefixed
    <3> QED
      BY <3>3 DEF RadixIn
  <2> QED
    BY <2>1, <2>2
<1>5. Settled(v)
  <2>1. n + 1 > s + 1
    BY <1>1
  <2> QED
    BY <1>2, <1>3, <2>1 DEF Settled
<1> DEFINE m == s + (IF Prefixed(u) THEN 3 ELSE 1)
<1>6. m \in Nat /\ m > 0 /\ m <= n + 1
  BY <1>1 DEF Prefixed
<1>7. DigitsIn(u) = SubSeq(u, m, n) /\ DigitsIn(v) = SubSeq(v, m, n + 1)
  BY <1>2, <1>3, <1>4 DEF DigitsIn
<1> HIDE DEF m, n, s
<1>8. SubSeq(u, m, n) \in Seq(Nat) /\ SubSeq(v, m, n + 1) = Append(SubSeq(u, m, n), c)
  BY <1>6, SubSeqGrows, ZenonT(40) DEF n
<1> QED
  BY <1>3, <1>4, <1>5, <1>7, <1>8

(***************************************************************************)
(* The first character after the sign.                                     *)
(***************************************************************************)
LEMMA FirstCharacter ==
  ASSUME NEW u \in Seq(Nat), NEW c \in Nat, Len(u) = SignLen(u), u = <<>> => c \notin {Plus, Minus},
         NEW v, v = Append(u, c)
  PROVE  /\ SignLen(v) = SignLen(u) /\ SignNum(v) = SignNum(u) /\ RadixIn(v) = 10
         /\ Len(v) = SignLen(v) + 1 /\ v[Len(v)] = c
         /\ DigitsIn(v) = <<c>>
<1> DEFINE n == Len(u)
<1>1. n \in {0, 1} /\ SignLen(u) = n
  BY SignLenIs
<1>2. v \in Seq(Nat) /\ Len(v) = n + 1 /\ (\A i \in 1 .. n : v[i] = u[i]) /\ v[n + 1] = c
  BY AppendProperties
<1>3. SignLen(v) = n /\ SignNum(v) = SignNum(u)
  <2>1. v # <<>>
    BY <1>1, <1>2, EmptySeq
  <2>2. CASE n = 0
    <3>1. u = <<>>
      BY <2>2, EmptySeq
    <3>2. v[1] = c
      BY <1>2, <2>2
    <3>3. SignLen(v) = 0
      BY <3>1, <3>2 DEF SignLen
    <3> QED
      BY <1>1, <2>2, <3>3 DEF SignNum
  <2>3. CASE n = 1
    <3>1. v[1] = u[1]
      BY <1>2, <2>3
    <3>2. u # <<>> /\ u[1] \in {Plus, Minus}
      BY <1>1, <2>3 DEF SignLen
    <3>3. SignLen(v) = 1
      BY <2>1, <3>1, <3>2 DEF SignLen
    <3> QED
      BY <1>1, <2>3, <3>1, <3>3 DEF SignNum
  <2> QED
    BY <1>1, <2>2, <2>3
<1>4. ~Prefixed(v)
  BY <1>1, <1>2, <1>3 DEF Prefixed
<1>5. DigitsIn(v) = SubSeq(v, n + 1, n + 1)
  BY <1>2, <1>3, <1>4 DEF DigitsIn
<1>6. SubSeq(v, n + 1, n + 1) = <<c>>
  <2> DEFINE p == SubSeq(u, n + 1, n)
  <2>0. n + 1 \in Nat /\ n + 1 > 0 /\ n + 1 <= Len(u) + 1 /\ n < n + 1 /\ n \in Int /\ n + 1 \in Int
    BY <1>1
  <2>1. p = <<>>
    <3> DEFINE k == n + 1
    <3> HIDE DEF k, n
    <3>1. SubSeq(u, k, n) = <<>>
      BY <2>0, SubSeqEmpty DEF k
    <3> QED
      BY <3>1 DEF k
  <2> DEFINE k == n + 1
  <2> HIDE DEF k
  <2>2. SubSeq(v, k, n + 1) = Append(SubSeq(u, k, n), c)
    BY <2>0, SubSeqGrows DEF k
  <2> QED
    <3>1. Append(<<>>, c) = <<c>>
      OBVIOUS
    <3>2. SubSeq(u, k, n) = <<>>
      BY <2>1 DEF k
    <3>3. SubSeq(v, k, n + 1) = <<c>>
      BY <2>2, <3>1, <3>2
    <3> QED
      BY <3>3 DEF k
<1> QED
  BY <1>1, <1>2, <1>3, <1>4, <1>5, <1>6 DEF RadixIn

(***************************************************************************)
(* The character after a 0 in front.                                       *)
(***************************************************************************)
LEMMA SecondCharacter ==
  ASSUME NEW u \in Seq(Nat), NEW c \in Nat, Len(u) = SignLen(u) + 1, u[Len(u)] = 0,
         NEW v, v = Append(u, c)
  PROVE  /\ Settled(v) /\ SignNum(v) = SignNum(u)
         /\ c \in {11, Oh, Ex} => RadixIn(v) = RadixOf(c) /\ DigitsIn(v) = <<>>
         /\ c \notin {11, Oh, Ex} => RadixIn(v) = 10 /\ DigitsIn(v) = <<0, c>>
<1> DEFINE n == Len(u)
           s == SignLen(u)
<1>1. n \in Nat /\ s \in {0, 1} /\ n = s + 1
  BY SignLenIs
<1>2. v \in Seq(Nat) /\ Len(v) = s + 2 /\ (\A i \in 1 .. n : v[i] = u[i]) /\ v[s + 2] = c /\ Len(u) = s + 1
  <2>1. v \in Seq(Nat) /\ Len(v) = n + 1 /\ (\A i \in 1 .. n : v[i] = u[i]) /\ v[n + 1] = c
    BY AppendProperties
  <2>2. n + 1 = s + 2
    BY <1>1
  <2> QED
    BY <1>1, <2>1, <2>2
<1>3. SignLen(v) = s /\ SignNum(v) = SignNum(u)
  <2>1. v[1] = u[1] /\ u # <<>> /\ v # <<>>
    <3>1. 1 \in 1 .. n
      BY <1>1
    <3>2. v # <<>> /\ u # <<>>
      BY <1>1, <1>2, EmptySeq
    <3> QED
      BY <1>2, <3>1, <3>2
  <2>2. SignLen(v) = s
    BY <2>1 DEF SignLen
  <2> QED
    BY <2>1, <2>2 DEF SignNum
<1>4. v[s + 1] = 0 /\ u[s + 1] = 0
  <2>1. s + 1 \in 1 .. n
    BY <1>1
  <2> QED
    BY <1>1, <1>2, <2>1
<1>5. Prefixed(v) <=> c \in {11, Oh, Ex}
  BY <1>1, <1>2, <1>3, <1>4 DEF Prefixed
<1>6. Settled(v)
  BY <1>1, <1>2, <1>3 DEF Settled
<1>7. ASSUME c \in {11, Oh, Ex} PROVE RadixIn(v) = RadixOf(c) /\ DigitsIn(v) = <<>>
  <2>1. DigitsIn(v) = SubSeq(v, s + 3, s + 2)
    BY <1>2, <1>3, <1>5, <1>7 DEF DigitsIn
  <2> DEFINE a == s + 3
             b == s + 2
  <2>2. a \in Int /\ b \in Int /\ b < a
    BY <1>1
  <2> HIDE DEF a, b
  <2>3. SubSeq(v, a, b) = <<>>
    BY <2>2, SubSeqEmpty
  <2> QED
    BY <1>2, <1>3, <1>5, <1>7, <2>1, <2>3 DEF RadixIn, a, b
<1>8. ASSUME c \notin {11, Oh, Ex} PROVE RadixIn(v) = 10 /\ DigitsIn(v) = <<0, c>>
  <2>1. DigitsIn(v) = SubSeq(v, s + 1, s + 2) /\ RadixIn(v) = 10
    BY <1>2, <1>3, <1>5, <1>8 DEF DigitsIn, RadixIn
  <2> DEFINE m == s + 1
             p == SubSeq(u, m, n)
  <2>2. m \in Nat /\ m > 0 /\ m <= n + 1 /\ m = n
    BY <1>1
  <2> HIDE DEF m
  <2>3. p \in Seq(Nat) /\ Len(p) = n + 1 - m /\ SubSeq(v, m, n + 1) = Append(p, c)
    BY <2>2, SubSeqGrows
  <2>4. p[1] = 0
    <3>1. \A i \in m .. n : u[i] \in Nat
      BY <2>2, ElementOfSeq
    <3>2. \A i \in 1 .. n - m + 1 : p[i] = u[m + i - 1]
      <4>1. m \in Int /\ n \in Int
        BY <1>1, <2>2
      <4> HIDE DEF n
      <4> QED
        BY <3>1, <4>1, SubSeqProperties
    <3>3. 1 \in 1 .. n - m + 1 /\ m + 1 - 1 = n
      BY <1>1, <2>2
    <3>4. p[1] = u[m + 1 - 1]
      BY <3>2, <3>3
    <3> QED
      BY <3>3, <3>4
  <2>5. p = <<0>>
    <3>1. Len(p) = 1
      BY <1>1, <2>2, <2>3
    <3> HIDE DEF p
    <3> DEFINE z == <<0>>
    <3>2. z \in Seq(Nat) /\ Len(z) = 1 /\ z[1] = 0
      OBVIOUS
    <3> HIDE DEF z
    <3>3. \A i \in 1 .. Len(p) : p[i] = z[i]
      BY <2>4, <3>1, <3>2
    <3>4. p = z
      BY <2>3, <3>1, <3>2, <3>3, SeqEqual
    <3> QED
      BY <3>4 DEF z
  <2>6. Append(<<0>>, c) = <<0, c>>
    <3> DEFINE z == <<0>>
               y == Append(z, c)
               x == <<0, c>>
    <3>1. z \in Seq(Nat) /\ Len(z) = 1 /\ z[1] = 0
      OBVIOUS
    <3>2. x \in Seq(Nat) /\ Len(x) = 2 /\ x[1] = 0 /\ x[2] = c
      OBVIOUS
    <3> HIDE DEF x, z
    <3>3. y \in Seq(Nat) /\ Len(y) = 2 /\ y[1] = 0 /\ y[2] = c
      <4>1. /\ y \in Seq(Nat) /\ Len(y) = Len(z) + 1 /\ (\A i \in 1 .. Len(z) : y[i] = z[i])
            /\ y[Len(z) + 1] = c
        <5>1. z \in Seq(Nat)
          BY <3>1
        <5> QED
          BY <5>1, AppendProperties
      <4> HIDE DEF y
      <4>2. 1 \in 1 .. Len(z) /\ Len(z) + 1 = 2
        BY <3>1
      <4> QED
        BY <3>1, <4>1, <4>2
    <3> HIDE DEF y
    <3>4. \A i \in 1 .. Len(y) : y[i] = x[i]
      BY <3>2, <3>3
    <3>5. y = x
      BY <3>2, <3>3, <3>4, SeqEqual
    <3> QED
      BY <3>5 DEF x, y, z
  <2>7. n + 1 = s + 2
    BY <1>1
  <2> HIDE DEF p
  <2> QED
    BY <2>1, <2>3, <2>5, <2>6, <2>7 DEF m
<1> QED
  BY <1>3, <1>6, <1>7, <1>8

Unread(q) == q.digits = 0 /\ q.ds = <<>>

\* A 0 after the first digit, which is not counted in octal.
LaterZero(ds) == \E i \in 2 .. Len(ds) : ds[i] = 0

\* The digits kept are those read, without zeros in front.
Kept(q, ds) ==
  /\ q.ds \in Seq(0 .. q.radix - 1) /\ Len(q.ds) > 0 /\ q.ds[1] # 0 /\ Len(q.ds) <= Len(ds)
  /\ DigitsValue(q.radix, ds) = DigitsValue(q.radix, q.ds)
  /\ q.digits > 0 /\ q.digits <= Len(q.ds)
  /\ q.digits # Len(q.ds) => q.radix = 8 /\ LaterZero(ds)

InZeros(q, u) ==
  /\ Settled(u) /\ q.sign = SignNum(u) /\ q.radix = RadixIn(u) /\ Unread(q)
  /\ Below(DigitsIn(u), q.radix) /\ DigitsValue(q.radix, DigitsIn(u)) = 0
InDigits(q, u) ==
  /\ Settled(u) /\ q.sign = SignNum(u) /\ q.radix = RadixIn(u)
  /\ Below(DigitsIn(u), q.radix) /\ Kept(q, DigitsIn(u))

\* What the state of the scanner says of the text read up to it, without blanks.
Understood(q, u) ==
  /\ q.cs = "START" => u = <<>> /\ Unread(q) /\ q.sign = SignNum(u)
  /\ q.cs = "NUMBER0" => Len(u) = 1 /\ SignLen(u) = 1 /\ Unread(q) /\ q.sign = SignNum(u)
  /\ q.cs = "NUMBERX" => Len(u) = SignLen(u) + 1 /\ u[Len(u)] = 0 /\ Unread(q) /\ q.sign = SignNum(u)
  /\ q.cs = "ZEROS" => InZeros(q, u)
  /\ q.cs = "DIGITS" => InDigits(q, u)
  /\ q.cs = "ABORT" => Settled(u) /\ ~Below(DigitsIn(u), RadixIn(u))

\* Digits are below the radix if those in front and the last one are.
LEMMA BelowAppend ==
  ASSUME NEW ds \in Seq(Nat), NEW c \in Nat, NEW radix
  PROVE  Below(Append(ds, c), radix) <=> Below(ds, radix) /\ c < radix
<1> DEFINE e == Append(ds, c)
           n == Len(ds)
<1>1. n \in Nat /\ Len(e) = n + 1 /\ (\A i \in 1 .. n : e[i] = ds[i]) /\ e[n + 1] = c
  BY LenProperties, AppendProperties
<1>2. \A i \in 1 .. n + 1 : i \in 1 .. n \/ i = n + 1
  BY <1>1
<1>3. n + 1 \in 1 .. n + 1 /\ \A i \in 1 .. n : i \in 1 .. n + 1
  BY <1>1
<1> HIDE DEF e
<1>4. Below(e, radix) => Below(ds, radix) /\ c < radix
  BY <1>1, <1>3 DEF Below
<1>5. Below(ds, radix) /\ c < radix => Below(e, radix)
  BY <1>1, <1>2 DEF Below
<1> QED
  BY <1>4, <1>5 DEF e

\* A later 0 is among the digits in front, or it is the last one.
LEMMA LaterZeroAppend ==
  ASSUME NEW ds \in Seq(Nat), NEW c \in Nat
  PROVE  LaterZero(ds) \/ (c = 0 /\ Len(ds) > 0) => LaterZero(Append(ds, c))
<1> DEFINE e == Append(ds, c)
           n == Len(ds)
<1>1. n \in Nat /\ Len(e) = n + 1 /\ (\A i \in 1 .. n : e[i] = ds[i]) /\ e[n + 1] = c
  BY LenProperties, AppendProperties
<1> HIDE DEF e
<1>2. ASSUME LaterZero(ds) PROVE LaterZero(e)
  <2>1. PICK i \in 2 .. n : ds[i] = 0
    BY <1>2 DEF LaterZero
  <2>2. i \in 1 .. n /\ i \in 2 .. n + 1
    BY <1>1
  <2> QED
    BY <1>1, <2>1, <2>2 DEF LaterZero
<1>3. ASSUME c = 0, n > 0 PROVE LaterZero(e)
  <2>1. n + 1 \in 2 .. n + 1
    BY <1>1, <1>3
  <2> QED
    BY <1>1, <1>3, <2>1 DEF LaterZero
<1> QED
  BY <1>2, <1>3 DEF e

(***************************************************************************)
(* The first digit other than 0.                                           *)
(***************************************************************************)
LEMMA FirstKept ==
  ASSUME NEW q, NEW radix \in {2, 8, 10, 16}, NEW c \in Nat, c # 0, c < radix,
         q.radix = radix, q.digits = 1, q.ds = <<c>>,
         NEW ds \in Seq(Nat), Len(ds) > 0, DigitsValue(radix, ds) = c
  PROVE  Kept(q, ds)
<1> DEFINE e == <<c>>
<1>1. e \in Seq(0 .. radix - 1) /\ Len(e) = 1 /\ e[1] = c
  <2>1. c \in 0 .. radix - 1
    OBVIOUS
  <2> QED
    BY <2>1
<1>2. DigitsValue(radix, e) = c
  BY DigitsValueOne
<1>3. q.ds = e /\ Len(ds) \in Nat
  BY LenProperties
<1> HIDE DEF e
<1> QED
  BY <1>1, <1>2, <1>3 DEF Kept

(***************************************************************************)
(* Every further digit.                                                    *)
(***************************************************************************)
LEMMA NextKept ==
  ASSUME NEW q \in ScanStates, NEW c \in Nat, c < q.radix,
         NEW ds \in Seq(Nat), Kept(q, ds),
         NEW r, r = [q EXCEPT !.digits = @ + Counted(q, c), !.ds = Append(@, c)]
  PROVE  Kept(r, Append(ds, c))
<1> DEFINE S == 0 .. q.radix - 1
           n == Len(q.ds)
           k == Counted(q, c)
           es == Append(q.ds, c)
           fs == Append(ds, c)
<1>1. /\ r.radix = q.radix /\ r.digits = q.digits + k /\ r.ds = es
      /\ k \in {0, 1} /\ (k = 0 => q.radix = 8 /\ c = 0)
  BY NextDigitIs, ZenonT(40)
<1>2. q.radix \in {2, 8, 10, 16} /\ q.digits \in Nat /\ q.ds \in Seq(Nat)
  BY DEF ScanStates
<1>3. /\ q.ds \in Seq(S) /\ n > 0 /\ q.ds[1] # 0 /\ n <= Len(ds)
      /\ DigitsValue(q.radix, ds) = DigitsValue(q.radix, q.ds)
      /\ q.digits > 0 /\ q.digits <= n
      /\ q.digits # n => q.radix = 8 /\ LaterZero(ds)
  BY DEF Kept
<1>4. c \in S /\ n \in Nat /\ Len(ds) \in Nat
  BY <1>2, LenProperties
<1> HIDE DEF S
<1>5. es \in Seq(S) /\ Len(es) = n + 1 /\ \A i \in 1 .. n : es[i] = q.ds[i]
  BY <1>3, <1>4, AppendProperties
<1>6. es[1] # 0
  <2>1. 1 \in 1 .. n
    BY <1>3, <1>4
  <2> QED
    BY <1>3, <1>5, <2>1
<1>7. Len(fs) = Len(ds) + 1
  BY AppendProperties
<1>8. DigitsValue(q.radix, fs) = DigitsValue(q.radix, es)
  <2>1. q.radix \in Nat
    BY <1>2
  <2>2. DigitsValue(q.radix, fs) = DigitsValue(q.radix, ds) * q.radix + c
    BY <2>1, DigitsValueAppend
  <2>3. DigitsValue(q.radix, es) = DigitsValue(q.radix, q.ds) * q.radix + c
    BY <1>2, <2>1, DigitsValueAppend
  <2> QED
    BY <1>3, <2>2, <2>3
<1>9. LaterZero(ds) \/ c = 0 => LaterZero(fs)
  <2>1. Len(ds) > 0
    BY <1>3, <1>4
  <2> QED
    BY <2>1, LaterZeroAppend
<1> HIDE DEF es, fs, k
<1> DEFINE g == q.digits
           h == r.digits
<1>10. /\ g \in Nat /\ h = g + k /\ g > 0 /\ g <= n
       /\ (g # n => q.radix = 8 /\ LaterZero(ds))
  BY <1>1, <1>2, <1>3
<1> HIDE DEF g, h
<1>11. h > 0 /\ h <= n + 1 /\ (h # n + 1 => q.radix = 8 /\ LaterZero(fs))
  <2>1. h > 0 /\ h <= n + 1
    BY <1>1, <1>4, <1>10
  <2>2. CASE g # n
    BY <1>9, <1>10, <2>1, <2>2
  <2>3. CASE k = 0
    BY <1>1, <1>9, <2>1, <2>3
  <2>4. CASE g = n /\ k # 0
    BY <1>1, <1>4, <1>10, <2>1, <2>4
  <2> QED
    BY <2>2, <2>3, <2>4
<1>12. Len(es) <= Len(fs) /\ Len(es) > 0
  BY <1>3, <1>4, <1>5, <1>7
<1>13. h > 0 /\ h <= Len(es) /\ (h # Len(es) => q.radix = 8 /\ LaterZero(fs))
  BY <1>5, <1>11
<1> QED
  BY <1>1, <1>5, <1>6, <1>8, <1>12, <1>13 DEF Kept, S, fs, h

(***************************************************************************)
(* A digit where the digits begin.                                         *)
(***************************************************************************)
LEMMA FirstRead ==
  ASSUME NEW q \in ScanStates, Unread(q), NEW radix \in {2, 8, 10, 16}, NEW c \in Nat, c < radix,
         NEW v, q.sign = SignNum(v), radix = RadixIn(v), Below(DigitsIn(v), radix), Settled(v),
         DigitsIn(v) \in Seq(Nat), Len(DigitsIn(v)) > 0, DigitsValue(radix, DigitsIn(v)) = c
  PROVE  Understood(FirstDigit(q, radix, c), v)
<1> DEFINE f == FirstDigit(q, radix, c)
<1>1. /\ f \in ScanStates /\ f.sign = q.sign /\ f.radix = radix
      /\ c = 0 => f.cs = "ZEROS" /\ f.digits = 0 /\ f.ds = <<>>
      /\ c # 0 => f.cs = "DIGITS" /\ f.digits = 1 /\ f.ds = <<c>>
  <2>1. q.digits = 0 /\ q.ds = <<>>
    BY DEF Unread
  <2>2. /\ q = [cs |-> q.cs, sign |-> q.sign, radix |-> q.radix, digits |-> q.digits, ds |-> q.ds]
        /\ q.sign \in {-1, 1}
    BY DEF ScanStates
  <2>3. CASE c = 0
    <3>1. f = [q EXCEPT !.cs = "ZEROS", !.radix = radix]
      BY <2>3 DEF FirstDigit
    <3> HIDE DEF f
    <3>2. f = [cs |-> "ZEROS", sign |-> q.sign, radix |-> radix, digits |-> q.digits, ds |-> q.ds]
      BY <2>2, <3>1
    <3>3. f \in ScanStates
      BY <3>1 DEF ScanStates
    <3> QED
      BY <2>1, <2>3, <3>2, <3>3
  <2>4. CASE c # 0
    <3> DEFINE ds == <<c>>
    <3>1. f = [q EXCEPT !.cs = "DIGITS", !.radix = radix, !.digits = 1, !.ds = ds]
      BY <2>4 DEF FirstDigit
    <3>2. ds \in Seq(Nat)
      OBVIOUS
    <3> HIDE DEF f, ds
    <3>3. f = [cs |-> "DIGITS", sign |-> q.sign, radix |-> radix, digits |-> 1, ds |-> ds]
      BY <2>2, <3>1
    <3>4. f \in ScanStates
      BY <2>2, <3>2, <3>3 DEF ScanStates
    <3> QED
      BY <2>4, <3>3, <3>4 DEF ds
  <2> QED
    BY <2>3, <2>4
<1> HIDE DEF f
<1>2. CASE c = 0
  <2>1. InZeros(f, v)
    BY <1>1, <1>2 DEF InZeros, Unread
  <2> QED
    BY <1>1, <1>2, <2>1 DEF Understood, f
<1>3. CASE c # 0
  <2>1. Kept(f, DigitsIn(v))
    <3> DEFINE ds == DigitsIn(v)
    <3> HIDE DEF ds
    <3>1. ds \in Seq(Nat) /\ Len(ds) > 0 /\ DigitsValue(radix, ds) = c
      BY DEF ds
    <3>2. Kept(f, ds)
      BY <1>1, <1>3, <3>1, FirstKept
    <3> QED
      BY <3>2 DEF ds
  <2>2. InDigits(f, v)
    BY <1>1, <2>1 DEF InDigits
  <2> QED
    BY <1>1, <1>3, <2>2 DEF Understood, f
<1> QED
  BY <1>2, <1>3

\* A character that is no digit.
LEMMA Aborts ==
  ASSUME NEW q \in ScanStates, NEW v, Settled(v), ~Below(DigitsIn(v), RadixIn(v))
  PROVE  Understood([q EXCEPT !.cs = "ABORT"], v)
<1>1. [q EXCEPT !.cs = "ABORT"].cs = "ABORT"
  BY MoveIs
<1> QED
  BY <1>1 DEF Understood

\* A single digit below the radix.
LEMMA BelowOne ==
  ASSUME NEW c \in Nat, NEW radix
  PROVE  /\ Below(<<c>>, radix) <=> c < radix
         /\ <<0, c>> \in Seq(Nat) /\ Len(<<0, c>>) = 2
         /\ Below(<<0, c>>, radix) <=> 0 < radix /\ c < radix
         /\ radix \in Nat => DigitsValue(radix, <<0, c>>) = c
<1> DEFINE z == <<c>>
           y == <<0, c>>
           x == <<0>>
<1>1. Len(z) = 1 /\ z[1] = c /\ y \in Seq(Nat) /\ Len(y) = 2 /\ y[1] = 0 /\ y[2] = c
  OBVIOUS
<1>2. y = Append(x, c)
  <2> DEFINE w == Append(x, c)
  <2>1. x \in Seq(Nat) /\ Len(x) = 1 /\ x[1] = 0
    OBVIOUS
  <2> HIDE DEF x, y, z
  <2>2. w \in Seq(Nat) /\ Len(w) = Len(x) + 1 /\ (\A i \in 1 .. Len(x) : w[i] = x[i]) /\ w[Len(x) + 1] = c
    <3>1. x \in Seq(Nat)
      BY <2>1
    <3> QED
      BY <3>1, AppendProperties
  <2> HIDE DEF w
  <2>3. 1 \in 1 .. Len(x) /\ Len(x) + 1 = 2
    BY <2>1
  <2>4. Len(w) = 2 /\ w[1] = 0 /\ w[2] = c
    BY <2>1, <2>2, <2>3
  <2>5. \A i \in 1 .. Len(w) : w[i] = y[i]
    BY <1>1, <2>4
  <2>6. w = y
    BY <1>1, <2>2, <2>4, <2>5, SeqEqual
  <2> QED
    BY <2>6 DEF w
<1>3. radix \in Nat => DigitsValue(radix, y) = c
  <2> SUFFICES ASSUME radix \in Nat PROVE DigitsValue(radix, y) = c
    OBVIOUS
  <2>1. x \in Seq(Nat) /\ DigitsValue(radix, x) = 0
    <3>1. 0 \in Nat
      OBVIOUS
    <3> QED
      BY <3>1, DigitsValueOne
  <2> HIDE DEF x, y
  <2>2. DigitsValue(radix, y) = DigitsValue(radix, x) * radix + c
    <3>1. x \in Seq(Nat)
      BY <2>1
    <3> QED
      BY <1>2, <3>1, DigitsValueAppend
  <2>3. 0 * radix + c = c
    OBVIOUS
  <2> QED
    BY <2>1, <2>2, <2>3
<1> HIDE DEF x, y, z
<1>4. Below(z, radix) <=> c < radix
  BY <1>1 DEF Below
<1>5. Below(y, radix) <=> 0 < radix /\ c < radix
  <2>1. \A i \in 1 .. Len(y) : i = 1 \/ i = 2
    BY <1>1
  <2>2. 1 \in 1 .. Len(y) /\ 2 \in 1 .. Len(y)
    BY <1>1
  <2> QED
    BY <1>1, <2>1, <2>2 DEF Below
<1> QED
  BY <1>1, <1>3, <1>4, <1>5 DEF x, y, z

(***************************************************************************)
(* The digits begin.                                                       *)
(***************************************************************************)
LEMMA UnderstoodFirst ==
  ASSUME NEW q \in ScanStates, NEW u \in Seq(Nat), q.cs \in {"START", "NUMBER0"}, Understood(q, u),
         NEW c \in Nat, c # Blank, NEW v, v = Append(u, c)
  PROVE  Understood(Scan(q, c), v)
<1>1. Unread(q) /\ q.sign = SignNum(u) /\ Len(u) = SignLen(u) /\ (q.cs = "NUMBER0" => u # <<>>)
  <2>1. CASE q.cs = "START"
    <3>1. u = <<>> /\ Unread(q) /\ q.sign = SignNum(u)
      BY <2>1 DEF Understood
    <3>2. Len(<<>>) = 0
      BY EmptySeq
    <3>3. SignLen(u) = 0
      BY <3>1 DEF SignLen
    <3> QED
      BY <2>1, <3>1, <3>2, <3>3
  <2>2. CASE q.cs = "NUMBER0"
    <3>1. Len(u) = 1 /\ SignLen(u) = 1 /\ Unread(q) /\ q.sign = SignNum(u)
      BY <2>2 DEF Understood
    <3>2. u # <<>>
      BY <3>1, EmptySeq
    <3> QED
      BY <3>1, <3>2
  <2> QED
    BY <2>1, <2>2
<1>2. CASE q.cs = "START" /\ c \in {Plus, Minus}
  <2>1. u = <<>>
    BY <1>2 DEF Understood
  <2>2. v = <<c>>
    <3>1. Append(<<>>, c) = <<c>>
      OBVIOUS
    <3> QED
      BY <2>1, <3>1
  <2>3. Len(v) = 1 /\ v[1] = c /\ v # <<>>
    BY <2>2
  <2>4. SignLen(v) = 1 /\ SignNum(v) = (IF c = Minus THEN -1 ELSE 1)
    BY <1>2, <2>3 DEF SignLen, SignNum
  <2>5. q.sign = 1
    BY <1>1, <2>1 DEF SignNum, SignLen
  <2> DEFINE r == Scan(q, c)
  <2>6. r.cs = "NUMBER0" /\ Unread(r) /\ r.sign = (IF c = Minus THEN -1 ELSE 1)
    <3>1. CASE c = Plus
      <4>1. r = [q EXCEPT !.cs = "NUMBER0"]
        BY <1>2, <3>1, ScanIs, ZenonT(40)
      <4>2. c # Minus
        BY <3>1 DEF Plus, Minus
      <4> HIDE DEF r
      <4> QED
        BY <1>1, <2>5, <4>1, <4>2, MoveIs, SMTT(30) DEF Unread
    <3>2. CASE c = Minus
      <4>1. r = [q EXCEPT !.cs = "NUMBER0", !.sign = -1]
        BY <1>2, <3>2, ScanIs, ZenonT(40)
      <4> HIDE DEF r
      <4> QED
        BY <1>1, <3>2, <4>1, SMTT(30) DEF Unread, ScanStates
    <3> QED
      BY <1>2, <3>1, <3>2
  <2> HIDE DEF r
  <2> QED
    BY <2>3, <2>4, <2>6 DEF Understood, r
<1>3. CASE ~(q.cs = "START" /\ c \in {Plus, Minus})
  <2>1. u = <<>> => c \notin {Plus, Minus}
    BY <1>1, <1>3
  <2>2. /\ SignLen(v) = SignLen(u) /\ SignNum(v) = SignNum(u) /\ RadixIn(v) = 10
        /\ Len(v) = SignLen(v) + 1 /\ v[Len(v)] = c
        /\ DigitsIn(v) = <<c>>
    BY <1>1, <2>1, FirstCharacter, ZenonT(40)
  <2>3. CASE c = 0
    <3> DEFINE r == Scan(q, c)
    <3>1. r = [q EXCEPT !.cs = "NUMBERX"]
      BY <2>3, ScanIs, ZenonT(40)
    <3> HIDE DEF r
    <3>2. r.cs = "NUMBERX" /\ Unread(r) /\ r.sign = q.sign
      BY <1>1, <3>1, MoveIs DEF Unread
    <3> QED
      BY <1>1, <2>2, <2>3, <3>2 DEF Understood, r
  <2>4. CASE c # 0
    <3>1. Settled(v)
      BY <2>2, <2>4 DEF Settled
    <3>2. Below(DigitsIn(v), 10) <=> c < 10
      BY <2>2, BelowOne, ZenonT(40)
    <3>3. CASE c \in 1 .. 9
      <4>1. Scan(q, c) = FirstDigit(q, 10, c)
        BY <3>3, ScanIs, ZenonT(40)
      <4>2. c < 10 /\ 10 \in {2, 8, 10, 16} /\ 10 \in Nat
        BY <3>3
      <4>3. DigitsIn(v) \in Seq(Nat) /\ Len(DigitsIn(v)) = 1 /\ DigitsValue(10, DigitsIn(v)) = c
        BY <2>2, <4>2, DigitsValueOne
      <4>4. Below(DigitsIn(v), 10) /\ q.sign = SignNum(v) /\ RadixIn(v) = 10
        BY <1>1, <2>2, <3>2, <4>2
      <4>5. Understood(FirstDigit(q, 10, c), v)
        <5> DEFINE k == 10
        <5>1. /\ k \in {2, 8, 10, 16} /\ c < k /\ q.sign = SignNum(v) /\ k = RadixIn(v) /\ Below(DigitsIn(v), k)
              /\ DigitsIn(v) \in Seq(Nat) /\ Len(DigitsIn(v)) > 0 /\ DigitsValue(k, DigitsIn(v)) = c
          BY <4>2, <4>3, <4>4
        <5> HIDE DEF k
        <5>2. Understood(FirstDigit(q, k, c), v)
          BY <1>1, <3>1, <5>1, FirstRead
        <5> QED
          BY <5>2 DEF k
      <4> QED
        BY <4>1, <4>5
    <3>4. CASE c \notin 1 .. 9
      <4>1. c \notin 0 .. 9 /\ ~(c < 10)
        BY <2>4, <3>4
      <4>2. Scan(q, c) = [q EXCEPT !.cs = "ABORT"]
        <5>1. CASE q.cs = "START"
          BY <1>3, <4>1, <5>1, ScanIs, ZenonT(40)
        <5>2. CASE q.cs = "NUMBER0"
          BY <4>1, <5>2, ScanIs, ZenonT(40)
        <5> QED
          BY <5>1, <5>2, SMTT(30)
      <4>3. ~Below(DigitsIn(v), RadixIn(v))
        BY <2>2, <3>2, <4>1
      <4> QED
        BY <3>1, <4>2, <4>3, Aborts
    <3> QED
      BY <3>3, <3>4
  <2> QED
    BY <2>3, <2>4
<1> QED
  BY <1>2, <1>3

(***************************************************************************)
(* The character after a 0 in front is a prefix, or a digit.               *)
(***************************************************************************)
LEMMA UnderstoodSecond ==
  ASSUME NEW q \in ScanStates, NEW u \in Seq(Nat), q.cs = "NUMBERX", Understood(q, u),
         NEW c \in Nat, c # Blank, NEW v, v = Append(u, c)
  PROVE  Understood(Scan(q, c), v)
<1>1. Unread(q) /\ q.sign = SignNum(u) /\ Len(u) = SignLen(u) + 1 /\ u[Len(u)] = 0
  BY DEF Understood
<1>2. /\ Settled(v) /\ SignNum(v) = SignNum(u)
      /\ c \in {11, Oh, Ex} => RadixIn(v) = RadixOf(c) /\ DigitsIn(v) = <<>>
      /\ c \notin {11, Oh, Ex} => RadixIn(v) = 10 /\ DigitsIn(v) = <<0, c>>
  BY <1>1, SecondCharacter, ZenonT(40)
<1>3. CASE c \in {11, Oh, Ex}
  <2> DEFINE r == Scan(q, c)
  <2>1. r = [q EXCEPT !.cs = "ZEROS", !.radix = RadixOf(c)]
    BY <1>3, ScanIs, ZenonT(40)
  <2> HIDE DEF r
  <2>2. /\ r \in ScanStates /\ r.cs = "ZEROS" /\ r.sign = q.sign /\ r.radix = RadixOf(c)
        /\ r.digits = q.digits /\ r.ds = q.ds
    <3> DEFINE k == RadixOf(c)
    <3>1. k \in {2, 8, 10, 16}
      BY <1>3 DEF RadixOf, Oh, Ex
    <3>2. r = [q EXCEPT !.cs = "ZEROS", !.radix = k]
      BY <2>1
    <3> HIDE DEF k
    <3>3. /\ r \in ScanStates /\ r.cs = "ZEROS" /\ r.sign = q.sign /\ r.radix = k
          /\ r.digits = q.digits /\ r.ds = q.ds
      BY <3>1, <3>2 DEF ScanStates
    <3> QED
      BY <3>3 DEF k
  <2>3. Len(DigitsIn(v)) = 0 /\ DigitsIn(v) = <<>>
    BY <1>2, <1>3, EmptySeq
  <2>4. Below(DigitsIn(v), r.radix)
    BY <2>3 DEF Below
  <2>5. DigitsValue(r.radix, DigitsIn(v)) = 0
    <3> DEFINE k == r.radix
    <3>1. k \in Nat
      BY <2>2 DEF ScanStates
    <3> HIDE DEF k
    <3>2. <<>> \in Seq(Nat)
      BY EmptySeq
    <3>3. DigitsValue(k, <<>>) = 0
      BY <3>1, <3>2, DigitsValueNat
    <3> QED
      BY <2>3, <3>3 DEF k
  <2>6. InZeros(r, v)
    BY <1>1, <1>2, <1>3, <2>2, <2>4, <2>5 DEF InZeros, Unread
  <2> QED
    BY <2>2, <2>6 DEF Understood, r
<1>4. CASE c \notin {11, Oh, Ex}
  <2>1. /\ Below(DigitsIn(v), 10) <=> 0 < 10 /\ c < 10
        /\ DigitsIn(v) \in Seq(Nat) /\ Len(DigitsIn(v)) = 2
        /\ DigitsValue(10, DigitsIn(v)) = c
    <3> DEFINE k == 10
               ds == <<0, c>>
    <3>1. k \in Nat /\ DigitsIn(v) = ds
      BY <1>2, <1>4
    <3> HIDE DEF k
    <3>2. Below(ds, k) <=> 0 < k /\ c < k
      BY BelowOne
    <3>3. ds \in Seq(Nat) /\ Len(ds) = 2
      BY BelowOne
    <3>4. DigitsValue(k, ds) = c
      BY <3>1, BelowOne
    <3> HIDE DEF ds
    <3> QED
      BY <3>1, <3>2, <3>3, <3>4 DEF k
  <2>2. CASE c \in 0 .. 9
    <3>1. Scan(q, c) = FirstDigit(q, 10, c)
      BY <2>2, ScanIs, ZenonT(40)
    <3> DEFINE k == 10
    <3>2. /\ k \in {2, 8, 10, 16} /\ c < k /\ q.sign = SignNum(v) /\ k = RadixIn(v) /\ Below(DigitsIn(v), k)
          /\ DigitsIn(v) \in Seq(Nat) /\ Len(DigitsIn(v)) > 0 /\ DigitsValue(k, DigitsIn(v)) = c
      BY <1>1, <1>2, <1>4, <2>1, <2>2
    <3> HIDE DEF k
    <3>3. Understood(FirstDigit(q, k, c), v)
      BY <1>1, <1>2, <3>2, FirstRead
    <3> QED
      BY <3>1, <3>3 DEF k
  <2>3. CASE c \notin 0 .. 9
    <3>1. Scan(q, c) = [q EXCEPT !.cs = "ABORT"]
      BY <1>4, <2>3, ScanIs, ZenonT(40)
    <3>2. ~(c < 10)
      BY <2>3
    <3>3. ~Below(DigitsIn(v), RadixIn(v))
      BY <1>2, <1>4, <2>1, <3>2
    <3> QED
      BY <1>2, <3>1, <3>3, Aborts
  <2> QED
    BY <2>2, <2>3
<1> QED
  BY <1>3, <1>4

(***************************************************************************)
(* One digit more, or a character that is none.                            *)
(***************************************************************************)
LEMMA UnderstoodNext ==
  ASSUME NEW q \in ScanStates, NEW u \in Seq(Nat), q.cs \in {"ZEROS", "DIGITS", "ABORT"}, Understood(q, u),
         NEW c \in Nat, c # Blank, NEW v, v = Append(u, c)
  PROVE  Understood(Scan(q, c), v)
<1> DEFINE ds == DigitsIn(u)
           radix == q.radix
<1>1. Settled(u)
  BY DEF Understood, InZeros, InDigits
<1>2. /\ Settled(v) /\ SignNum(v) = SignNum(u) /\ RadixIn(v) = RadixIn(u)
      /\ DigitsIn(v) = Append(ds, c) /\ ds \in Seq(Nat)
  BY <1>1, SettledGrows
<1>3. radix \in {2, 8, 10, 16} /\ radix \in Nat
  BY DEF ScanStates
<1> HIDE DEF ds
<1>4. /\ Append(ds, c) \in Seq(Nat) /\ Len(Append(ds, c)) = Len(ds) + 1
      /\ DigitsValue(radix, Append(ds, c)) = DigitsValue(radix, ds) * radix + c
  BY <1>2, <1>3, DigitsValueAppend
<1>5. \A k : Below(Append(ds, c), k) <=> Below(ds, k) /\ c < k
  BY <1>2, BelowAppend
<1>6. CASE q.cs = "ABORT"
  <2>1. ~Below(ds, RadixIn(u))
    BY <1>6 DEF Understood, ds
  <2>2. ~Below(DigitsIn(v), RadixIn(v))
    BY <1>2, <1>5, <2>1
  <2>3. Scan(q, c) = [q EXCEPT !.cs = "ABORT"]
    BY <1>6, ScanIs, ZenonT(40)
  <2> QED
    BY <1>2, <2>2, <2>3, Aborts, ZenonT(40)
<1>7. CASE q.cs \in {"ZEROS", "DIGITS"} /\ ~(c < radix)
  <2>1. radix = RadixIn(u)
    BY <1>7 DEF Understood, InZeros, InDigits
  <2>2. ~Below(DigitsIn(v), RadixIn(v))
    BY <1>2, <1>5, <1>7, <2>1
  <2>3. Scan(q, c) = [q EXCEPT !.cs = "ABORT"]
    <3>1. CASE q.cs = "ZEROS"
      BY <1>7, <3>1, ScanIs, ZenonT(40)
    <3>2. CASE q.cs = "DIGITS"
      BY <1>7, <3>2, ScanIs, ZenonT(40)
    <3> QED
      BY <1>7, <3>1, <3>2, SMTT(30)
  <2> QED
    BY <1>2, <2>2, <2>3, Aborts, ZenonT(40)
<1>8. CASE q.cs = "ZEROS" /\ c < radix
  <2>1. /\ q.sign = SignNum(u) /\ radix = RadixIn(u) /\ Unread(q)
        /\ Below(ds, radix) /\ DigitsValue(radix, ds) = 0
    BY <1>8, SMTT(30) DEF Understood, InZeros, ds
  <2>2. Scan(q, c) = FirstDigit(q, radix, c)
    BY <1>8, ScanIs, ZenonT(40)
  <2> HIDE DEF radix
  <2>3. DigitsValue(radix, DigitsIn(v)) = c
    <3>1. 0 * radix + c = c
      BY <1>3
    <3> QED
      BY <1>2, <1>4, <2>1, <3>1
  <2>4. DigitsIn(v) \in Seq(Nat) /\ Len(DigitsIn(v)) > 0 /\ Below(DigitsIn(v), radix)
    <3>1. Len(ds) \in Nat
      BY <1>2, LenProperties
    <3>2. Len(ds) + 1 > 0
      BY <3>1
    <3> QED
      BY <1>2, <1>4, <1>5, <1>8, <2>1, <3>2
  <2>5. c < radix /\ q.sign = SignNum(v) /\ radix = RadixIn(v)
    BY <1>2, <1>8, <2>1
  <2>6. Understood(FirstDigit(q, radix, c), v)
    BY <1>2, <1>3, <2>1, <2>3, <2>4, <2>5, FirstRead
  <2> QED
    BY <2>2, <2>6
<1>9. CASE q.cs = "DIGITS" /\ c < radix
  <2>1. /\ q.sign = SignNum(u) /\ radix = RadixIn(u) /\ Below(ds, radix) /\ Kept(q, ds)
    BY <1>9 DEF Understood, InDigits, ds
  <2> DEFINE r == Scan(q, c)
  <2>2. r = [q EXCEPT !.digits = @ + Counted(q, c), !.ds = Append(@, c)]
    BY <1>9, ScanIs, ZenonT(40)
  <2> HIDE DEF r
  <2>3. r.cs = "DIGITS" /\ r.sign = q.sign /\ r.radix = radix
    BY <1>9, <2>2, NextDigitIs, ZenonT(40)
  <2>4. Kept(r, Append(ds, c))
    BY <1>2, <1>9, <2>1, <2>2, NextKept
  <2>5. Below(DigitsIn(v), r.radix)
    BY <1>2, <1>5, <1>9, <2>1, <2>3
  <2>6. InDigits(r, v)
    BY <1>2, <2>1, <2>3, <2>4, <2>5 DEF InDigits
  <2> QED
    BY <2>3, <2>6 DEF Understood, r
<1> QED
  BY <1>6, <1>7, <1>8, <1>9

(***************************************************************************)
(* The scanner has understood every text as far as it has read it.         *)
(***************************************************************************)
LEMMA TextUnderstood ==
  ASSUME NEW t \in Seq(Nat)
  PROVE  /\ Scanned(t) \in ScanStates /\ NonBlank(t) \in Seq(Nat)
         /\ Understood(Scanned(t), NonBlank(t))
<1> DEFINE n == Len(t)
<1>1. PICK q \in [0 .. n -> ScanStates] : ScanRun(q, t)
  BY ScanRunExists
<1>2. PICK u \in [0 .. n -> Seq(Nat)] : NonBlankRun(u, t)
  BY NonBlankRunExists
<1>3. n \in Nat /\ \A i \in 1 .. n : t[i] \in Nat
  BY ElementOfSeq
<1> HIDE DEF n
<1> DEFINE T == {i \in 0 .. n : Understood(q[i], u[i])}
<1>4. 0 \in T
  <2>1. q[0] = ScanStart /\ u[0] = <<>>
    BY <1>1, <1>2 DEF ScanRun, NonBlankRun
  <2>2. SignNum(<<>>) = 1
    BY DEF SignNum, SignLen
  <2>3. Understood(ScanStart, <<>>)
    BY <2>2 DEF Understood, ScanStart, Unread
  <2> QED
    BY <1>3, <2>1, <2>3
<1>5. ASSUME NEW i \in 0 .. n - 1, i \in T PROVE i + 1 \in T
  <2> DEFINE j == i + 1
             c == t[j]
             p == q[i]
             w == u[i]
  <2>1. j \in 1 .. n /\ j - 1 = i /\ j \in 0 .. n /\ i \in 0 .. n
    BY <1>3
  <2>2. c \in Nat /\ p \in ScanStates /\ w \in Seq(Nat) /\ Understood(p, w)
    BY <1>3, <1>5, <2>1
  <2>3. q[j] = Scan(p, c)
    BY <1>1, <2>1 DEF ScanRun, n
  <2>4. u[j] = IF c = Blank THEN w ELSE Append(w, c)
    BY <1>2, <2>1 DEF NonBlankRun, n
  <2> HIDE DEF c, p, w, j
  <2>5. Understood(q[j], u[j])
    <3>1. CASE c = Blank
      <4>1. q[j] = p
        BY <2>2, <2>3, <3>1, ScanIs, ZenonT(40)
      <4> QED
        BY <2>2, <2>4, <3>1, <4>1
    <3>2. CASE c # Blank
      <4>1. u[j] = Append(w, c)
        BY <2>4, <3>2
      <4>2. p.cs \in {"START", "NUMBER0", "NUMBERX", "ZEROS", "DIGITS", "ABORT"}
        BY <2>2 DEF ScanStates
      <4>3. CASE p.cs \in {"START", "NUMBER0"}
        BY <2>2, <2>3, <3>2, <4>1, <4>3, UnderstoodFirst
      <4>4. CASE p.cs = "NUMBERX"
        BY <2>2, <2>3, <3>2, <4>1, <4>4, UnderstoodSecond
      <4>5. CASE p.cs \in {"ZEROS", "DIGITS", "ABORT"}
        BY <2>2, <2>3, <3>2, <4>1, <4>5, UnderstoodNext
      <4> QED
        BY <4>2, <4>3, <4>4, <4>5
    <3> QED
      BY <3>1, <3>2
  <2> QED
    BY <2>1, <2>5 DEF j
<1> HIDE DEF T
<1>6. n \in T
  <2>1. \A i \in 0 .. n : i \in T
    BY <1>3, <1>4, <1>5, InductUpTo
  <2> QED
    BY <1>3, <2>1
<1>7. Scanned(t) = q[n] /\ NonBlank(t) = u[n] /\ n \in 0 .. n
  BY <1>1, <1>2, <1>3 DEF ScanRun, NonBlankRun, n
<1> QED
  BY <1>1, <1>2, <1>6, <1>7 DEF T

-----------------------------------------------------------------------------
(* Digits of k bits put together.                                          *)

PutStates == [d : Seq(Limb), r : Nat, m : 0 .. W - 1]

(***************************************************************************)
(* One digit: what it adds, and whether it fills a limb.                   *)
(***************************************************************************)
LEMMA PutBitsIs ==
  ASSUME NEW k \in Nat, k <= W, NEW acc \in PutStates, NEW x \in Nat, NEW r, NEW m,
         r = acc.r + x * Power(2, acc.m), m = acc.m + k
  PROVE  /\ PutBits(k, acc, x) \in PutStates
         /\ r \in Nat /\ m \in Nat /\ m < 2 * W
         /\ m >= W => /\ PutBits(k, acc, x).d = Append(acc.d, r % Base)
                      /\ PutBits(k, acc, x).r = r \div Base /\ PutBits(k, acc, x).m = m - W
         /\ m < W => /\ PutBits(k, acc, x).d = acc.d
                     /\ PutBits(k, acc, x).r = r /\ PutBits(k, acc, x).m = m
<1> DEFINE a == acc.m
           y == x * Power(2, a)
           p == PutBits(k, acc, x)
<1>1. acc.d \in Seq(Limb) /\ acc.r \in Nat /\ a \in Nat /\ a < W /\ W \in Nat /\ W > 0 /\ Base \in Nat \ {0}
  <2>1. W \in Nat /\ W > 0 /\ Base \in Nat \ {0}
    BY BitPlaces, Places
  <2>2. acc.d \in Seq(Limb) /\ acc.r \in Nat /\ acc.m \in 0 .. W - 1
    BY DEF PutStates
  <2> QED
    BY <2>1, <2>2
<1>2. y \in Nat
  <2> DEFINE w == Power(2, a)
  <2>1. w \in Nat
    BY <1>1, PowerPositive, PowerIs
  <2> HIDE DEF w
  <2> QED
    BY <2>1 DEF w
<1>3. r \in Nat /\ m \in Nat /\ m < 2 * W
  <2>1. r = acc.r + y /\ m = a + k
    OBVIOUS
  <2> HIDE DEF a, y
  <2> QED
    BY <1>1, <1>2, <2>1
<1>4. p = IF m >= W THEN [d |-> Append(acc.d, r % Base), r |-> r \div Base, m |-> m - W]
                    ELSE [d |-> acc.d, r |-> r, m |-> m]
  BY DEF PutBits
<1> HIDE DEF p
<1>5. CASE m >= W
  <2> DEFINE z == r % Base
             q == r \div Base
             l == m - W
             e == Append(acc.d, z)
  <2>1. z \in Nat /\ z < Base /\ q \in Nat /\ l \in 0 .. W - 1
    <3>1. Base \in Nat \ {0} /\ r \in Nat
      BY <1>1, <1>3
    <3>2. z \in Nat /\ z < Base /\ q \in Nat
      BY <3>1, Division
    <3>3. l \in 0 .. W - 1
      BY <1>1, <1>3, <1>5
    <3> QED
      BY <3>2, <3>3
  <2>2. z \in Limb
    BY <2>1, LimbsAreInts
  <2> HIDE DEF z, q, l
  <2>3. e \in Seq(Limb)
    BY <1>1, <2>2, AppendProperties
  <2> HIDE DEF e
  <2>4. p = [d |-> e, r |-> q, m |-> l]
    BY <1>4, <1>5 DEF e, z, q, l
  <2>5. p \in PutStates /\ p.d = e /\ p.r = q /\ p.m = l
    BY <2>1, <2>3, <2>4 DEF PutStates
  <2> QED
    BY <1>1, <1>3, <1>5, <2>5 DEF e, z, q, l, p
<1>6. CASE m < W
  <2>0. ~(m >= W)
    BY <1>1, <1>3, <1>6
  <2>1. p = [d |-> acc.d, r |-> r, m |-> m]
    BY <1>4, <2>0
  <2>2. m \in 0 .. W - 1
    BY <1>1, <1>3, <1>6
  <2>3. p \in PutStates /\ p.d = acc.d /\ p.r = r /\ p.m = m
    BY <1>1, <1>3, <2>1, <2>2 DEF PutStates
  <2> QED
    BY <1>3, <2>0, <2>3 DEF p
<1> QED
  BY <1>1, <1>3, <1>5, <1>6

\* The states that the digits, from the last one on, lead to.
PackRun(acc, k, ds) ==
  /\ acc[0] = PutStart
  /\ \A i \in 1 .. Len(ds) : acc[i] = PutBits(k, acc[i - 1], ds[Len(ds) + 1 - i])
  /\ Packed(k, ds) =
       IF acc[Len(ds)].r > 0 THEN Append(acc[Len(ds)].d, acc[Len(ds)].r) ELSE acc[Len(ds)].d

\* The states of Packed are what its recursive function gives.
LEMMA PackRunExists ==
  ASSUME NEW k \in Nat, k <= W, NEW ds \in Seq(Nat)
  PROVE  Len(ds) \in Nat /\ \E acc \in [0 .. Len(ds) -> PutStates] : PackRun(acc, k, ds)
<1> DEFINE n == Len(ds)
           D(i) == ds[n + 1 - i]
           F == [p \in (1 .. n) \X PutStates |-> PutBits(k, p[2], D(p[1]))]
           Body(v) == [i \in 0 .. n |-> IF i = 0 THEN PutStart ELSE PutBits(k, v[i - 1], D(i))]
           q == CHOOSE v : v = Body(v)
<1>1. n \in Nat /\ \A i \in 1 .. n : D(i) \in Nat
  <2>1. n \in Nat /\ \A i \in 1 .. n : ds[i] \in Nat
    BY ElementOfSeq
  <2>2. \A i \in 1 .. n : n + 1 - i \in 1 .. n
    BY <2>1
  <2> QED
    BY <2>1, <2>2
<1>2. PutStart \in PutStates
  <2>1. <<>> \in Seq(Limb) /\ 0 \in 0 .. W - 1
    BY EmptySeq, BitPlaces
  <2> QED
    BY <2>1 DEF PutStart, PutStates
<1>8. Packed(k, ds) = IF q[n].r > 0 THEN Append(q[n].d, q[n].r) ELSE q[n].d
  BY DEF Packed
<1> HIDE DEF n, D
<1>3. \A i \in 1 .. n, s \in PutStates : F[<<i, s>>] = PutBits(k, s, D(i))
  OBVIOUS
<1> HIDE DEF F
<1>4. Steps(F, n, PutStates)
  <2> SUFFICES ASSUME NEW i \in 1 .. n, NEW s \in PutStates PROVE F[<<i, s>>] \in PutStates
    BY DEF Steps
  <2> DEFINE x == D(i)
  <2>1. x \in Nat /\ F[<<i, s>>] = PutBits(k, s, x)
    BY <1>1, <1>3
  <2> HIDE DEF x
  <2>2. PutBits(k, s, x) \in PutStates
    BY <2>1, PutBitsIs
  <2> QED
    BY <2>1, <2>2
<1>5. PICK f \in [0 .. n -> PutStates] : Iterated(f, F, n, PutStart)
  BY <1>1, <1>2, <1>4, IterationExists
<1>6. f = Body(f)
  <2>1. ASSUME NEW i \in 0 .. n PROVE f[i] = IF i = 0 THEN PutStart ELSE PutBits(k, f[i - 1], D(i))
    <3>1. CASE i = 0
      BY <3>1, <1>5 DEF Iterated
    <3>2. CASE i # 0
      <4>1. i \in 1 .. n /\ i - 1 \in 0 .. n
        BY <1>1, <3>2
      <4> QED
        BY <1>3, <1>5, <3>2, <4>1 DEF Iterated
    <3> QED
      BY <3>1, <3>2
  <2> QED
    BY <2>1, <1>5
<1>7. q = Body(q)
  <2> HIDE DEF Body
  <2> QED
    BY <1>6
<1> HIDE DEF q
<1>9. q = [i \in 0 .. n |-> q[i]] /\ q[0] = PutStart
  BY <1>1, <1>7
<1>10. \A i \in 1 .. n : q[i] = PutBits(k, q[i - 1], D(i))
  <2>1. \A i \in 1 .. n : i \in 0 .. n /\ i # 0
    BY <1>1
  <2> QED
    BY <1>7, <2>1
<1>11. Iterates(q, F, n, PutStates, PutStart)
  BY <1>3, <1>9, <1>10 DEF Iterates
<1>12. q \in [0 .. n -> PutStates]
  BY <1>1, <1>2, <1>4, <1>11, IterationIs
<1> QED
  BY <1>1, <1>8, <1>9, <1>10, <1>12 DEF PackRun, n, D

\* Powers of two are natural numbers above 0.
LEMMA TwoPower ==
  ASSUME NEW n \in Nat
  PROVE  Power(2, n) \in Nat /\ Power(2, n) > 0
<1>1. 2 \in Nat \ {0}
  OBVIOUS
<1> QED
  BY <1>1, PowerPositive

\* What is put together so far, and of how many bits.
PutValue(acc) == Magnitude(acc.d) + acc.r * Power(Base, Len(acc.d))
PutLen(acc) == W * Len(acc.d) + acc.m

\* The bits put so far stand for a natural number.
LEMMA PutValueNat ==
  ASSUME NEW acc \in PutStates
  PROVE  /\ PutValue(acc) \in Nat /\ PutLen(acc) \in Nat
         /\ acc.d \in Seq(Limb) /\ Len(acc.d) \in Nat /\ acc.r \in Nat /\ acc.m \in Nat /\ acc.m < W
         /\ Magnitude(acc.d) \in Nat /\ Power(Base, Len(acc.d)) \in Nat /\ Power(Base, Len(acc.d)) > 0
<1>1. acc.d \in Seq(Limb) /\ acc.r \in Nat /\ acc.m \in 0 .. W - 1
  BY DEF PutStates
<1>2. acc.m \in Nat /\ acc.m < W /\ W \in Nat
  BY <1>1, BitPlaces
<1> DEFINE n == Len(acc.d)
           M == Magnitude(acc.d)
           p == Power(Base, n)
<1>3. n \in Nat /\ M \in Nat
  BY <1>1, MagnitudeBelow
<1>4. p \in Nat /\ p > 0
  BY <1>3, Places
<1>5. W * n \in Nat
  BY <1>2, <1>3
<1>6. PutValue(acc) = M + acc.r * p /\ PutLen(acc) = W * n + acc.m
  BY DEF PutValue, PutLen
<1> HIDE DEF n, M, p
<1>7. acc.r * p \in Nat
  BY <1>1, <1>4
<1>8. PutValue(acc) \in Nat /\ PutLen(acc) \in Nat
  BY <1>2, <1>3, <1>5, <1>6, <1>7
<1> QED
  BY <1>1, <1>2, <1>3, <1>4, <1>8 DEF n, M, p

(***************************************************************************)
(* A digit goes in above everything that is there.                         *)
(***************************************************************************)
LEMMA PutBitsExact ==
  ASSUME NEW k \in Nat, k <= W, NEW acc \in PutStates, acc.r < Power(2, acc.m),
         NEW x \in Nat, x < Power(2, k), NEW p, p = PutBits(k, acc, x)
  PROVE  /\ p \in PutStates /\ p.r < Power(2, p.m) /\ PutLen(p) = PutLen(acc) + k
         /\ PutValue(p) = PutValue(acc) + x * Power(2, PutLen(acc))
<1> DEFINE d == acc.d
           n == Len(d)
           M == Magnitude(d)
           B == Power(Base, n)
           w == Power(2, acc.m)
           h == Power(2, k)
           m == acc.m + k
           y == x * w
           r == acc.r + y
<1>1. /\ d \in Seq(Limb) /\ n \in Nat /\ acc.r \in Nat /\ acc.m \in Nat /\ acc.m < W
      /\ M \in Nat /\ B \in Nat /\ B > 0
  BY PutValueNat
<1>2. w \in Nat /\ w > 0 /\ h \in Nat /\ h > 0
  BY <1>1, TwoPower
<1>3. y \in Nat
  <2> HIDE DEF w
  <2> QED
    BY <1>2
<1>4. /\ p \in PutStates /\ r \in Nat /\ m \in Nat /\ m < 2 * W
      /\ m >= W => p.d = Append(d, r % Base) /\ p.r = r \div Base /\ p.m = m - W
      /\ m < W => p.d = d /\ p.r = r /\ p.m = m
  <2> DEFINE a == acc.r + x * Power(2, acc.m)
             b == acc.m + k
  <2>0. a = acc.r + x * Power(2, acc.m) /\ b = acc.m + k
    OBVIOUS
  <2> HIDE DEF a, b
  <2>1. /\ PutBits(k, acc, x) \in PutStates /\ a \in Nat /\ b \in Nat /\ b < 2 * W
        /\ b >= W => /\ PutBits(k, acc, x).d = Append(acc.d, a % Base)
                     /\ PutBits(k, acc, x).r = a \div Base /\ PutBits(k, acc, x).m = b - W
        /\ b < W => /\ PutBits(k, acc, x).d = acc.d
                    /\ PutBits(k, acc, x).r = a /\ PutBits(k, acc, x).m = b
    <3> DEFINE P == PutBits(k, acc, x)
    <3> HIDE DEF d, n, M, B, w, h, m, y, r
    <3>1. a \in Nat /\ b \in Nat /\ b < 2 * W /\ P \in PutStates
      BY <2>0, PutBitsIs
    <3>4. P = IF b >= W THEN [d |-> Append(acc.d, a % Base), r |-> a \div Base, m |-> b - W]
                        ELSE [d |-> acc.d, r |-> a, m |-> b]
      BY <2>0 DEF PutBits
    <3> HIDE DEF P
    <3>2. b >= W => P.d = Append(acc.d, a % Base) /\ P.r = a \div Base /\ P.m = b - W
      BY <3>4
    <3>5. b < W => ~(b >= W)
      BY <3>1, BitPlaces
    <3>3. b < W => P.d = acc.d /\ P.r = a /\ P.m = b
      BY <3>4, <3>5
    <3> QED
      BY <3>1, <3>2, <3>3 DEF P
  <2>2. a = r /\ b = m
    BY DEF a, b
  <2> HIDE DEF r, m
  <2> QED
    BY <2>1, <2>2
<1>5. Power(2, m) = h * w /\ Power(2, m) \in Nat
  <2>1. Power(2, k + acc.m) = Power(2, k) * Power(2, acc.m)
    BY <1>1, PowerAdds
  <2>2. k + acc.m = m
    BY <1>1
  <2>3. Power(2, m) \in Nat
    <3> HIDE DEF m
    <3> QED
      BY <1>4, TwoPower
  <2> QED
    BY <2>1, <2>2, <2>3
<1>6. r < Power(2, m)
  <2> HIDE DEF w, h, m
  <2>0. acc.r < w /\ x < h
    BY DEF w, h
  <2>1. (x + 1) * w <= h * w
    BY <1>2, <2>0
  <2>2. (x + 1) * w = x * w + w
    BY <1>2
  <2> DEFINE u == x * w
             v == h * w
             t == (x + 1) * w
  <2>3. t <= v /\ t = u + w /\ u \in Nat /\ v \in Nat /\ r = acc.r + u /\ Power(2, m) = v
    BY <1>2, <1>3, <1>5, <2>1, <2>2
  <2> HIDE DEF u, v, t, r
  <2> QED
    BY <1>1, <1>2, <2>0, <2>3
<1>7. W \in Nat /\ W > 0 /\ Base = Power(2, W) /\ Base \in Nat \ {0} /\ W * n \in Nat /\ B = Power(2, W * n)
  <2> HIDE DEF n
  <2>1. W \in Nat /\ W > 0 /\ Base = Power(2, W)
    BY BitPlaces
  <2>2. Base \in Nat \ {0}
    BY Places
  <2>3. W * n \in Nat /\ Power(Base, n) = Power(2, W * n)
    BY <1>1, BitPlaces
  <2> QED
    BY <2>1, <2>2, <2>3
<1>8. Power(2, PutLen(acc)) = B * w
  <2> DEFINE b == W * n
  <2>1. b \in Nat /\ PutLen(acc) = b + acc.m
    BY <1>7 DEF PutLen
  <2> HIDE DEF b
  <2>2. Power(2, b + acc.m) = Power(2, b) * Power(2, acc.m)
    BY <1>1, <2>1, PowerAdds, ZenonT(40)
  <2> QED
    BY <1>7, <2>1, <2>2 DEF b
<1>9. PutValue(acc) + x * Power(2, PutLen(acc)) = M + r * B
  <2> DEFINE g == B * w
             v == acc.r * B
  <2>1. PutValue(acc) = M + v /\ v \in Nat
    BY <1>1 DEF PutValue
  <2>2. g \in Nat /\ Power(2, PutLen(acc)) = g
    BY <1>1, <1>2, <1>8
  <2>3. x * g = y * B /\ r * B = acc.r * B + y * B /\ y * B \in Nat
    <3> HIDE DEF w, B, M, n
    <3>1. x * (B * w) = (x * w) * B
      BY <1>1, <1>2
    <3>2. (acc.r + y) * B = acc.r * B + y * B /\ y * B \in Nat
      <4> HIDE DEF y
      <4> QED
        BY <1>1, <1>3
    <3> QED
      BY <3>1, <3>2
  <2> DEFINE e == y * B
             f == r * B
             j == x * g
  <2>4. e \in Nat /\ j = e /\ f = v + e
    BY <2>3
  <2>5. x * Power(2, PutLen(acc)) = j
    BY <2>2
  <2> HIDE DEF e, f, v, j, M
  <2>6. M + v + j = M + f
    BY <1>1, <2>1, <2>4
  <2> QED
    BY <2>1, <2>5, <2>6 DEF f
<1> HIDE DEF n, M, B, w, h, y, r
<1>10. CASE m >= W
  <2> DEFINE z == r % Base
             q == r \div Base
             e == Append(d, z)
             l == m - W
             g == Power(2, l)
  <2>1. z \in Nat /\ z < Base /\ q \in Nat /\ r = Base * q + z
    <3>1. r \in Nat /\ Base \in Nat \ {0}
      BY <1>4, <1>7
    <3> QED
      BY <3>1, Division
  <2>2. z \in Limb
    BY <2>1, LimbsAreInts
  <2>3. p.d = e /\ p.r = q /\ p.m = l /\ l \in Nat /\ m = W + l
    BY <1>4, <1>7, <1>10
  <2> HIDE DEF z, q, l
  <2>4. Len(e) = n + 1 /\ Magnitude(e) = M + z * B
    BY <1>1, <2>2, OnTop DEF n, M, B
  <2>5. Power(Base, n + 1) = Base * B
    BY <1>1, Places DEF B
  <2>6. Power(2, m) = Base * g /\ g \in Nat
    <3>1. 2 \in Nat
      OBVIOUS
    <3>2. Power(2, W + l) = Power(2, W) * Power(2, l)
      BY <1>7, <2>3, <3>1, PowerAdds
    <3>3. g \in Nat
      BY <2>3, TwoPower
    <3> QED
      BY <1>7, <2>3, <3>2, <3>3
  <2>7. q < g
    <3> HIDE DEF g, m
    <3>1. Base * q < Base * g
      <4> DEFINE a == Base * q
                 b == Base * g
      <4>1. a \in Nat /\ b \in Nat /\ r = a + z /\ Power(2, m) = b
        BY <1>7, <2>1, <2>6
      <4> HIDE DEF a, b
      <4>2. r < b
        BY <1>6, <4>1
      <4>3. a < b
        BY <2>1, <4>1, <4>2
      <4> QED
        BY <4>3 DEF a, b
    <3>2. ~(g <= q)
      <4>1. g <= q => Base * g <= Base * q
        BY <1>7, <2>1, <2>6
      <4> DEFINE a == Base * q
                 b == Base * g
      <4>2. a \in Nat /\ b \in Nat /\ a < b /\ (g <= q => b <= a)
        BY <1>7, <2>1, <2>6, <3>1, <4>1
      <4> HIDE DEF a, b
      <4> QED
        BY <4>2
    <3> QED
      BY <2>1, <2>6, <3>2
  <2>8. PutLen(p) = PutLen(acc) + k
    <3>1. PutLen(p) = W * (n + 1) + l /\ PutLen(acc) = W * n + acc.m
      BY <2>3, <2>4 DEF PutLen, n
    <3>2. W * (n + 1) = W * n + W
      BY <1>1, <1>7
    <3> DEFINE b == W * n
               c == W * (n + 1)
    <3>3. b \in Nat /\ c = b + W /\ PutLen(p) = c + l /\ PutLen(acc) = b + acc.m
      BY <1>7, <3>1, <3>2
    <3> HIDE DEF b, c
    <3>4. acc.m + k = W + l /\ acc.m \in Nat /\ l \in Nat /\ W \in Nat
      BY <1>1, <1>7, <2>3 DEF m
    <3> QED
      BY <3>3, <3>4
  <2>9. PutValue(p) = M + r * B
    <3> HIDE DEF e
    <3>1. PutValue(p) = (M + z * B) + q * (Base * B)
      BY <2>3, <2>4, <2>5 DEF PutValue
    <3>2. (Base * q + z) * B = q * (Base * B) + z * B
      BY <1>1, <1>7, <2>1
    <3>5. z * B \in Nat
      BY <1>1, <2>1
    <3>6. Base * B \in Nat
      BY <1>1, <1>7
    <3>3. z * B \in Nat /\ q * (Base * B) \in Nat
      <4> DEFINE v == Base * B
      <4>1. v \in Nat
        BY <3>6
      <4> HIDE DEF v
      <4>2. q * v \in Nat
        BY <2>1, <4>1
      <4> QED
        BY <3>5, <4>2 DEF v
    <3> DEFINE a == z * B
               b == q * (Base * B)
               c == r * B
    <3>4. a \in Nat /\ b \in Nat /\ c = b + a /\ PutValue(p) = (M + a) + b
      BY <2>1, <3>1, <3>2, <3>3
    <3> HIDE DEF a, b, c
    <3>7. PutValue(p) = M + c
      BY <1>1, <3>4
    <3> QED
      BY <3>7 DEF c
  <2> QED
    BY <1>4, <1>9, <2>3, <2>7, <2>8, <2>9
<1>11. CASE m < W
  <2>1. p.d = d /\ p.r = r /\ p.m = m
    BY <1>4, <1>11
  <2>2. PutValue(p) = M + r * B
    BY <2>1 DEF PutValue, M, B, n
  <2>3. PutLen(p) = PutLen(acc) + k
    <3> DEFINE b == W * n
    <3>1. PutLen(p) = b + m /\ PutLen(acc) = b + acc.m /\ b \in Nat
      BY <1>7, <2>1 DEF PutLen, n
    <3> HIDE DEF b
    <3> QED
      BY <1>1, <3>1
  <2> QED
    BY <1>4, <1>6, <1>9, <2>1, <2>2, <2>3
<1> QED
  BY <1>4, <1>7, <1>10, <1>11

\* With i of the digits put together, the rest is worth what is missing.
Packing(a, i, k, ds) ==
  /\ a.r < Power(2, a.m) /\ PutLen(a) = k * i
  /\ HighValues(Power(2, k), ds)[Len(ds) - i] * Power(2, k * i) + PutValue(a) = DigitsValue(Power(2, k), ds)

\* A digit put keeps to the digits taken so far.
LEMMA PackingStep ==
  ASSUME NEW k \in Nat, k <= W, NEW ds \in Seq(0 .. Power(2, k) - 1), NEW a \in PutStates,
         NEW i \in Nat, i < Len(ds), Packing(a, i, k, ds), NEW p, p = PutBits(k, a, ds[Len(ds) - i])
  PROVE  p \in PutStates /\ Packing(p, i + 1, k, ds)
<1> DEFINE n == Len(ds)
           h == Power(2, k)
           j == n - i
           x == ds[j]
           H == HighValues(h, ds)
           w == Power(2, k * i)
<1>1. n \in Nat /\ j \in 1 .. n /\ j - 1 = n - (i + 1) /\ j - 1 \in 0 .. n
  <2>1. n \in Nat
    BY LenProperties
  <2> HIDE DEF n
  <2> QED
    BY <2>1 DEF n
<1>2. h \in Nat /\ h > 0
  BY TwoPower
<1>3. ds \in Seq(Nat) /\ x \in Nat /\ x < h
  <2>1. \A l \in 1 .. n : ds[l] \in 0 .. h - 1
    BY ElementOfSeq
  <2>2. x \in 0 .. h - 1
    BY <1>1, <2>1
  <2> HIDE DEF h
  <2>3. 0 .. h - 1 \subseteq Nat
    BY <1>2
  <2>4. ds \in Seq(Nat)
    BY <2>3, SeqMonotonic DEF h
  <2> QED
    BY <1>2, <2>2, <2>4
<1>4. H[j] \in Nat /\ H[j - 1] \in Nat /\ H[j] = H[j - 1] * h + x
  <2> HIDE DEF h
  <2>1. H \in [0 .. n -> Nat] /\ \A l \in 1 .. n : H[l] = H[l - 1] * h + ds[l]
    BY <1>2, <1>3, HighValuesAre
  <2>2. j \in 0 .. n
    BY <1>1
  <2> HIDE DEF H, n
  <2> QED
    BY <1>1, <2>1, <2>2
<1>5. a.r < Power(2, a.m) /\ PutLen(a) = k * i /\ H[j] * w + PutValue(a) = DigitsValue(h, ds)
  BY DEF Packing
<1> HIDE DEF n, h, j, x, H, w
<1>6. /\ p \in PutStates /\ p.r < Power(2, p.m) /\ PutLen(p) = PutLen(a) + k
      /\ PutValue(p) = PutValue(a) + x * Power(2, PutLen(a))
  <2>1. p = PutBits(k, a, x)
    BY DEF x, j, n
  <2>2. x < Power(2, k)
    BY <1>3 DEF h
  <2> QED
    BY <1>3, <1>5, <2>1, <2>2, PutBitsExact
<1>7. k * (i + 1) = k * i + k /\ k * i \in Nat
  OBVIOUS
<1>8. w \in Nat /\ Power(2, k * (i + 1)) = w * h
  <2> DEFINE b == k * i
  <2>1. b \in Nat
    BY <1>7
  <2> HIDE DEF b
  <2>2. 2 \in Nat
    OBVIOUS
  <2>3. Power(2, b + k) = Power(2, b) * Power(2, k) /\ Power(2, b) \in Nat
    BY <2>1, <2>2, PowerAdds, TwoPower
  <2> QED
    BY <1>7, <2>3 DEF b, w, h
<1>9. PutLen(p) = k * (i + 1)
  BY <1>5, <1>6, <1>7
<1>10. PutValue(a) \in Nat /\ PutValue(p) = PutValue(a) + x * w
  BY <1>5, <1>6, PutValueNat DEF w
<1>11. H[j - 1] * (w * h) + PutValue(p) = DigitsValue(h, ds)
  <2> DEFINE g == H[j - 1]
             V == PutValue(a)
             D == DigitsValue(h, ds)
  <2>1. g \in Nat /\ V \in Nat /\ (g * h + x) * w + V = D /\ PutValue(p) = V + x * w
    BY <1>4, <1>5, <1>10
  <2> HIDE DEF g, V, D
  <2>2. (g * h + x) * w = g * (w * h) + x * w
    BY <1>2, <1>3, <1>8, <2>1
  <2>3. x * w \in Nat /\ w * h \in Nat
    BY <1>2, <1>3, <1>8
  <2> DEFINE s == w * h
  <2>4. g * s \in Nat
    BY <2>1, <2>3
  <2> DEFINE e == g * s
             f == x * w
             t == (g * h + x) * w
  <2>5. t = e + f /\ e \in Nat /\ f \in Nat /\ t + V = D /\ PutValue(p) = V + f
    BY <2>1, <2>2, <2>3, <2>4
  <2> HIDE DEF e, f, t
  <2>6. e + PutValue(p) = D
    BY <2>1, <2>5
  <2> QED
    BY <2>6 DEF e, s, g, D
<1>12. H[n - (i + 1)] * Power(2, k * (i + 1)) + PutValue(p) = DigitsValue(h, ds)
  BY <1>1, <1>8, <1>11
<1> QED
  BY <1>6, <1>9, <1>12 DEF Packing, H, n, h

(***************************************************************************)
(* All of the digits.                                                      *)
(***************************************************************************)
LEMMA PackedSoFar ==
  ASSUME NEW k \in Nat, k <= W, NEW ds \in Seq(0 .. Power(2, k) - 1)
  PROVE  \E a \in PutStates :
           /\ a.r < Power(2, a.m) /\ PutLen(a) = k * Len(ds) /\ PutValue(a) = DigitsValue(Power(2, k), ds)
           /\ Packed(k, ds) = IF a.r > 0 THEN Append(a.d, a.r) ELSE a.d
<1> DEFINE n == Len(ds)
           h == Power(2, k)
<1>1. h \in Nat /\ h > 0
  BY TwoPower
<1>2. ds \in Seq(Nat) /\ n \in Nat
  <2> HIDE DEF h
  <2>1. 0 .. h - 1 \subseteq Nat
    BY <1>1
  <2>2. ds \in Seq(Nat)
    BY <2>1, SeqMonotonic DEF h
  <2> QED
    BY <2>2, LenProperties
<1>3. PICK acc \in [0 .. n -> PutStates] : PackRun(acc, k, ds)
  BY <1>2, PackRunExists
<1> HIDE DEF n
<1> DEFINE T == {i \in 0 .. n : Packing(acc[i], i, k, ds)}
<1>4. 0 \in T
  <2>1. acc[0] = PutStart
    BY <1>3 DEF PackRun
  <2>2. k * 0 = 0 /\ n - 0 = n /\ Power(2, 0) = 1
    BY <1>2, PowerIs
  <2>3. PutStart.r = 0 /\ PutStart.m = 0 /\ PutStart.d = <<>>
    BY DEF PutStart
  <2>4. Len(<<>>) = 0 /\ <<>> \in Seq(Limb) /\ <<>> \in Seq(Int)
    BY EmptySeq
  <2>5. Magnitude(<<>>) = 0
    BY <2>4, LowValuesAre DEF Magnitude
  <2>6. W * 0 = 0 /\ Power(Base, 0) = 1
    BY BitPlaces, Places
  <2>7. PutLen(PutStart) = 0 /\ PutValue(PutStart) = 0
    BY <2>3, <2>4, <2>5, <2>6 DEF PutLen, PutValue
  <2>8. DigitsValue(h, ds) \in Nat /\ HighValues(h, ds)[n] = DigitsValue(h, ds)
    <3> HIDE DEF h
    <3> QED
      BY <1>1, <1>2, DigitsValueNat DEF n
  <2>9. HighValues(h, ds)[n - 0] * Power(2, k * 0) + PutValue(PutStart) = DigitsValue(h, ds)
    <3> DEFINE D == DigitsValue(h, ds)
    <3>1. HighValues(h, ds)[n - 0] = D /\ D \in Nat
      BY <2>2, <2>8
    <3> HIDE DEF D
    <3>2. D * 1 + 0 = D
      BY <3>1
    <3> QED
      BY <2>2, <2>7, <3>1, <3>2 DEF D
  <2>10. 0 < Power(2, 0)
    BY <2>2
  <2>11. Packing(PutStart, 0, k, ds)
    BY <2>2, <2>3, <2>7, <2>9, <2>10 DEF Packing, n
  <2> QED
    BY <1>2, <2>1, <2>11
<1>5. ASSUME NEW i \in 0 .. n - 1, i \in T PROVE i + 1 \in T
  <2> DEFINE j == i + 1
             a == acc[i]
  <2>1. j \in 1 .. n /\ j - 1 = i /\ j \in 0 .. n /\ i \in 0 .. n /\ i \in Nat /\ i < n /\ n + 1 - j = n - i
    BY <1>2
  <2>2. acc[j] = PutBits(k, acc[j - 1], ds[n + 1 - j])
    BY <1>3, <2>1 DEF PackRun, n
  <2>3. a \in PutStates /\ Packing(a, i, k, ds) /\ acc[j] = PutBits(k, a, ds[n - i])
    BY <1>3, <1>5, <2>1, <2>2
  <2> HIDE DEF a
  <2>4. Packing(acc[j], i + 1, k, ds)
    BY <2>1, <2>3, PackingStep DEF n
  <2> QED
    BY <2>1, <2>4
<1> HIDE DEF T
<1>6. n \in T
  <2>1. \A i \in 0 .. n : i \in T
    BY <1>2, <1>4, <1>5, InductUpTo
  <2> QED
    BY <1>2, <2>1
<1> DEFINE a == acc[n]
<1>7. a \in PutStates /\ Packing(a, n, k, ds)
  BY <1>2, <1>3, <1>6 DEF T
<1>8. Packed(k, ds) = IF a.r > 0 THEN Append(a.d, a.r) ELSE a.d
  BY <1>3 DEF PackRun, n
<1> HIDE DEF a
<1>9. PutValue(a) = DigitsValue(h, ds) /\ a.r < Power(2, a.m) /\ PutLen(a) = k * n
  <2>1. /\ a.r < Power(2, a.m) /\ PutLen(a) = k * n
        /\ HighValues(h, ds)[n - n] * Power(2, k * n) + PutValue(a) = DigitsValue(h, ds)
    BY <1>7 DEF Packing, n
  <2>2. n - n = 0
    BY <1>2
  <2>3. HighValues(h, ds)[0] = 0
    <3> HIDE DEF h
    <3> QED
      BY <1>1, <1>2, HighValuesAre
  <2>4. k * n \in Nat
    BY <1>2
  <2> DEFINE b == k * n
             g == Power(2, b)
             V == PutValue(a)
  <2>5. b \in Nat /\ V \in Nat
    BY <1>7, <2>4, PutValueNat
  <2>6. g \in Nat
    <3> HIDE DEF b
    <3> QED
      BY <2>5, TwoPower
  <2>7. 0 * g + V = DigitsValue(h, ds)
    BY <2>1, <2>2, <2>3
  <2> HIDE DEF g, V
  <2>8. V = DigitsValue(h, ds)
    BY <2>5, <2>6, <2>7
  <2> QED
    BY <2>1, <2>8 DEF V
<1> QED
  BY <1>7, <1>8, <1>9 DEF n, h

(***************************************************************************)
(* Digits of a radix that is a power of two, put together.                 *)
(***************************************************************************)
LEMMA PackedIs ==
  ASSUME NEW k \in Nat, k > 0, k <= W, NEW ds \in Seq(0 .. Power(2, k) - 1), Len(ds) > 0, ds[1] # 0
  PROVE  /\ Normal(Packed(k, ds)) /\ Magnitude(Packed(k, ds)) = DigitsValue(Power(2, k), ds)
         /\ Len(Packed(k, ds)) > 0 /\ Len(Packed(k, ds)) <= LimbsFor(k * Len(ds))
<1> DEFINE n == Len(ds)
           h == Power(2, k)
           D == DigitsValue(h, ds)
<1>1. /\ n \in Nat /\ D \in Nat /\ n > 0 /\ Power(h, n - 1) <= D
  <2>1. h \in Nat
    BY TwoPower
  <2>2. 1 < h
    <3>1. 0 \in Nat /\ 1 \in Nat /\ 2 \in Nat /\ 2 > 1 /\ Power(2, 0) = 1 /\ 0 < k
      BY PowerIs
    <3>2. 2 * Power(2, 0) <= Power(2, k)
      BY <3>1, PowerGrows
    <3> QED
      BY <2>1, <3>1, <3>2
  <2> HIDE DEF h
  <2> QED
    BY <2>1, <2>2, DigitsBound DEF h
<1>2. PICK a \in PutStates :
        /\ a.r < Power(2, a.m) /\ PutLen(a) = k * n /\ PutValue(a) = D
        /\ Packed(k, ds) = IF a.r > 0 THEN Append(a.d, a.r) ELSE a.d
  BY PackedSoFar
<1> DEFINE d == a.d
           l == Len(d)
           M == Magnitude(d)
           B == Power(Base, l)
           b == k * n
<1>3. /\ d \in Seq(Limb) /\ l \in Nat /\ a.r \in Nat /\ a.m \in Nat /\ a.m < W
      /\ M \in Nat /\ B \in Nat /\ B > 0
  BY PutValueNat
<1>4. W * l + a.m = b /\ M + a.r * B = D /\ b \in Nat
  <2>1. b \in Nat
    BY <1>1
  <2> QED
    BY <1>2, <2>1 DEF PutLen, PutValue
<1>5. W \in Nat /\ W > 0 /\ Base = Power(2, W) /\ W * l \in Nat
  <2> HIDE DEF l
  <2> QED
    BY <1>3, BitPlaces
<1>6. a.r \in Limb
  <2>1. Power(2, a.m) <= Power(2, W)
    <3>1. 2 \in Nat /\ 2 > 1 /\ a.m <= W
      BY <1>3, <1>5
    <3> QED
      BY <1>3, <1>5, <3>1, PowerMonotone
  <2>2. Power(2, a.m) \in Nat /\ Power(2, W) \in Nat
    BY <1>3, <1>5, TwoPower
  <2>3. a.r < Base
    BY <1>2, <1>3, <1>5, <2>1, <2>2
  <2> QED
    BY <1>3, <2>3, LimbsAreInts
<1>7. LimbsFor(b) = IF a.m = 0 THEN l ELSE l + 1
  <2> DEFINE v == b + W - 1
             e == W * l
             f == W * (l + 1)
  <2>1. f = e + W
    BY <1>3, <1>5
  <2>2. e \in Nat /\ b = e + a.m /\ LimbsFor(b) = v \div W /\ W \in Nat \ {0} /\ f \in Nat
    BY <1>4, <1>5, <2>1 DEF LimbsFor
  <2> HIDE DEF b, l
  <2>3. CASE a.m = 0
    <3> DEFINE r == W - 1
    <3>1. v = e + r /\ r \in Nat /\ r < W
      BY <1>3, <1>4, <1>5, <2>2, <2>3
    <3> HIDE DEF r, v
    <3>2. v = W * l + r
      BY <3>1
    <3>3. v \div W = l
      BY <1>3, <2>2, <3>1, <3>2, DivisionUnique
    <3> QED
      BY <2>2, <2>3, <3>3 DEF v
  <2>4. CASE a.m # 0
    <3> DEFINE r == a.m - 1
               q == l + 1
    <3>1. v = f + r /\ r \in Nat /\ r < W /\ q \in Nat
      <4>1. q \in Nat
        BY <1>3
      <4>2. a.m \in Nat /\ a.m < W /\ W \in Nat /\ a.m # 0
        BY <1>3, <1>5, <2>4
      <4>3. b = e + a.m /\ f = e + W /\ e \in Nat
        BY <2>1, <2>2
      <4> HIDE DEF e, f, q
      <4> QED
        BY <4>1, <4>2, <4>3, SMTT(30)
    <3>2. f = W * q
      OBVIOUS
    <3> HIDE DEF r, v, q, f
    <3>3. v = W * q + r
      BY <3>1, <3>2
    <3>4. v \div W = q
      BY <2>2, <3>1, <3>3, DivisionUnique
    <3> QED
      BY <2>2, <2>4, <3>4 DEF v, q
  <2> QED
    BY <2>3, <2>4
<1> HIDE DEF n, h, D, d, l, M, B
<1>8. CASE a.r > 0
  <2> DEFINE e == Append(d, a.r)
  <2>1. Packed(k, ds) = e
    BY <1>2, <1>8 DEF d
  <2> HIDE DEF e
  <2>2. e \in Seq(Limb) /\ Len(e) = l + 1 /\ e[l + 1] = a.r /\ Magnitude(e) = M + a.r * B
    BY <1>3, <1>6, OnTop DEF e, l, M, B
  <2>3. Normal(e)
    BY <1>8, <2>2 DEF Normal
  <2>4. a.m # 0
    <3>1. a.m = 0 => Power(2, a.m) = 1
      BY PowerIs
    <3> QED
      BY <1>2, <1>3, <1>8, <3>1
  <2>5. LimbsFor(b) = l + 1
    BY <1>7, <2>4
  <2>6. Len(e) > 0 /\ Len(e) <= LimbsFor(b)
    BY <1>3, <2>2, <2>5
  <2> QED
    BY <1>4, <2>1, <2>2, <2>3, <2>6 DEF D, n, h
<1>9. CASE ~(a.r > 0)
  <2>1. Packed(k, ds) = d
    BY <1>2, <1>9 DEF d
  <2>2. M = D
    <3>1. a.r = 0
      BY <1>3, <1>9
    <3>2. M + 0 * B = D
      BY <1>4, <3>1
    <3> QED
      BY <1>3, <3>2
  <2>3. Power(h, n - 1) = Power(2, k * (n - 1)) /\ k * (n - 1) \in Nat /\ k * (n - 1) + k = b
    <3> DEFINE j == n - 1
    <3>1. j \in Nat /\ n = j + 1
      BY <1>1
    <3> HIDE DEF j
    <3>2. k * j \in Nat /\ k * (j + 1) = k * j + k
      BY <3>1
    <3>3. 2 \in Nat
      OBVIOUS
    <3>4. Power(Power(2, k), j) = Power(2, k * j)
      BY <3>1, <3>3, PowerOfPower
    <3> QED
      BY <3>1, <3>2, <3>4 DEF j, h
  <2> DEFINE c == k * (n - 1)
  <2>4. c \in Nat /\ c + k = b /\ Power(2, c) <= D /\ Power(2, c) \in Nat /\ Power(2, c) > 0
    <3>1. c \in Nat /\ c + k = b /\ Power(2, c) <= D
      BY <1>1, <2>3
    <3> HIDE DEF c
    <3> QED
      BY <3>1, TwoPower
  <2> HIDE DEF c
  <2>5. l > 0
    <3>1. l = 0 => M < 1
      <4>1. Power(Base, 0) = 1
        BY Places
      <4>2. M < Power(Base, l)
        BY <1>3, MagnitudeBelow DEF M, l
      <4> QED
        BY <4>1, <4>2
    <3>2. D > 0
      BY <1>1, <2>4
    <3> QED
      BY <1>1, <1>3, <2>2, <3>1, <3>2
  <2>6. d[l] # 0
    <3> DEFINE j == l - 1
               e == W * j
    <3>1. j \in Nat /\ l = j + 1
      BY <1>3, <2>5
    <3> HIDE DEF j
    <3>2. W * (j + 1) = W * j + W /\ W * j \in Nat
      BY <1>5, <3>1
    <3>3. e \in Nat /\ e + W + a.m = b
      BY <1>4, <3>1, <3>2
    <3>4. Power(Base, j) = Power(2, e)
      BY <3>1, BitPlaces
    <3> HIDE DEF e
    <3>5. e <= c
      BY <1>3, <1>5, <2>4, <3>3
    <3>6. Power(2, e) <= Power(2, c) /\ Power(2, e) \in Nat
      <4>1. 2 \in Nat /\ 2 > 1
        OBVIOUS
      <4> QED
        BY <2>4, <3>3, <3>5, <4>1, PowerMonotone, TwoPower
    <3>7. Power(Base, j) <= M
      BY <1>1, <2>2, <2>4, <3>4, <3>6
    <3> QED
      BY <1>3, <2>5, <3>7, TopLimb DEF j, l, M
  <2>7. Normal(d)
    BY <1>3, <2>6 DEF Normal, l
  <2>8. Len(d) <= LimbsFor(b) /\ Len(d) > 0
    BY <1>3, <1>7, <2>5 DEF l
  <2> QED
    BY <2>1, <2>2, <2>7, <2>8 DEF D, n, h, M
<1> QED
  BY <1>8, <1>9

-----------------------------------------------------------------------------
(* Decimal digits, a chunk at a time.                                      *)

(***************************************************************************)
(* A chunk goes in below the limbs, which make room for it.                *)
(***************************************************************************)
LEMMA ChunkInIs ==
  ASSUME NEW d, Normal(d), NEW base \in Limb, base > 0, NEW r \in Nat, r < base
  PROVE  /\ Normal(ChunkIn(d, base, r))
         /\ Magnitude(ChunkIn(d, base, r)) = Magnitude(d) * base + r
<1>1. d \in Seq(Limb) /\ Len(d) \in Nat /\ Magnitude(d) \in Nat /\ base \in Nat /\ r \in Limb /\ base < Base
  <2>1. base \in Nat /\ base < Base /\ Base \in Nat
    BY Places DEF Limb
  <2>2. r < Base
    BY <2>1
  <2> QED
    BY <2>1, <2>2, NormalBounds, LimbsAreInts
<1>2. <<>> \in Seq(Limb) /\ Len(<<>>) = 0 /\ Magnitude(<<>>) = 0
  <2>1. <<>> \in Seq(Limb) /\ <<>> \in Seq(Int) /\ Len(<<>>) = 0
    BY EmptySeq
  <2> QED
    BY <2>1, LowValuesAre DEF Magnitude
<1>3. CASE d = <<>> /\ r = 0
  <2>1. ChunkIn(d, base, r) = <<>>
    BY <1>3 DEF ChunkIn
  <2>2. Normal(<<>>)
    BY <1>2 DEF Normal
  <2>3. 0 * base + 0 = 0
    BY <1>1
  <2> QED
    BY <1>2, <1>3, <2>1, <2>2, <2>3
<1>4. CASE d = <<>> /\ r # 0
  <2> DEFINE e == Append(<<>>, r)
  <2>1. ChunkIn(d, base, r) = <<r>> /\ <<r>> = e
    BY <1>4 DEF ChunkIn
  <2>2. e \in Seq(Limb) /\ Len(e) = 1 /\ e[1] = r /\ Magnitude(e) = 0 + r * Power(Base, 0)
    <3> DEFINE z == <<>>
    <3>1. z \in Seq(Limb) /\ Len(z) = 0 /\ Magnitude(z) = 0
      BY <1>2
    <3> HIDE DEF z
    <3>2. Append(z, r) \in Seq(Limb) /\ Len(Append(z, r)) = 1 /\ Append(z, r)[1] = r
      BY <1>1, <3>1, OnTop
    <3>3. Magnitude(Append(z, r)) = 0 + r * Power(Base, 0)
      BY <1>1, <3>1, OnTop
    <3> QED
      BY <3>2, <3>3 DEF z
  <2> HIDE DEF e
  <2>3. Normal(e) /\ Magnitude(e) = r
    <3>1. Power(Base, 0) = 1
      BY Places
    <3>2. 0 + r * 1 = r
      OBVIOUS
    <3> QED
      BY <1>4, <2>2, <3>1, <3>2 DEF Normal
  <2>4. 0 * base + r = r
    BY <1>1
  <2> QED
    BY <1>2, <1>4, <2>1, <2>3, <2>4
<1>5. CASE d # <<>>
  <2> DEFINE n == Len(d)
             M == Magnitude(d)
             P == Power(Base, n)
             Q == Power(Base, n - 1)
             mul == MulLimbs(d, base)
             add == AddLimbs(mul.d, <<>>, r)
             m == mul.c + add.c
             v == M * base + r
  <2>1. n > 0
    BY <1>1, <1>5, EmptySeq
  <2>2. P \in Nat /\ P > 0 /\ M < P /\ Q \in Nat /\ Q <= M
    <3>1. M < P /\ Q <= M /\ n - 1 \in Nat
      BY <2>1, NormalBounds
    <3>2. P \in Nat /\ P > 0
      BY <1>1, Places
    <3> DEFINE j == n - 1
    <3>3. j \in Nat
      BY <3>1
    <3> HIDE DEF j
    <3>4. Power(Base, j) \in Nat
      BY <3>3, Places
    <3> QED
      BY <3>1, <3>2, <3>4 DEF j
  <2>3. /\ mul.d \in Seq(Limb) /\ Len(mul.d) = n /\ mul.c \in Limb
        /\ Magnitude(mul.d) + P * mul.c = M * base
    BY <1>1, MulLimbsExact
  <2>4. ChunkIn(d, base, r) = WithCarry(add.d, m)
    BY <1>5 DEF ChunkIn, WithCarry
  <2> HIDE DEF mul
  <2>5. /\ add.d \in Seq(Limb) /\ Len(add.d) = n /\ add.c \in Limb
        /\ Magnitude(add.d) + P * add.c = Magnitude(mul.d) + r
    BY <1>1, <2>3, AddOneExact
  <2> HIDE DEF add
  <2>6. mul.c \in Nat /\ add.c \in Nat /\ Magnitude(mul.d) \in Nat /\ Magnitude(add.d) \in Nat
    BY <2>3, <2>5, LimbsAreInts, MagnitudeBelow
  <2> HIDE DEF n, M, P, Q
  <2>7. m \in Nat /\ P * m = P * mul.c + P * add.c /\ P * mul.c \in Nat /\ P * add.c \in Nat
    BY <2>2, <2>6
  <2>8. M * base \in Nat /\ M \in Nat
    BY <1>1 DEF M
  <2>9. v = Magnitude(add.d) + P * m /\ v \in Nat
    <3> DEFINE a == P * mul.c
               b == P * add.c
               c == M * base
               e == P * m
    <3>1. a \in Nat /\ b \in Nat /\ c \in Nat /\ e = a + b /\ Magnitude(mul.d) + a = c
          /\ Magnitude(add.d) + b = Magnitude(mul.d) + r /\ v = c + r
      BY <2>3, <2>5, <2>7, <2>8
    <3> DEFINE x == Magnitude(mul.d)
               y == Magnitude(add.d)
    <3>2. x \in Nat /\ y \in Nat
      BY <2>6
    <3>3. a \in Nat /\ b \in Nat /\ c \in Nat /\ r \in Nat /\ e = a + b /\ x + a = c /\ y + b = x + r /\ v = c + r
      BY <1>1, <3>1
    <3> HIDE DEF a, b, c, e, v, x, y
    <3>4. v = y + e /\ v \in Nat
      BY <3>2, <3>3
    <3> QED
      BY <3>4 DEF e, y
  <2>10. v < P * base
    <3>1. (M + 1) * base <= P * base /\ (M + 1) * base = M * base + base
      BY <1>1, <2>2, <2>8
    <3> DEFINE c == M * base
               e == P * base
               f == (M + 1) * base
    <3>2. c \in Nat /\ v = c + r /\ f <= e /\ f = c + base /\ e \in Int
      BY <1>1, <2>2, <2>8, <3>1
    <3> HIDE DEF c, e, f, v
    <3> QED
      BY <1>1, <3>2 DEF e
  <2>11. m \in Limb
    <3> HIDE DEF m, v
    <3>1. P * m <= v
      <4> DEFINE e == P * m
      <4>1. e \in Nat /\ v = Magnitude(add.d) + e
        BY <2>2, <2>7, <2>9
      <4> HIDE DEF e
      <4>2. e <= v
        BY <2>6, <4>1
      <4> QED
        BY <4>2 DEF e
    <3>2. P * m < P * base
      <4> DEFINE e == P * m
                 f == P * base
      <4>1. e \in Nat /\ f \in Nat /\ e <= v /\ v < f
        BY <1>1, <2>2, <2>7, <2>10, <3>1
      <4> HIDE DEF e, f
      <4>2. e < f
        BY <2>9, <4>1
      <4> QED
        BY <4>2 DEF e, f
    <3>3. ~(base <= m)
      <4>1. base <= m => P * base <= P * m
        BY <1>1, <2>2, <2>7
      <4> DEFINE e == P * m
                 f == P * base
      <4>2. e \in Nat /\ f \in Nat /\ e < f /\ (base <= m => f <= e)
        BY <1>1, <2>2, <2>7, <3>2, <4>1
      <4> HIDE DEF e, f
      <4> QED
        BY <4>2
    <3>4. m < Base /\ m \in Nat
      BY <1>1, <2>7, <3>3, Places
    <3> QED
      BY <3>4, LimbsAreInts
  <2>12. Q <= v
    <3>1. M <= M * base
      BY <1>1, <2>8
    <3> DEFINE c == M * base
    <3>2. c \in Nat /\ M <= c /\ v = c + r
      BY <2>8, <3>1
    <3> HIDE DEF c, v
    <3> QED
      BY <2>2, <2>8, <3>2
  <2> HIDE DEF m, v
  <2>13. Normal(WithCarry(add.d, m)) /\ Magnitude(WithCarry(add.d, m)) = v
    <3> DEFINE e == add.d
    <3>1. e \in Seq(Limb) /\ v = Magnitude(e) + Power(Base, Len(e)) * m /\ (Len(e) > 0 => Power(Base, Len(e) - 1) <= v)
      BY <2>5, <2>9, <2>12 DEF P, Q, n
    <3> HIDE DEF e
    <3>2. Normal(WithCarry(e, m)) /\ Magnitude(WithCarry(e, m)) = v
      BY <2>11, <3>1, WithCarryIs
    <3> QED
      BY <3>2 DEF e
  <2> QED
    BY <2>4, <2>13 DEF v, M
<1> QED
  BY <1>3, <1>4, <1>5

DecStates == {a \in [d : Seq(Limb), r : Nat, k : 0 .. DecDigits - 1] : Normal(a.d) /\ a.r < Power(10, a.k)}
DecValue(a) == Magnitude(a.d) * Power(10, a.k) + a.r

\* A chunk of up to DecDigits digits fits a limb.
LEMMA TenPower ==
  ASSUME NEW n \in Nat
  PROVE  Power(10, n) \in Nat /\ Power(10, n) > 0 /\ Power(10, n + 1) = 10 * Power(10, n)
<1>1. 10 \in Nat \ {0} /\ 10 \in Nat
  OBVIOUS
<1> DEFINE k == 10
<1>2. k \in Nat \ {0} /\ k \in Nat
  BY <1>1
<1> HIDE DEF k
<1>3. Power(k, n) \in Nat /\ Power(k, n) > 0
  BY <1>2, PowerPositive
<1>4. Power(k, n + 1) = k * Power(k, n)
  BY <1>2, PowerIs
<1> QED
  BY <1>3, <1>4 DEF k

\* A power of ten is that of the digits in front times that of the chunk.
LEMMA Chunks ==
  /\ DecDigits \in Nat /\ DecDigits > 0
  /\ \A k \in Nat : k <= DecDigits => Power(10, k) \in Limb
<1>1. DecDigits \in Nat /\ DecDigits > 0 /\ Power(10, DecDigits) < Base
  BY ChunkAssumption
<1>2. ASSUME NEW k \in Nat, k <= DecDigits PROVE Power(10, k) \in Limb
  <2> DEFINE t == 10
  <2>1. t \in Nat /\ t > 1
    OBVIOUS
  <2> HIDE DEF t
  <2>2. Power(t, k) <= Power(t, DecDigits)
    BY <1>1, <1>2, <2>1, PowerMonotone
  <2>3. Power(10, k) \in Nat /\ Power(10, DecDigits) \in Nat
    BY <1>1, TenPower
  <2>4. Power(10, k) <= Power(10, DecDigits)
    BY <2>2 DEF t
  <2>5. Power(10, k) < Base
    BY <1>1, <2>3, <2>4, Places
  <2> QED
    BY <2>3, <2>5, LimbsAreInts
<1> QED
  BY <1>1, <1>2

(***************************************************************************)
(* One decimal digit more.                                                 *)
(***************************************************************************)
LEMMA PutDecIs ==
  ASSUME NEW a \in DecStates, NEW x \in 0 .. 9
  PROVE  /\ PutDec(a, x) \in DecStates /\ DecValue(PutDec(a, x)) = DecValue(a) * 10 + x
         /\ Magnitude(a.d) \in Nat /\ DecValue(a) \in Nat
<1> DEFINE r == a.r * 10 + x
           k == a.k + 1
           p == Power(10, a.k)
           q == Power(10, k)
           M == Magnitude(a.d)
<1>1. /\ a.d \in Seq(Limb) /\ a.r \in Nat /\ a.k \in Nat /\ a.k < DecDigits /\ Normal(a.d) /\ a.r < p
      /\ M \in Nat /\ p \in Nat /\ p > 0 /\ q = 10 * p /\ q \in Nat /\ q > 0
  <2>1. a.d \in Seq(Limb) /\ a.r \in Nat /\ a.k \in 0 .. DecDigits - 1 /\ Normal(a.d) /\ a.r < p
    BY DEF DecStates
  <2>2. a.k \in Nat /\ a.k < DecDigits
    BY <2>1, Chunks
  <2>3. p \in Nat /\ p > 0 /\ q = 10 * p
    BY <2>2, TenPower
  <2>4. M \in Nat
    BY <2>1, MagnitudeBelow
  <2> HIDE DEF p, q
  <2>5. q \in Nat /\ q > 0
    BY <2>3
  <2> QED
    BY <2>1, <2>2, <2>3, <2>4, <2>5
<1> HIDE DEF p, q, M
<1>2. r \in Nat /\ r < q /\ k \in Nat /\ k <= DecDigits
  BY <1>1, Chunks
<1>3. DecValue(a) = M * p + a.r /\ DecValue(a) \in Nat
  <2>1. M * p \in Nat
    BY <1>1
  <2>2. DecValue(a) = M * p + a.r
    BY DEF DecValue, M, p
  <2> DEFINE c == M * p
  <2>3. c \in Nat /\ DecValue(a) = c + a.r
    BY <2>1, <2>2
  <2> HIDE DEF c
  <2>4. DecValue(a) \in Nat
    BY <1>1, <2>3
  <2> QED
    BY <2>2, <2>4
<1>4. M * q + r = DecValue(a) * 10 + x
  <2>1. M * (10 * p) = (M * p) * 10 /\ M * p \in Nat
    BY <1>1
  <2> DEFINE c == M * p
             e == M * q
  <2>2. c \in Nat /\ e = c * 10 /\ DecValue(a) = c + a.r
    BY <1>1, <1>3, <2>1
  <2> HIDE DEF c, e
  <2>3. e + r = (c + a.r) * 10 + x
    BY <1>1, <2>2
  <2> QED
    BY <2>2, <2>3 DEF e
<1>5. PutDec(a, x) = IF k = DecDigits THEN [d |-> ChunkIn(a.d, q, r), r |-> 0, k |-> 0]
                                      ELSE [d |-> a.d, r |-> r, k |-> k]
  BY DEF PutDec, q
<1>6. CASE k = DecDigits
  <2> DEFINE e == ChunkIn(a.d, q, r)
             b == PutDec(a, x)
  <2>1. q \in Limb
    BY <1>2, Chunks DEF q
  <2>2. Normal(e) /\ Magnitude(e) = M * q + r
    <3> HIDE DEF r
    <3> QED
      BY <1>1, <1>2, <2>1, ChunkInIs DEF M
  <2>3. e \in Seq(Limb)
    BY <2>2, NormalBounds
  <2>4. b = [d |-> e, r |-> 0, k |-> 0]
    BY <1>5, <1>6
  <2> HIDE DEF e, b
  <2>5. Power(10, 0) = 1
    BY PowerIs
  <2>6. b.d = e /\ b.r = 0 /\ b.k = 0
    BY <2>4
  <2>7. 0 \in 0 .. DecDigits - 1 /\ 0 < Power(10, 0)
    BY <2>5, Chunks
  <2>8. b \in DecStates
    BY <2>2, <2>3, <2>4, <2>6, <2>7 DEF DecStates
  <2>9. DecValue(b) = M * q + r
    <3>1. DecValue(b) = Magnitude(e) * 1 + 0
      BY <2>5, <2>6 DEF DecValue
    <3>2. Magnitude(e) \in Nat
      BY <2>2, NormalBounds
    <3> DEFINE f == Magnitude(e)
    <3>3. f \in Nat /\ DecValue(b) = f * 1 + 0 /\ f = M * q + r
      BY <2>2, <3>1, <3>2
    <3> HIDE DEF f
    <3>4. DecValue(b) = f
      BY <3>3
    <3> QED
      BY <3>3, <3>4
  <2> QED
    BY <1>1, <1>3, <1>4, <2>8, <2>9 DEF b, M
<1>7. CASE k # DecDigits
  <2> DEFINE b == PutDec(a, x)
  <2>1. b = [d |-> a.d, r |-> r, k |-> k]
    BY <1>5, <1>7
  <2>2. k \in 0 .. DecDigits - 1
    BY <1>2, <1>7, Chunks
  <2> HIDE DEF b, r, k
  <2>3. b.d = a.d /\ b.r = r /\ b.k = k
    BY <2>1
  <2>4. b \in DecStates
    BY <1>1, <1>2, <2>1, <2>2, <2>3 DEF DecStates, q
  <2>5. DecValue(b) = M * q + r
    BY <2>3 DEF DecValue, M, q
  <2> QED
    BY <1>1, <1>3, <1>4, <2>4, <2>5 DEF b, M
<1> QED
  BY <1>6, <1>7

\* The states that the digits, from the first one on, lead to.
DecStart == [d |-> <<>>, r |-> 0, k |-> 0]
DecRun(acc, ds) ==
  /\ acc[0] = DecStart
  /\ \A i \in 1 .. Len(ds) : acc[i] = PutDec(acc[i - 1], ds[i])
  /\ FromDec(ds) =
       IF acc[Len(ds)].k > 0 THEN ChunkIn(acc[Len(ds)].d, Power(10, acc[Len(ds)].k), acc[Len(ds)].r)
                             ELSE acc[Len(ds)].d

\* The states of FromDec are what its recursive function gives.
LEMMA DecRunExists ==
  ASSUME NEW ds \in Seq(0 .. 9)
  PROVE  Len(ds) \in Nat /\ \E acc \in [0 .. Len(ds) -> DecStates] : DecRun(acc, ds)
<1> DEFINE n == Len(ds)
           F == [p \in (1 .. n) \X DecStates |-> PutDec(p[2], ds[p[1]])]
           Body(v) == [i \in 0 .. n |-> IF i = 0 THEN DecStart ELSE PutDec(v[i - 1], ds[i])]
           q == CHOOSE v : v = Body(v)
<1>1. n \in Nat /\ \A i \in 1 .. n : ds[i] \in 0 .. 9
  BY ElementOfSeq
<1>2. DecStart \in DecStates /\ DecValue(DecStart) = 0
  <2>1. <<>> \in Seq(Limb) /\ <<>> \in Seq(Int) /\ Len(<<>>) = 0 /\ 0 \in 0 .. DecDigits - 1
    BY EmptySeq, Chunks
  <2>2. Magnitude(<<>>) = 0
    BY <2>1, LowValuesAre DEF Magnitude
  <2>3. Normal(<<>>)
    BY <2>1 DEF Normal
  <2>4. Power(10, 0) = 1 /\ 0 < Power(10, 0)
    <3>1. Power(10, 0) = 1
      BY PowerIs
    <3> QED
      BY <3>1
  <2>5. DecStart.d = <<>> /\ DecStart.r = 0 /\ DecStart.k = 0
    BY DEF DecStart
  <2>6. DecStart \in [d : Seq(Limb), r : Nat, k : 0 .. DecDigits - 1]
    BY <2>1 DEF DecStart
  <2>7. 0 * 1 + 0 = 0
    OBVIOUS
  <2> QED
    BY <2>2, <2>3, <2>4, <2>5, <2>6, <2>7 DEF DecStates, DecValue
<1>8. FromDec(ds) = IF q[n].k > 0 THEN ChunkIn(q[n].d, Power(10, q[n].k), q[n].r) ELSE q[n].d
  BY DEF FromDec, DecStart
<1> HIDE DEF n
<1>3. \A i \in 1 .. n, s \in DecStates : F[<<i, s>>] = PutDec(s, ds[i])
  OBVIOUS
<1> HIDE DEF F
<1>4. Steps(F, n, DecStates)
  <2> SUFFICES ASSUME NEW i \in 1 .. n, NEW s \in DecStates PROVE F[<<i, s>>] \in DecStates
    BY DEF Steps
  <2> DEFINE x == ds[i]
  <2>1. x \in 0 .. 9 /\ F[<<i, s>>] = PutDec(s, x)
    BY <1>1, <1>3
  <2> HIDE DEF x
  <2>2. PutDec(s, x) \in DecStates
    BY <2>1, PutDecIs
  <2> QED
    BY <2>1, <2>2
<1>5. PICK f \in [0 .. n -> DecStates] : Iterated(f, F, n, DecStart)
  BY <1>1, <1>2, <1>4, IterationExists
<1>6. f = Body(f)
  <2>1. ASSUME NEW i \in 0 .. n PROVE f[i] = IF i = 0 THEN DecStart ELSE PutDec(f[i - 1], ds[i])
    <3>1. CASE i = 0
      BY <3>1, <1>5 DEF Iterated
    <3>2. CASE i # 0
      <4>1. i \in 1 .. n /\ i - 1 \in 0 .. n
        BY <1>1, <3>2
      <4> QED
        BY <1>3, <1>5, <3>2, <4>1 DEF Iterated
    <3> QED
      BY <3>1, <3>2
  <2> QED
    BY <2>1, <1>5
<1>7. q = Body(q)
  <2> HIDE DEF Body
  <2> QED
    BY <1>6
<1> HIDE DEF q
<1>9. q = [i \in 0 .. n |-> q[i]] /\ q[0] = DecStart
  BY <1>1, <1>7
<1>10. \A i \in 1 .. n : q[i] = PutDec(q[i - 1], ds[i])
  <2>1. \A i \in 1 .. n : i \in 0 .. n /\ i # 0
    BY <1>1
  <2> QED
    BY <1>7, <2>1
<1>11. Iterates(q, F, n, DecStates, DecStart)
  BY <1>3, <1>9, <1>10 DEF Iterates
<1>12. q \in [0 .. n -> DecStates]
  BY <1>1, <1>2, <1>4, <1>11, IterationIs
<1> QED
  BY <1>1, <1>8, <1>9, <1>10, <1>12 DEF DecRun, n

(***************************************************************************)
(* All of the decimal digits.                                              *)
(***************************************************************************)
LEMMA FromDecIs ==
  ASSUME NEW ds \in Seq(0 .. 9)
  PROVE  /\ Normal(FromDec(ds)) /\ Magnitude(FromDec(ds)) = DigitsValue(10, ds)
         /\ DigitsValue(10, ds) \in Nat
<1> DEFINE n == Len(ds)
           H == HighValues(10, ds)
<1>1. n \in Nat /\ \A i \in 1 .. n : ds[i] \in 0 .. 9
  BY ElementOfSeq
<1>2. /\ H[0] = 0 /\ (\A i \in 1 .. n : H[i] = H[i - 1] * 10 + ds[i])
      /\ DigitsValue(10, ds) = H[n] /\ DigitsValue(10, ds) \in Nat
  <2> DEFINE t == 10
  <2>1. t \in Nat
    OBVIOUS
  <2>2. ds \in Seq(Nat)
    <3>1. 0 .. 9 \subseteq Nat
      OBVIOUS
    <3> QED
      BY <3>1, SeqMonotonic
  <2> HIDE DEF t
  <2>3. HighValues(t, ds)[0] = 0 /\ (\A i \in 1 .. n : HighValues(t, ds)[i] = HighValues(t, ds)[i - 1] * t + ds[i])
    BY <2>1, <2>2, HighValuesAre
  <2>4. DigitsValue(t, ds) = HighValues(t, ds)[n] /\ DigitsValue(t, ds) \in Nat
    BY <2>1, <2>2, DigitsValueNat
  <2> QED
    BY <2>3, <2>4 DEF t
<1>3. PICK acc \in [0 .. n -> DecStates] : DecRun(acc, ds)
  BY DecRunExists
<1> HIDE DEF n, H
<1> DEFINE T == {i \in 0 .. n : DecValue(acc[i]) = H[i]}
<1>4. 0 \in T
  <2>1. acc[0] = DecStart
    BY <1>3 DEF DecRun
  <2>2. DecStart.d = <<>> /\ DecStart.r = 0 /\ DecStart.k = 0 /\ Power(10, 0) = 1
    BY PowerIs DEF DecStart
  <2>3. <<>> \in Seq(Int) /\ Len(<<>>) = 0
    BY EmptySeq
  <2>4. Magnitude(<<>>) = 0
    BY <2>3, LowValuesAre DEF Magnitude
  <2>5. 0 * 1 + 0 = 0
    OBVIOUS
  <2>6. DecValue(DecStart) = 0
    BY <2>2, <2>4, <2>5 DEF DecValue
  <2> QED
    BY <1>1, <1>2, <2>1, <2>6
<1>5. ASSUME NEW i \in 0 .. n - 1, i \in T PROVE i + 1 \in T
  <2> DEFINE j == i + 1
             a == acc[i]
             x == ds[j]
  <2>1. j \in 1 .. n /\ j - 1 = i /\ j \in 0 .. n /\ i \in 0 .. n
    BY <1>1
  <2>2. x \in 0 .. 9 /\ a \in DecStates /\ DecValue(a) = H[i]
    BY <1>1, <1>3, <1>5, <2>1
  <2>3. acc[j] = PutDec(a, x) /\ H[j] = H[i] * 10 + x
    BY <1>2, <1>3, <2>1 DEF DecRun, n
  <2> HIDE DEF a, x, j
  <2>4. DecValue(PutDec(a, x)) = DecValue(a) * 10 + x
    BY <2>2, PutDecIs
  <2> QED
    BY <2>1, <2>2, <2>3, <2>4 DEF j
<1> HIDE DEF T
<1>6. n \in T
  <2>1. \A i \in 0 .. n : i \in T
    BY <1>1, <1>4, <1>5, InductUpTo
  <2> QED
    BY <1>1, <2>1
<1> DEFINE a == acc[n]
           q == Power(10, a.k)
<1>7. a \in DecStates /\ DecValue(a) = DigitsValue(10, ds)
  BY <1>1, <1>2, <1>3, <1>6 DEF T
<1>8. FromDec(ds) = IF a.k > 0 THEN ChunkIn(a.d, q, a.r) ELSE a.d
  BY <1>3 DEF DecRun, n
<1> HIDE DEF a
<1>9. Normal(a.d) /\ a.r \in Nat /\ a.r < q /\ a.k \in Nat /\ a.k <= DecDigits /\ DecValue(a) = Magnitude(a.d) * q + a.r
  <2>1. Normal(a.d) /\ a.r \in Nat /\ a.r < q /\ a.k \in 0 .. DecDigits - 1
    BY <1>7 DEF DecStates
  <2>2. a.k \in Nat /\ a.k <= DecDigits
    BY <2>1, Chunks
  <2> QED
    BY <2>1, <2>2 DEF DecValue
<1>10. q \in Limb /\ q > 0
  BY <1>9, Chunks, TenPower
<1>11. CASE a.k > 0
  <2> HIDE DEF q
  <2>1. Normal(ChunkIn(a.d, q, a.r)) /\ Magnitude(ChunkIn(a.d, q, a.r)) = Magnitude(a.d) * q + a.r
    BY <1>9, <1>10, ChunkInIs
  <2> QED
    BY <1>2, <1>7, <1>8, <1>9, <1>11, <2>1
<1>12. CASE ~(a.k > 0)
  <2>1. a.k = 0
    BY <1>9, <1>12
  <2>2. q = 1
    BY <2>1, PowerIs
  <2> HIDE DEF q
  <2>3. a.r = 0 /\ Magnitude(a.d) \in Nat
    BY <1>9, <2>2, NormalBounds
  <2> DEFINE M == Magnitude(a.d)
  <2>4. M \in Nat /\ DecValue(a) = M * 1 + a.r
    BY <1>9, <2>2, <2>3
  <2> HIDE DEF M
  <2>5. DecValue(a) = M
    BY <2>3, <2>4
  <2> QED
    BY <1>2, <1>7, <1>8, <1>9, <1>12, <2>5 DEF M
<1> QED
  BY <1>11, <1>12

(***************************************************************************)
(* What is reckoned for decimal digits may be a bit short, never as much   *)
(* as one limb.                                                            *)
(***************************************************************************)
LEMMA DecimalRoom ==
  ASSUME NEW d, Normal(d), NEW n \in Nat, n > 0, Magnitude(d) < Power(10, n),
         NEW limbs, limbs = LimbsFor(BitLen(Power(10, n)) - 1)
  PROVE  limbs \in Nat /\ Len(d) <= 4 * limbs
<1> DEFINE t == Power(10, n)
           bl == BitLen(t)
           bits == bl - 1
           l == Len(d)
           M == Magnitude(d)
<1>1. t \in Nat /\ t >= 10
  <2> DEFINE j == n - 1
  <2>1. j \in Nat /\ n = j + 1
    OBVIOUS
  <2> HIDE DEF j
  <2>2. Power(10, j) \in Nat /\ Power(10, j) > 0 /\ Power(10, j + 1) = 10 * Power(10, j)
    BY <2>1, TenPower
  <2> QED
    BY <2>1, <2>2
<1> HIDE DEF t
<1>2. bl \in Nat \ {0} /\ t < Power(2, bl)
  <2>1. t \in Nat \ {0} /\ 2 \in Nat /\ 2 > 1
    BY <1>1
  <2> QED
    BY <2>1, DigitCountBounds DEF BitLen
<1>3. bits > 0 /\ bits \in Nat /\ bl = bits + 1
  <2>1. CASE bl = 1
    <3>1. Power(2, 0) = 1 /\ Power(2, 0 + 1) = 2 * Power(2, 0)
      BY PowerIs
    <3> QED
      BY <1>1, <1>2, <2>1, <3>1
  <2>2. CASE bl # 1
    <3> HIDE DEF bl
    <3> QED
      BY <1>2, <2>2
  <2> QED
    BY <2>1, <2>2
<1> HIDE DEF bl, bits
<1>4. W \in Nat /\ W > 0 /\ W \in Nat \ {0} /\ l \in Nat /\ M \in Nat /\ M < t
  BY BitPlaces, NormalBounds DEF t
<1> DEFINE v == bits + W - 1
<1>5. v \in Nat /\ limbs = v \div W /\ v % W \in Nat /\ v % W < W /\ limbs \in Nat /\ v = W * limbs + (v % W)
  <2>1. v \in Nat
    BY <1>3, <1>4
  <2>2. limbs = v \div W
    BY DEF LimbsFor, bits, bl, t
  <2> HIDE DEF v
  <2> QED
    BY <1>4, <2>1, <2>2, Division
<1>6. limbs > 0 /\ W * limbs >= bits /\ W * limbs \in Nat
  <2> DEFINE e == W * limbs
  <2>1. e \in Nat /\ v = e + (v % W) /\ (limbs = 0 => e = 0)
    <3>4. limbs \in Nat /\ W \in Nat
      BY <1>4, <1>5
    <3>1. e \in Nat
      BY <3>4
    <3>2. W * 0 = 0
      BY <1>4
    <3>3. limbs = 0 => e = 0
      BY <3>2
    <3> HIDE DEF v
    <3> QED
      BY <1>5, <3>1, <3>3
  <2> HIDE DEF e
  <2>2. e >= bits
    BY <1>3, <1>4, <1>5, <2>1
  <2>3. limbs > 0
    BY <1>3, <1>5, <2>1, <2>2
  <2> QED
    BY <2>1, <2>2, <2>3 DEF e
<1>7. l <= limbs + 1
  <2>1. CASE l = 0
    BY <1>5, <2>1
  <2>2. CASE l > 0
    <3> DEFINE j == l - 1
               e == W * j
    <3>1. j \in Nat /\ Power(Base, j) <= M
      BY <1>4, <2>2, NormalBounds
    <3> HIDE DEF j
    <3>2. e \in Nat /\ Power(Base, j) = Power(2, e)
      BY <3>1, BitPlaces
    <3> HIDE DEF e
    <3>3. Power(2, e) \in Nat /\ Power(2, bl) \in Nat
      BY <1>2, <3>2, TwoPower
    <3>4. Power(2, e) < Power(2, bl)
      BY <1>1, <1>2, <1>4, <3>1, <3>2, <3>3
    <3>5. e < bl
      <4>1. 2 \in Nat /\ 2 > 1 /\ bl \in Nat
        BY <1>2
      <4> QED
        BY <3>2, <3>4, <4>1, PowerReflects
    <3>6. W * j <= W * limbs
      BY <1>3, <1>6, <3>2, <3>5 DEF e
    <3>7. j <= limbs
      <4>0. limbs \in Nat /\ j \in Nat /\ W \in Nat
        BY <1>4, <1>5, <3>1
      <4>1. limbs < j => W * (limbs + 1) <= W * j
        <5> DEFINE a == limbs + 1
        <5>1. a \in Nat /\ (limbs < j => a <= j)
          BY <4>0
        <5> HIDE DEF a
        <5>2. a <= j => W * a <= W * j
          BY <4>0, <5>1
        <5> QED
          BY <5>1, <5>2 DEF a
      <4>2. W * (limbs + 1) = W * limbs + W
        BY <1>4, <1>5
      <4> DEFINE a == W * j
                 b == W * limbs
                 c == W * (limbs + 1)
      <4>3. a \in Nat /\ b \in Nat /\ c = b + W /\ a <= b /\ (limbs < j => c <= a)
        BY <1>4, <1>6, <3>1, <3>6, <4>1, <4>2
      <4> HIDE DEF a, b, c
      <4>4. ~(limbs < j)
        BY <1>4, <4>3
      <4> QED
        BY <4>0, <4>4
    <3> QED
      BY <1>4, <1>5, <3>7 DEF j
  <2> QED
    BY <1>4, <2>1, <2>2
<1> QED
  BY <1>4, <1>5, <1>6, <1>7

-----------------------------------------------------------------------------
(* Texts.                                                                  *)

\* Powers that the reckoning of bits takes for granted.
LEMMA SmallPowers ==
  Power(2, 1) = 2 /\ Power(2, 3) = 8 /\ Power(2, 4) = 16
<1> DEFINE P(n) == Power(2, n)
<1>1. \A n \in Nat : P(n + 1) = 2 * P(n)
  <2>1. 2 \in Nat
    OBVIOUS
  <2> QED
    BY <2>1, PowerIs
<1>2. P(0) = 1
  BY PowerIs
<1> HIDE DEF P
<1>3. P(0 + 1) = 2 * P(0) /\ P(1 + 1) = 2 * P(1) /\ P(2 + 1) = 2 * P(2) /\ P(3 + 1) = 2 * P(3)
  BY <1>1
<1>4. P(1) = 2 /\ P(3) = 8 /\ P(4) = 16
  BY <1>2, <1>3
<1> QED
  BY <1>4 DEF P

\* The digits of a text put together: what they are worth, and that the limbs
\* reckoned for them are enough.
LEMMA LimbsIs ==
  ASSUME NEW q, NEW radix \in {2, 8, 10, 16}, NEW ds \in Seq(0 .. radix - 1), Len(ds) > 0, ds[1] # 0,
         q.radix = radix, q.ds = ds, NEW limbs, limbs = LimbsFor(BitsFor(radix, Len(ds)))
  PROVE  /\ Normal(Limbs(q)) /\ Magnitude(Limbs(q)) = DigitsValue(radix, ds)
         /\ limbs \in Nat /\ Len(Limbs(q)) <= 4 * limbs /\ Len(Limbs(q)) > 0
<1> DEFINE n == Len(ds)
<1>1. n \in Nat /\ n > 0
  BY LenProperties
<1>2. W \in Nat /\ W >= 4 /\ W \in Nat \ {0}
  BY WidthAssumption
<1>3. ASSUME NEW k \in {1, 3, 4}, radix = Power(2, k), Limbs(q) = Packed(k, ds), BitsFor(radix, n) = k * n
      PROVE  /\ Normal(Limbs(q)) /\ Magnitude(Limbs(q)) = DigitsValue(radix, ds)
             /\ limbs \in Nat /\ Len(Limbs(q)) <= 4 * limbs /\ Len(Limbs(q)) > 0
  <2>1. k \in Nat /\ k > 0 /\ k <= W
    BY <1>2
  <2> HIDE DEF n
  <2>2. /\ Normal(Packed(k, ds)) /\ Magnitude(Packed(k, ds)) = DigitsValue(Power(2, k), ds)
        /\ Len(Packed(k, ds)) > 0 /\ Len(Packed(k, ds)) <= LimbsFor(k * n)
    BY <1>3, <2>1, PackedIs DEF n
  <2>3. limbs = LimbsFor(k * n)
    BY <1>3 DEF n
  <2>4. limbs \in Nat
    <3> DEFINE v == k * n + W - 1
    <3>1. k * n \in Nat
      BY <1>1, <2>1
    <3>2. v \in Nat
      BY <1>2, <3>1
    <3>3. LimbsFor(k * n) = v \div W
      BY DEF LimbsFor
    <3> HIDE DEF v
    <3>4. v \div W \in Nat
      BY <1>2, <3>2, Division
    <3> QED
      BY <2>3, <3>3, <3>4
  <2>5. Len(Packed(k, ds)) \in Nat
    BY <2>2, NormalBounds
  <2> QED
    BY <1>3, <2>2, <2>3, <2>4, <2>5
<1>4. CASE radix = 2
  <2>1. Limbs(q) = Packed(1, ds)
    BY <1>4 DEF Limbs, FromBin
  <2>2. BitsFor(radix, n) = 1 * n
    BY <1>1, <1>4 DEF BitsFor
  <2> DEFINE k == 1
  <2>3. k \in {1, 3, 4} /\ radix = Power(2, k) /\ Limbs(q) = Packed(k, ds) /\ BitsFor(radix, n) = k * n
    BY <1>4, <2>1, <2>2, SmallPowers
  <2> HIDE DEF k
  <2> QED
    BY <1>3, <2>3
<1>5. CASE radix = 8
  <2>1. Limbs(q) = Packed(3, ds)
    BY <1>5 DEF Limbs, FromOct
  <2>2. BitsFor(radix, n) = 3 * n
    BY <1>5 DEF BitsFor
  <2> DEFINE k == 3
  <2>3. k \in {1, 3, 4} /\ radix = Power(2, k) /\ Limbs(q) = Packed(k, ds) /\ BitsFor(radix, n) = k * n
    BY <1>5, <2>1, <2>2, SmallPowers
  <2> HIDE DEF k
  <2> QED
    BY <1>3, <2>3
<1>6. CASE radix = 16
  <2>1. Limbs(q) = Packed(4, ds)
    BY <1>6 DEF Limbs, FromHex
  <2>2. BitsFor(radix, n) = 4 * n
    BY <1>6 DEF BitsFor
  <2> DEFINE k == 4
  <2>3. k \in {1, 3, 4} /\ radix = Power(2, k) /\ Limbs(q) = Packed(k, ds) /\ BitsFor(radix, n) = k * n
    BY <1>6, <2>1, <2>2, SmallPowers
  <2> HIDE DEF k
  <2> QED
    BY <1>3, <2>3
<1>7. CASE radix = 10
  <2>1. Limbs(q) = FromDec(ds)
    BY <1>7 DEF Limbs
  <2>2. BitsFor(radix, n) = BitLen(Power(10, n)) - 1
    BY <1>7 DEF BitsFor
  <2>3. ds \in Seq(0 .. 9)
    BY <1>7
  <2>4. Normal(FromDec(ds)) /\ Magnitude(FromDec(ds)) = DigitsValue(10, ds) /\ DigitsValue(10, ds) \in Nat
    BY <2>3, FromDecIs
  <2>5. DigitsValue(10, ds) < Power(10, n) /\ Power(10, n - 1) <= DigitsValue(10, ds)
    <3> DEFINE t == 10
    <3>1. t \in Nat /\ t > 1 /\ ds \in Seq(0 .. t - 1)
      BY <2>3
    <3> HIDE DEF t
    <3>2. DigitsValue(t, ds) < Power(t, Len(ds)) /\ Power(t, Len(ds) - 1) <= DigitsValue(t, ds)
      BY <3>1, DigitsBound
    <3> QED
      BY <3>2 DEF t
  <2>6. Len(FromDec(ds)) > 0
    <3>1. n - 1 \in Nat
      BY <1>1
    <3> DEFINE j == n - 1
    <3>2. j \in Nat
      BY <3>1
    <3> HIDE DEF j
    <3>3. Power(10, j) > 0 /\ Power(10, j) \in Nat
      BY <3>2, TenPower
    <3>4. Magnitude(FromDec(ds)) > 0
      BY <2>4, <2>5, <3>3 DEF j
    <3> DEFINE d == FromDec(ds)
    <3>5. Normal(d) /\ Magnitude(d) > 0
      BY <2>4, <3>4
    <3> HIDE DEF d
    <3>6. Len(d) = 0 => Magnitude(d) < 1 /\ Magnitude(d) \in Nat
      BY <3>5, NormalBounds, Places
    <3>7. Len(d) \in Nat
      BY <3>5, NormalBounds
    <3> QED
      BY <3>5, <3>6, <3>7 DEF d
  <2>7. limbs \in Nat /\ Len(FromDec(ds)) <= 4 * limbs
    <3> DEFINE d == FromDec(ds)
    <3>1. Normal(d) /\ Magnitude(d) < Power(10, n) /\ limbs = LimbsFor(BitLen(Power(10, n)) - 1)
      BY <2>2, <2>4, <2>5
    <3> HIDE DEF d, n
    <3> QED
      BY <1>1, <3>1, DecimalRoom DEF d
  <2> QED
    BY <1>7, <2>1, <2>4, <2>6, <2>7
<1> QED
  BY <1>4, <1>5, <1>6, <1>7

\* Nothing but a sign, or a 0 after it.
LEMMA EarlyIs ==
  ASSUME NEW u \in Seq(Nat), Len(u) = SignLen(u) \/ (Len(u) = SignLen(u) + 1 /\ u[Len(u)] = 0)
  PROVE  /\ RadixIn(u) = 10 /\ DigitsIn(u) \in Seq(Nat)
         /\ Below(DigitsIn(u), RadixIn(u)) /\ DigitsValue(RadixIn(u), DigitsIn(u)) = 0
<1> DEFINE n == Len(u)
           s == SignLen(u)
           b == s + 1
           ds == DigitsIn(u)
<1>1. n \in Nat /\ s \in {0, 1} /\ (n = s \/ n = s + 1)
  BY SignLenIs
<1>2. ~Prefixed(u) /\ RadixIn(u) = 10
  BY <1>1 DEF Prefixed, RadixIn
<1>3. ds = SubSeq(u, b, n)
  BY <1>2 DEF DigitsIn
<1>4. \A i \in 1 .. n : u[i] \in Nat
  BY ElementOfSeq
<1>5. b \in 1 .. n + 1 /\ b \in Int
  BY <1>1
<1> HIDE DEF b, n, ds
<1>6. /\ ds \in Seq(Nat) /\ Len(ds) = (IF b <= n THEN n - b + 1 ELSE 0)
      /\ \A i \in 1 .. n - b + 1 : ds[i] = u[b + i - 1]
  <2>1. \A i \in b .. n : u[i] \in Nat
    BY <1>1, <1>4, <1>5
  <2>2. /\ SubSeq(u, b, n) \in Seq(Nat) /\ Len(SubSeq(u, b, n)) = (IF b <= n THEN n - b + 1 ELSE 0)
        /\ \A i \in 1 .. n - b + 1 : SubSeq(u, b, n)[i] = u[b + i - 1]
    BY <1>1, <1>5, <2>1, SubSeqProperties
  <2> QED
    BY <1>3, <2>2
<1> DEFINE t == 10
<1>7. t \in Nat
  OBVIOUS
<1> HIDE DEF t
<1>8. CASE n = s
  <2>1. Len(ds) = 0
    BY <1>1, <1>6, <1>8 DEF b
  <2>2. ds = <<>>
    BY <1>6, <2>1, EmptySeq
  <2>3. DigitsValue(t, <<>>) = 0
    BY <1>6, <1>7, DigitsValueNat
  <2>4. Below(ds, RadixIn(u))
    BY <2>1 DEF Below
  <2> QED
    BY <1>2, <1>6, <2>2, <2>3, <2>4 DEF ds, t
<1>9. CASE n = s + 1
  <2>1. Len(ds) = 1 /\ ds[1] = u[n]
    <3>1. n - b + 1 = 1 /\ b <= n /\ b + 1 - 1 = n
      BY <1>1, <1>9 DEF b
    <3>2. 1 \in 1 .. n - b + 1
      BY <3>1
    <3> QED
      BY <1>6, <3>1, <3>2
  <2>2. ds[1] = 0
    <3>1. Len(u) # SignLen(u)
      BY <1>1, <1>9 DEF n
    <3>2. u[n] = 0
      BY <3>1 DEF n
    <3> QED
      BY <2>1, <3>2
  <2> DEFINE H == HighValues(t, ds)
  <2>3. H[0] = 0 /\ \A i \in 1 .. Len(ds) : H[i] = H[i - 1] * t + ds[i]
    BY <1>6, <1>7, HighValuesAre
  <2>4. DigitsValue(t, ds) = H[Len(ds)]
    BY <1>6, <1>7, DigitsValueNat
  <2> HIDE DEF H
  <2>5. H[1] = H[0] * t + ds[1]
    <3>1. 1 \in 1 .. Len(ds) /\ 1 - 1 = 0
      BY <2>1
    <3> QED
      BY <2>3, <3>1
  <2>6. H[1] = 0
    BY <1>7, <2>2, <2>3, <2>5
  <2>7. Below(ds, 10)
    <3>1. \A i \in 1 .. Len(ds) : i = 1
      BY <2>1
    <3> QED
      BY <2>2, <3>1 DEF Below
  <2> QED
    BY <1>2, <1>6, <2>1, <2>4, <2>6, <2>7 DEF ds, t
<1> QED
  BY <1>1, <1>8, <1>9

(***************************************************************************)
(* What the scanner makes of a text is what the text stands for.           *)
(***************************************************************************)
LEMMA ScannedIs ==
  ASSUME NEW t \in Seq(Nat), NEW q, q = Scanned(t), NEW m, m = Meaning(t)
  PROVE  /\ q \in ScanStates /\ m.radix \in {2, 8, 10, 16} /\ m.wellformed \in BOOLEAN
         /\ q.cs = "ABORT" <=> ~m.wellformed
         /\ q.cs # "ABORT" =>
              /\ q.sign = m.sign
              /\ q.digits = 0 => DigitsValue(m.radix, m.ds) = 0
              /\ q.digits # 0 => q.radix = m.radix /\ Kept(q, m.ds)
<1> DEFINE u == NonBlank(t)
<1>1. q \in ScanStates /\ u \in Seq(Nat) /\ Understood(q, u)
  BY TextUnderstood
<1> HIDE DEF u
<1>2. /\ m.sign = SignNum(u) /\ m.radix = RadixIn(u) /\ m.ds = DigitsIn(u)
      /\ m.wellformed = Below(DigitsIn(u), RadixIn(u))
  <2>1. Meaning(t) = [sign |-> SignNum(u), radix |-> RadixIn(u), ds |-> DigitsIn(u),
                      wellformed |-> Below(DigitsIn(u), RadixIn(u))]
    BY MeaningIs DEF u
  <2> QED
    BY <2>1
<1>3. m.radix \in {2, 8, 10, 16}
  BY <1>1, <1>2, SignLenIs
<1>4. m.wellformed \in BOOLEAN
  BY <1>2 DEF Below
<1>5. q.cs \in {"START", "NUMBER0", "NUMBERX", "ZEROS", "DIGITS", "ABORT"}
  BY <1>1 DEF ScanStates
<1>6. CASE q.cs = "ABORT"
  <2>1. ~Below(DigitsIn(u), RadixIn(u))
    BY <1>1, <1>6 DEF Understood
  <2> QED
    BY <1>1, <1>2, <1>3, <1>4, <1>6, <2>1
<1>7. CASE q.cs \in {"START", "NUMBER0", "NUMBERX"}
  <2>1. /\ Unread(q) /\ q.sign = SignNum(u)
        /\ Len(u) = SignLen(u) \/ (Len(u) = SignLen(u) + 1 /\ u[Len(u)] = 0)
    <3>1. CASE q.cs = "START"
      <4>1. u = <<>> /\ Unread(q) /\ q.sign = SignNum(u)
        BY <1>1, <3>1 DEF Understood
      <4>2. Len(<<>>) = 0
        BY EmptySeq
      <4>3. SignLen(u) = 0
        BY <4>1 DEF SignLen
      <4> QED
        BY <4>1, <4>2, <4>3
    <3>2. CASE q.cs = "NUMBER0"
      BY <1>1, <3>2 DEF Understood
    <3>3. CASE q.cs = "NUMBERX"
      BY <1>1, <3>3 DEF Understood
    <3> QED
      BY <1>7, <3>1, <3>2, <3>3
  <2>2. Below(DigitsIn(u), RadixIn(u)) /\ DigitsValue(RadixIn(u), DigitsIn(u)) = 0
    BY <1>1, <2>1, EarlyIs
  <2>3. q.digits = 0
    BY <2>1 DEF Unread
  <2>4. q.cs # "ABORT"
    BY <1>7
  <2> QED
    BY <1>1, <1>2, <1>3, <1>4, <2>1, <2>2, <2>3, <2>4
<1>8. CASE q.cs = "ZEROS"
  <2>1. InZeros(q, u)
    BY <1>1, <1>8 DEF Understood
  <2>2. /\ q.sign = SignNum(u) /\ q.radix = RadixIn(u) /\ q.digits = 0
        /\ Below(DigitsIn(u), q.radix) /\ DigitsValue(q.radix, DigitsIn(u)) = 0
    BY <2>1 DEF InZeros, Unread
  <2>3. q.cs # "ABORT"
    BY <1>8
  <2> QED
    BY <1>1, <1>2, <1>3, <1>4, <2>2, <2>3
<1>9. CASE q.cs = "DIGITS"
  <2>1. InDigits(q, u)
    BY <1>1, <1>9 DEF Understood
  <2>2. q.sign = SignNum(u) /\ q.radix = RadixIn(u) /\ Below(DigitsIn(u), q.radix) /\ Kept(q, DigitsIn(u))
    BY <2>1 DEF InDigits
  <2>3. q.cs # "ABORT"
    BY <1>9
  <2>4. q.digits # 0
    BY <2>2 DEF Kept
  <2> QED
    BY <1>1, <1>2, <1>3, <1>4, <2>2, <2>3, <2>4
<1> QED
  BY <1>5, <1>6, <1>7, <1>8, <1>9

\* A number without limbs.
LEMMA ZeroIs ==
  NumOK(Zero) /\ Value(Zero) = 0 /\ Zero.s = 0 /\ Zero.d = <<>>
<1>1. <<>> \in Seq(Limb) /\ <<>> \in Seq(Int) /\ Len(<<>>) = 0
  BY EmptySeq
<1>2. Magnitude(<<>>) = 0
  BY <1>1, LowValuesAre DEF Magnitude
<1>3. Normal(<<>>)
  BY <1>1 DEF Normal
<1> DEFINE d == <<>>
<1>4. Normal(d) /\ Magnitude(d) = 0 /\ Len(d) = 0
  BY <1>1, <1>2, <1>3
<1> HIDE DEF d
<1>5. NumOK(Number(FALSE, d)) /\ Number(FALSE, d).d = d /\ Value(Number(FALSE, d)) = Magnitude(d)
  BY <1>4, NumberIs
<1>6. Number(FALSE, d).s = 0
  BY <1>4 DEF Number
<1> QED
  BY <1>4, <1>5, <1>6 DEF Zero, d

\* What there is to say of a text that is read, of the limbs it needs, and of
\* those that were counted.
LEMMA ReadIs ==
  ASSUME NEW t \in Seq(Nat), NEW q, q = Scanned(t), NEW m, m = Meaning(t), NEW limbs \in Nat,
         NEW got, got = SetInto(limbs, t)
  PROVE  /\ NumOK(got.n) /\ got.over \in BOOLEAN
         /\ ~m.wellformed => got.is = "nothing" /\ ~got.over
         /\ m.wellformed => got.is = "number" /\ Value(got.n) = m.sign * DigitsValue(m.radix, m.ds)
         /\ got.over =>
              /\ Bits(got.n) > W * limbs
              /\ q.digits # 0 /\ q.radix = m.radix /\ Kept(q, m.ds) /\ Len(Limbs(q)) > 4 * limbs
<1>1. /\ q \in ScanStates /\ m.radix \in {2, 8, 10, 16} /\ m.wellformed \in BOOLEAN
      /\ q.cs = "ABORT" <=> ~m.wellformed
      /\ q.cs # "ABORT" =>
           /\ q.sign = m.sign
           /\ q.digits = 0 => DigitsValue(m.radix, m.ds) = 0
           /\ q.digits # 0 => q.radix = m.radix /\ Kept(q, m.ds)
  BY ScannedIs
<1>2. q.sign \in {-1, 1} /\ q.digits \in Nat
  BY <1>1 DEF ScanStates
<1>3. got = IF q.cs = "ABORT" THEN Nothing
            ELSE IF q.digits = 0 THEN Made(Zero, 0, limbs)
            ELSE Made(Number(q.sign < 0, Limbs(q)), Len(Limbs(q)), limbs)
  BY DEF SetInto
<1>4. CASE q.cs = "ABORT"
  <2>1. got.is = "nothing" /\ got.n = Zero /\ got.over = FALSE
    BY <1>3, <1>4 DEF Nothing
  <2> QED
    BY <1>1, <1>4, <2>1, ZeroIs
<1>5. CASE q.cs # "ABORT" /\ q.digits = 0
  <2>1. got.is = "number" /\ got.n = Zero /\ got.over = (0 > 4 * limbs)
    BY <1>3, <1>5 DEF Made, Room
  <2>2. ~(0 > 4 * limbs)
    OBVIOUS
  <2>3. ~got.over /\ got.over \in BOOLEAN
    <3> DEFINE b == 0 > 4 * limbs
    <3>1. b \in BOOLEAN /\ ~b /\ got.over = b
      BY <2>1, <2>2
    <3> HIDE DEF b
    <3> QED
      BY <3>1
  <2>4. m.sign * DigitsValue(m.radix, m.ds) = 0
    <3>1. m.sign \in Int /\ DigitsValue(m.radix, m.ds) = 0
      BY <1>1, <1>2, <1>5
    <3> QED
      BY <3>1
  <2> QED
    BY <1>1, <1>5, <2>1, <2>3, <2>4, ZeroIs
<1>6. CASE q.cs # "ABORT" /\ q.digits # 0
  <2> DEFINE d == Limbs(q)
             D == DigitsValue(m.radix, m.ds)
             n == Number(q.sign < 0, d)
  <2>1. /\ q.radix = m.radix /\ q.sign = m.sign
        /\ q.ds \in Seq(0 .. q.radix - 1) /\ Len(q.ds) > 0 /\ q.ds[1] # 0
        /\ DigitsValue(q.radix, m.ds) = DigitsValue(q.radix, q.ds) /\ Kept(q, m.ds)
    BY <1>1, <1>6 DEF Kept
  <2>2. Normal(d) /\ Magnitude(d) = D /\ Len(d) > 0
    <3> DEFINE r == q.radix
               ds == q.ds
               k == LimbsFor(BitsFor(r, Len(ds)))
    <3>1. r \in {2, 8, 10, 16} /\ ds \in Seq(0 .. r - 1) /\ Len(ds) > 0 /\ ds[1] # 0 /\ q.radix = r /\ q.ds = ds
      BY <1>1, <2>1
    <3> HIDE DEF r, ds
    <3>2. Normal(d) /\ Magnitude(d) = DigitsValue(r, ds) /\ Len(d) > 0
      BY <3>1, LimbsIs
    <3> QED
      BY <2>1, <3>2 DEF r, ds
  <2>3. got.is = "number" /\ got.n = n /\ got.over = (Len(d) > 4 * limbs)
    BY <1>3, <1>6 DEF Made, Room
  <2> HIDE DEF d, D, n
  <2>4. (q.sign < 0) \in BOOLEAN
    BY <1>2
  <2>5. NumOK(n) /\ n.d = d /\ Value(n) = IF q.sign < 0 THEN -Magnitude(d) ELSE Magnitude(d)
    BY <2>2, <2>4, NumberIs DEF n
  <2>6. Len(d) \in Nat /\ Magnitude(d) \in Nat
    BY <2>2, NormalBounds
  <2>7. Value(n) = m.sign * D
    <3> DEFINE M == Magnitude(d)
    <3>1. M \in Nat /\ M = D
      BY <2>2, <2>6
    <3> HIDE DEF M
    <3>2. (-1) * M = -M /\ 1 * M = M
      BY <3>1
    <3>3. CASE q.sign = -1
      <4>1. q.sign < 0 /\ m.sign = -1
        BY <2>1, <3>3
      <4> QED
        BY <2>5, <3>1, <3>2, <4>1 DEF M
    <3>4. CASE q.sign = 1
      <4>1. ~(q.sign < 0) /\ m.sign = 1
        BY <2>1, <3>4
      <4> QED
        BY <2>5, <3>1, <3>2, <4>1 DEF M
    <3> QED
      BY <1>2, <3>3, <3>4
  <2>8. got.over \in BOOLEAN
    BY <2>3, <2>6
  <2>9. ASSUME got.over PROVE Bits(got.n) > W * limbs
    <3>1. Len(d) > 4 * limbs
      BY <2>3, <2>9
    <3>2. n.s # 0
      <4>1. n.s = 0 <=> Len(n.d) = 0
        BY <2>5, NumParts
      <4> QED
        BY <2>2, <2>5, <4>1
    <3>3. Bits(n) \in Nat /\ W * (Len(d) - 1) < Bits(n)
      BY <2>5, <3>2, BitsAre
    <3>4. W * limbs <= W * (Len(d) - 1)
      <4> DEFINE j == Len(d) - 1
      <4>1. j \in Nat /\ limbs <= j /\ W \in Nat
        <5>1. W \in Nat
          BY BitPlaces
        <5> DEFINE l == Len(d)
        <5>2. l \in Nat /\ l > 4 * limbs
          BY <2>6, <3>1
        <5> HIDE DEF l
        <5>3. l - 1 \in Nat /\ limbs <= l - 1
          BY <5>2
        <5> QED
          BY <5>1, <5>3 DEF l
      <4> HIDE DEF j
      <4>2. W * limbs <= W * j
        BY <4>1
      <4> QED
        BY <4>2 DEF j
    <3> DEFINE a == W * limbs
               b == W * (Len(d) - 1)
    <3>5. a \in Int /\ b \in Int /\ a <= b /\ b < Bits(n)
      <4>1. W \in Nat
        BY BitPlaces
      <4> QED
        BY <2>6, <3>3, <3>4, <4>1
    <3> HIDE DEF a, b
    <3>6. a < Bits(n)
      BY <3>3, <3>5
    <3>7. Bits(n) > W * limbs
      BY <3>3, <3>5, <3>6 DEF a
    <3> QED
      BY <2>3, <3>7
  <2> QED
    BY <1>1, <1>6, <2>1, <2>3, <2>5, <2>7, <2>8, <2>9 DEF d, D
<1> QED
  BY <1>4, <1>5, <1>6

(***************************************************************************)
(* number_setstrc without a number counts limbs enough, unless there are   *)
(* octal zeros after the first digit.                                      *)
(***************************************************************************)
THEOREM SetStrExact ==
  ASSUME NEW t \in Seq(Nat), NEW m, m = Meaning(t), NEW got, got = SetStr(t)
  PROVE  /\ NumOK(got.n) /\ got.is # "error"
         /\ ~m.wellformed => got.is = "nothing"
         /\ m.wellformed => got.is = "number" /\ Value(got.n) = m.sign * DigitsValue(m.radix, m.ds)
         /\ got.over => m.radix = 8 /\ LaterZero(m.ds)
<1> DEFINE q == Scanned(t)
           bits == BitsFor(q.radix, q.digits)
           limbs == IF q.digits = 0 THEN 1 ELSE LimbsFor(bits)
<1>1. got = SetInto(limbs, t)
  BY DEF SetStr
<1>2. /\ q \in ScanStates /\ m.wellformed \in BOOLEAN
  BY ScannedIs
<1>3. q.digits \in Nat /\ q.radix \in {2, 8, 10, 16}
  BY <1>2 DEF ScanStates
<1>4. limbs \in Nat
  <2>1. bits + W - 1 \in Nat
    <3>1. W \in Nat /\ W > 0
      BY BitPlaces
    <3> HIDE DEF q
    <3>2. bits \in Nat
      <4>1. CASE q.radix \in {2, 8, 16}
        BY <1>3, <4>1 DEF BitsFor
      <4>2. CASE q.radix = 10
        <5> DEFINE v == Power(10, q.digits)
                   bl == BitLen(v)
        <5>1. v \in Nat \ {0}
          <6> DEFINE k == q.digits
          <6>1. k \in Nat
            BY <1>3
          <6> HIDE DEF k
          <6>2. Power(10, k) \in Nat /\ Power(10, k) > 0
            BY <6>1, TenPower
          <6>3. Power(10, k) \in Nat \ {0}
            BY <6>2
          <6> QED
            BY <6>3 DEF k
        <5> HIDE DEF v
        <5>2. 2 \in Nat /\ 2 > 1
          OBVIOUS
        <5>3. bl \in Nat \ {0}
          BY <5>1, <5>2, DigitCountBounds DEF BitLen
        <5>4. bits = bl - 1
          BY <4>2 DEF BitsFor, v
        <5> HIDE DEF bl, bits
        <5> QED
          BY <5>3, <5>4
      <4> QED
        BY <1>3, <4>1, <4>2
    <3> HIDE DEF bits
    <3> QED
      BY <3>1, <3>2
  <2> DEFINE v == bits + W - 1
  <2>2. v \in Nat /\ W \in Nat \ {0} /\ LimbsFor(bits) = v \div W
    BY <2>1, BitPlaces DEF LimbsFor
  <2> HIDE DEF v, bits, q
  <2>3. LimbsFor(bits) \in Nat
    BY <2>2, Division
  <2> QED
    BY <2>3
<1> HIDE DEF limbs, q
<1>5. /\ NumOK(got.n) /\ got.over \in BOOLEAN
      /\ ~m.wellformed => got.is = "nothing" /\ ~got.over
      /\ m.wellformed => got.is = "number" /\ Value(got.n) = m.sign * DigitsValue(m.radix, m.ds)
      /\ got.over => q.digits # 0 /\ q.radix = m.radix /\ Kept(q, m.ds) /\ Len(Limbs(q)) > 4 * limbs
  BY <1>1, <1>4, ReadIs DEF q
<1>6. ASSUME got.over PROVE m.radix = 8 /\ LaterZero(m.ds)
  <2>1. q.digits # 0 /\ q.radix = m.radix /\ Kept(q, m.ds) /\ Len(Limbs(q)) > 4 * limbs
    BY <1>5, <1>6
  <2>2. /\ q.ds \in Seq(0 .. q.radix - 1) /\ Len(q.ds) > 0 /\ q.ds[1] # 0
        /\ q.digits # Len(q.ds) => q.radix = 8 /\ LaterZero(m.ds)
    BY <2>1 DEF Kept
  <2>3. q.digits # Len(q.ds)
    <3> SUFFICES ASSUME q.digits = Len(q.ds) PROVE FALSE
      OBVIOUS
    <3> DEFINE r == q.radix
               ds == q.ds
    <3>1. /\ r \in {2, 8, 10, 16} /\ ds \in Seq(0 .. r - 1) /\ Len(ds) > 0 /\ ds[1] # 0 /\ q.radix = r /\ q.ds = ds
          /\ limbs = LimbsFor(BitsFor(r, Len(ds)))
      BY <1>3, <2>1, <2>2 DEF limbs
    <3> HIDE DEF r, ds
    <3>2. limbs \in Nat /\ Len(Limbs(q)) <= 4 * limbs /\ Normal(Limbs(q))
      BY <3>1, LimbsIs
    <3>3. Len(Limbs(q)) \in Nat
      BY <3>2, NormalBounds
    <3> QED
      BY <2>1, <3>2, <3>3
  <2> QED
    BY <2>1, <2>2, <2>3
<1>7. got.is # "error"
  BY <1>2, <1>5
<1> QED
  BY <1>5, <1>6, <1>7

(***************************************************************************)
(* number_setstrc with a number of the client's reads the same, and writes *)
(* past its room only if the number has more bits than were asked for.     *)
(***************************************************************************)
THEOREM SetIntoExact ==
  ASSUME NEW t \in Seq(Nat), NEW m, m = Meaning(t), NEW limbs \in Nat, NEW got, got = SetInto(limbs, t)
  PROVE  /\ NumOK(got.n) /\ got.is # "error"
         /\ ~m.wellformed => got.is = "nothing"
         /\ m.wellformed => got.is = "number" /\ Value(got.n) = m.sign * DigitsValue(m.radix, m.ds)
         /\ got.over => Bits(got.n) > W * limbs
<1> DEFINE q == Scanned(t)
<1>1. m.wellformed \in BOOLEAN
  BY ScannedIs
<1>2. /\ NumOK(got.n)
      /\ ~m.wellformed => got.is = "nothing"
      /\ m.wellformed => got.is = "number" /\ Value(got.n) = m.sign * DigitsValue(m.radix, m.ds)
      /\ got.over => Bits(got.n) > W * limbs
  <2> HIDE DEF q
  <2> QED
    BY ReadIs DEF q
<1> QED
  BY <1>1, <1>2

-----------------------------------------------------------------------------
(* The clients.                                                            *)

\* What the last call was given, and that it is what came of it.
LastCall ==
  /\ out.op \in {"none", "begin", "read", "readinto", "add", "sub", "shl", "shr"}
  /\ out.op = "read" => out.text \in Seq(Nat) /\ out.got = SetStr(out.text)
  /\ out.op = "readinto" => out.text \in Seq(Nat) /\ out.limbs \in Nat /\ out.got = SetInto(out.limbs, out.text)
  /\ out.op = "add" => NumOK(out.x) /\ NumOK(out.arg) /\ out.got = Add(out.x, out.arg)
  /\ out.op = "sub" => NumOK(out.x) /\ NumOK(out.arg) /\ out.got = Sub(out.x, out.arg)
  /\ out.op = "shl" => NumOK(out.x) /\ out.arg \in Nat /\ out.got = Shl(out.x, out.arg)
  /\ out.op = "shr" => NumOK(out.x) /\ out.arg \in Nat /\ \E junk : out.got = Shr(out.x, out.arg, junk)

\* The inductive invariant.
NumbersOK == NumOK(num) /\ NumOK(other) /\ LastCall

\* Before the first call the numbers are in order.
LEMMA NumbersOKInit == Init => NumbersOK
<1> SUFFICES ASSUME Init PROVE NumbersOK
  OBVIOUS
<1>1. num = Zero /\ other = Zero /\ out.op = "none"
  BY DEF Init
<1> QED
  BY <1>1, ZeroIs DEF NumbersOK, LastCall

\* The client keeps what it was given, or its number.
LEMMA KeepIs ==
  ASSUME NumOK(num), NEW got, NumOK(got.n)
  PROVE  NumOK(Keep(got))
BY DEF Keep

\* What a call of the client leaves in out.
LEMMA CalculateIs ==
  ASSUME NumbersOK, NEW op, NEW arg, NEW got, NumOK(got.n), Calculate(op, arg, got)
  PROVE  /\ NumOK(num') /\ NumOK(other') /\ NumOK(num) /\ NumOK(other)
         /\ out' = [op |-> op, x |-> num, arg |-> arg, got |-> got]
<1>1. NumOK(num) /\ NumOK(other)
  BY DEF NumbersOK
<1>2. num' = Keep(got) /\ other' = other /\ out' = [op |-> op, x |-> num, arg |-> arg, got |-> got]
  BY DEF Calculate
<1>3. NumOK(Keep(got))
  BY <1>1, KeepIs
<1> QED
  BY <1>1, <1>2, <1>3

\* Every call leaves the numbers in order and remembers its operands.
LEMMA NumbersOKNext == NumbersOK /\ [Next]_vars => NumbersOK'
<1> SUFFICES ASSUME NumbersOK, [Next]_vars PROVE NumbersOK'
  OBVIOUS
<1>0. NumOK(num) /\ NumOK(other) /\ LastCall
  BY DEF NumbersOK
<1>1. ASSUME NEW t \in Texts, Read(t) PROVE NumbersOK'
  <2>1. t \in Seq(Nat)
    BY ClientAssumption
  <2>2. NumOK(SetStr(t).n)
    BY <2>1, SetStrExact
  <2>3. num' = Keep(SetStr(t)) /\ other' = other /\ out' = [op |-> "read", text |-> t, got |-> SetStr(t)]
    BY <1>1 DEF Read
  <2>4. NumOK(Keep(SetStr(t)))
    BY <1>0, <2>2, KeepIs
  <2>5. LastCall'
    BY <2>1, <2>3 DEF LastCall
  <2> QED
    BY <1>0, <2>3, <2>4, <2>5 DEF NumbersOK
<1>2. ASSUME NEW t \in Texts, NEW limbs \in 1 .. MaxGiven, ReadInto(limbs, t) PROVE NumbersOK'
  <2>1. t \in Seq(Nat) /\ limbs \in Nat
    BY ClientAssumption
  <2>2. NumOK(SetInto(limbs, t).n)
    BY <2>1, SetIntoExact
  <2>3. num' = Keep(SetInto(limbs, t)) /\ other' = other
        /\ out' = [op |-> "readinto", text |-> t, limbs |-> limbs, got |-> SetInto(limbs, t)]
    BY <1>2 DEF ReadInto
  <2>4. NumOK(Keep(SetInto(limbs, t)))
    BY <1>0, <2>2, KeepIs
  <2>5. LastCall'
    BY <2>1, <2>3 DEF LastCall
  <2> QED
    BY <1>0, <2>3, <2>4, <2>5 DEF NumbersOK
<1>3. ASSUME NEW t \in Operands, NEW u \in Operands, Begin(t, u) PROVE NumbersOK'
  <2>1. t \in Seq(Nat) /\ u \in Seq(Nat)
    BY ClientAssumption
  <2>2. NumOK(SetStr(t).n) /\ NumOK(SetStr(u).n)
    BY <2>1, SetStrExact
  <2>3. num' = SetStr(t).n /\ other' = SetStr(u).n /\ out' = [op |-> "begin"]
    BY <1>3 DEF Begin
  <2>4. LastCall'
    BY <2>3 DEF LastCall
  <2> QED
    BY <2>2, <2>3, <2>4 DEF NumbersOK
<1>4. ASSUME CallAdd PROVE NumbersOK'
  <2>1. Calculate("add", other, Add(num, other)) /\ NumOK(Add(num, other).n)
    BY <1>0, <1>4, AddExact DEF CallAdd
  <2>2. NumOK(num') /\ NumOK(other') /\ out' = [op |-> "add", x |-> num, arg |-> other, got |-> Add(num, other)]
    BY <2>1, CalculateIs
  <2>3. LastCall'
    BY <1>0, <2>2 DEF LastCall
  <2> QED
    BY <2>2, <2>3 DEF NumbersOK
<1>5. ASSUME CallSub PROVE NumbersOK'
  <2>1. Calculate("sub", other, Sub(num, other)) /\ NumOK(Sub(num, other).n)
    BY <1>0, <1>5, SubExact DEF CallSub
  <2>2. NumOK(num') /\ NumOK(other') /\ out' = [op |-> "sub", x |-> num, arg |-> other, got |-> Sub(num, other)]
    BY <2>1, CalculateIs
  <2>3. LastCall'
    BY <1>0, <2>2 DEF LastCall
  <2> QED
    BY <2>2, <2>3 DEF NumbersOK
<1>6. ASSUME NEW s \in Shifts, CallShl(s) PROVE NumbersOK'
  <2>0. s \in Nat
    BY ClientAssumption
  <2>1. Calculate("shl", s, Shl(num, s)) /\ NumOK(Shl(num, s).n)
    BY <1>0, <1>6, <2>0, ShlExact DEF CallShl
  <2>2. NumOK(num') /\ NumOK(other') /\ out' = [op |-> "shl", x |-> num, arg |-> s, got |-> Shl(num, s)]
    BY <2>1, CalculateIs
  <2>3. LastCall'
    BY <1>0, <2>0, <2>2 DEF LastCall
  <2> QED
    BY <2>2, <2>3 DEF NumbersOK
<1>7. ASSUME NEW s \in Shifts, NEW junk, CallShr(s, junk) PROVE NumbersOK'
  <2>0. s \in Nat
    BY ClientAssumption
  <2>1. Calculate("shr", s, Shr(num, s, junk)) /\ NumOK(Shr(num, s, junk).n)
    BY <1>0, <1>7, <2>0, ShrExact DEF CallShr
  <2>2. NumOK(num') /\ NumOK(other') /\ out' = [op |-> "shr", x |-> num, arg |-> s, got |-> Shr(num, s, junk)]
    BY <2>1, CalculateIs
  <2>3. LastCall'
    BY <1>0, <2>0, <2>2 DEF LastCall
  <2> QED
    BY <2>2, <2>3 DEF NumbersOK
<1>8. ASSUME UNCHANGED vars PROVE NumbersOK'
  <2>1. num' = num /\ other' = other /\ out' = out
    BY <1>8 DEF vars
  <2> QED
    BY <1>0, <2>1 DEF NumbersOK, LastCall
<1> QED
  BY <1>1, <1>2, <1>3, <1>4, <1>5, <1>6, <1>7, <1>8 DEF Next

\* Numbers are in order, and calls are what they are remembered as, in every state.
THEOREM NumbersInOrder == Spec => []NumbersOK
<1> QED
  BY NumbersOKInit, NumbersOKNext, PTL DEF Spec

\* A number counts the limbs it has, and the top one is not 0.
THEOREM NumberTyped == Spec => []TypeOK
<1>1. NumbersOK => TypeOK
  BY DEF NumbersOK, NumOK, TypeOK
<1> QED
  BY <1>1, NumbersInOrder, PTL

\* number_setstrc reads every text of the syntax to the value it stands for, and
\* any other to no number at all.
THEOREM TextsReadRight == Spec => []ReadsRight
<1>1. NumbersOK => ReadsRight
  <2> SUFFICES ASSUME NumbersOK, out.op \in {"read", "readinto"}
               PROVE  LET m == Meaning(out.text) IN
                      IF ~m.wellformed THEN out.got.is = "nothing"
                      ELSE /\ out.got.is = "number"
                           /\ Bits(out.got.n) <= MaxBits =>
                                Value(out.got.n) = m.sign * DigitsValue(m.radix, m.ds)
    BY DEF ReadsRight
  <2> DEFINE m == Meaning(out.text)
             got == out.got
  <2>1. /\ ~m.wellformed => got.is = "nothing"
        /\ m.wellformed => got.is = "number" /\ Value(got.n) = m.sign * DigitsValue(m.radix, m.ds)
    <3>1. CASE out.op = "read"
      <4>1. out.text \in Seq(Nat) /\ got = SetStr(out.text)
        BY <3>1 DEF NumbersOK, LastCall
      <4> HIDE DEF got
      <4> QED
        BY <4>1, SetStrExact
    <3>2. CASE out.op = "readinto"
      <4>1. out.text \in Seq(Nat) /\ out.limbs \in Nat /\ got = SetInto(out.limbs, out.text)
        BY <3>2 DEF NumbersOK, LastCall
      <4> HIDE DEF got
      <4> QED
        BY <4>1, SetIntoExact
    <3> QED
      BY <3>1, <3>2
  <2> HIDE DEF m
  <2>2. IF ~m.wellformed THEN got.is = "nothing"
        ELSE /\ got.is = "number"
             /\ Bits(got.n) <= MaxBits => Value(got.n) = m.sign * DigitsValue(m.radix, m.ds)
    BY <2>1
  <2> QED
    BY <2>2 DEF m
<1> QED
  BY <1>1, NumbersInOrder, PTL

\* No call writes past its buffer or is refused but those that reckon wrong.
THEOREM CallsInBounds == Spec => []InBounds
<1>1. NumbersOK => InBounds
  <2> SUFFICES ASSUME NumbersOK, out.op \notin {"none", "begin"}, out.got.over \/ out.got.is = "error"
               PROVE  Misjudged
    BY DEF InBounds
  <2>0. LastCall
    BY DEF NumbersOK
  <2>1. out.op \in {"read", "readinto", "add", "sub", "shl", "shr"}
    BY <2>0 DEF LastCall
  <2>2. CASE out.op = "read"
    <3>1. out.text \in Seq(Nat) /\ out.got = SetStr(out.text)
      BY <2>0, <2>2 DEF LastCall
    <3> DEFINE m == Meaning(out.text)
    <3>2. m.radix = 8 /\ LaterZero(m.ds)
      <4> HIDE DEF m
      <4> QED
        BY <3>1, SetStrExact DEF m
    <3> QED
      BY <2>2, <3>2 DEF Misjudged, LaterZero
  <2>3. CASE out.op = "readinto"
    <3>1. out.text \in Seq(Nat) /\ out.limbs \in Nat /\ out.got = SetInto(out.limbs, out.text)
      BY <2>0, <2>3 DEF LastCall
    <3>2. Bits(out.got.n) > W * out.limbs
      BY <3>1, SetIntoExact
    <3> QED
      BY <2>3, <3>2 DEF Misjudged
  <2>4. CASE out.op = "add"
    <3>1. NumOK(out.x) /\ NumOK(out.arg) /\ out.got = Add(out.x, out.arg)
      BY <2>0, <2>4 DEF LastCall
    <3>2. Longer(out.x, out.arg).s < 0
      BY <3>1, AddExact
    <3> QED
      BY <2>4, <3>2 DEF Misjudged
  <2>5. CASE out.op = "sub"
    <3>1. NumOK(out.x) /\ NumOK(out.arg) /\ out.got = Sub(out.x, out.arg)
      BY <2>0, <2>5 DEF LastCall
    <3>2. out.got.is = "number" /\ ~out.got.over
      BY <3>1, SubExact
    <3> QED
      BY <3>2
  <2>6. CASE out.op = "shl"
    <3>1. NumOK(out.x) /\ out.arg \in Nat /\ out.got = Shl(out.x, out.arg)
      BY <2>0, <2>6 DEF LastCall
    <3>2. out.got.is = "number" /\ ~out.got.over
      BY <3>1, ShlExact
    <3> QED
      BY <3>2
  <2>7. CASE out.op = "shr"
    <3>1. PICK junk : NumOK(out.x) /\ out.arg \in Nat /\ out.got = Shr(out.x, out.arg, junk)
      BY <2>0, <2>7 DEF LastCall
    <3>2. out.arg >= W * Len(out.x.d)
      BY <3>1, ShrExact
    <3> QED
      BY <2>7, <3>2 DEF Misjudged
  <2> QED
    BY <2>1, <2>2, <2>3, <2>4, <2>5, <2>6, <2>7
<1> QED
  BY <1>1, NumbersInOrder, PTL

\* Sums, differences and shifts are what they are for integers, but where the top
\* limbs do not tell the larger operand.
THEOREM CallsExact == Spec => []ResultsExact
<1>1. NumbersOK => ResultsExact
  <2> DEFINE X == Value(out.x)
             neg(n) == [n EXCEPT !.s = -@]
  <2> SUFFICES ASSUME NumbersOK, out.op \in {"add", "sub", "shl", "shr"}, out.got.is = "number"
               PROVE  Value(out.got.n) =
                        CASE out.op = "add" -> X + Value(out.arg) + Off(out.x, out.arg)
                          [] out.op = "sub" -> X - Value(out.arg) + Off(out.x, neg(out.arg))
                          [] out.op = "shl" -> X * Power(2, out.arg)
                          [] out.op = "shr" -> (IF X < 0 THEN -1 ELSE 1) * (Abs(X) \div Power(2, out.arg))
    BY DEF ResultsExact
  <2>0. LastCall
    BY DEF NumbersOK
  <2>1. CASE out.op = "add"
    <3>1. NumOK(out.x) /\ NumOK(out.arg) /\ out.got = Add(out.x, out.arg)
      BY <2>0, <2>1 DEF LastCall
    <3>2. Value(out.got.n) = X + Value(out.arg) + Off(out.x, out.arg)
      BY <3>1, AddExact
    <3> QED
      BY <2>1, <3>2
  <2>2. CASE out.op = "sub"
    <3>1. NumOK(out.x) /\ NumOK(out.arg) /\ out.got = Sub(out.x, out.arg)
      BY <2>0, <2>2 DEF LastCall
    <3>2. Value(out.got.n) = X - Value(out.arg) + Off(out.x, neg(out.arg))
      BY <3>1, SubExact DEF Negated
    <3> QED
      BY <2>2, <3>2
  <2>3. CASE out.op = "shl"
    <3>1. NumOK(out.x) /\ out.arg \in Nat /\ out.got = Shl(out.x, out.arg)
      BY <2>0, <2>3 DEF LastCall
    <3>2. Value(out.got.n) = X * Power(2, out.arg)
      BY <3>1, ShlExact
    <3> QED
      BY <2>3, <3>2
  <2>4. CASE out.op = "shr"
    <3>1. PICK junk : NumOK(out.x) /\ out.arg \in Nat /\ out.got = Shr(out.x, out.arg, junk)
      BY <2>0, <2>4 DEF LastCall
    <3>2. Value(out.got.n) = (IF out.x.s < 0 THEN -1 ELSE 1) * (Magnitude(out.x.d) \div Power(2, out.arg))
      BY <3>1, ShrExact
    <3>3. (out.x.s < 0 <=> X < 0) /\ Magnitude(out.x.d) = Abs(X)
      <4> DEFINE M == Magnitude(out.x.d)
                 s == out.x.s
      <4>1. /\ M \in Nat /\ s \in Int
            /\ s < 0 => X = -M /\ M > 0
            /\ ~(s < 0) => X = M
        BY <3>1, ValueIs
      <4> HIDE DEF M, s, X
      <4>2. (s < 0 <=> X < 0) /\ M = Abs(X)
        BY <4>1 DEF Abs
      <4> QED
        BY <4>2 DEF M, s
    <3>4. Value(out.got.n) = (IF X < 0 THEN -1 ELSE 1) * (Abs(X) \div Power(2, out.arg))
      BY <3>2, <3>3
    <3> QED
      BY <2>4, <3>4
  <2> QED
    BY <2>1, <2>2, <2>3, <2>4
<1> QED
  BY <1>1, NumbersInOrder, PTL

-----------------------------------------------------------------------------
(* Numbers that are worth as much are the same.                            *)

\* A limb and what is below it can be told from what they are worth.
LEMMA LimbsTold ==
  ASSUME NEW p \in Nat, p > 0, NEW x \in Nat, NEW y \in Nat, NEW v \in Nat, NEW w \in Nat, v < p, w < p,
         v + x * p = w + y * p
  PROVE  x = y /\ v = w
<1>1. x * p = p * x /\ y * p = p * y /\ p * x \in Nat /\ p * y \in Nat
  OBVIOUS
<1> DEFINE z == p * x + v
<1>2. z = p * x + v /\ z = p * y + w
  <2> DEFINE a == x * p
             b == y * p
             e == p * x
             f == p * y
  <2>1. a = e /\ b = f /\ e \in Nat /\ f \in Nat /\ v + a = w + b /\ z = e + v
    BY <1>1
  <2> HIDE DEF a, b, e, f, z
  <2>2. z = e + v /\ z = f + w
    BY <2>1
  <2> QED
    BY <2>2 DEF e, f
<1> HIDE DEF z
<1>3. p \in Nat \ {0}
  OBVIOUS
<1>4. z \div p = x /\ z % p = v
  BY <1>2, <1>3, DivisionUnique
<1>5. z \div p = y /\ z % p = w
  BY <1>2, <1>3, DivisionUnique
<1> QED
  BY <1>4, <1>5

\* Equal values of limbs in order have equal values below each place.
LEMMA LowLimbsTold ==
  ASSUME NEW d \in Seq(Limb), NEW e \in Seq(Limb), Len(d) = Len(e), Magnitude(d) = Magnitude(e)
  PROVE  d = e
<1> DEFINE n == Len(d)
           v == LowValues(d)
           w == LowValues(e)
           Told(k) == v[k] = w[k] /\ \A i \in k + 1 .. n : d[i] = e[i]
           T == {i \in 0 .. n : Told(n - i)}
<1>1. /\ n \in Nat /\ d \in Seq(Int) /\ e \in Seq(Int)
      /\ \A i \in 1 .. n : d[i] \in Limb /\ e[i] \in Limb
  BY LimbsAreInts
<1>2. v[n] = w[n]
  BY <1>1, MagnitudeInt
<1>3. \A k \in 0 .. n : v[k] \in Nat /\ v[k] < Power(Base, k) /\ w[k] \in Nat /\ w[k] < Power(Base, k)
  <2> SUFFICES ASSUME NEW k \in 0 .. n
               PROVE  v[k] \in Nat /\ v[k] < Power(Base, k) /\ w[k] \in Nat /\ w[k] < Power(Base, k)
    OBVIOUS
  <2>1. k \in Nat /\ k <= Len(d) /\ k <= Len(e)
    BY <1>1
  <2> QED
    BY <2>1, LowValuesBelow
<1>4. \A k \in 0 .. n - 1 : /\ v[k + 1] = v[k] + d[k + 1] * Power(Base, k)
                            /\ w[k + 1] = w[k] + e[k + 1] * Power(Base, k)
  <2> SUFFICES ASSUME NEW k \in 0 .. n - 1
               PROVE  /\ v[k + 1] = v[k] + d[k + 1] * Power(Base, k)
                      /\ w[k + 1] = w[k] + e[k + 1] * Power(Base, k)
    OBVIOUS
  <2>1. k \in Nat /\ k < Len(d) /\ k < Len(e)
    BY <1>1
  <2> QED
    BY <1>1, <2>1, LowValuesNext
<1> HIDE DEF n, v, w
<1>5. 0 \in T
  <2>1. n - 0 = n /\ n + 1 .. n = {}
    BY <1>1
  <2> QED
    BY <1>1, <1>2, <2>1
<1>6. ASSUME NEW i \in 0 .. n - 1, i \in T PROVE i + 1 \in T
  <2> DEFINE k == n - (i + 1)
             p == Power(Base, k)
             x == d[k + 1]
             y == e[k + 1]
  <2>1. k \in 0 .. n - 1 /\ k \in 0 .. n /\ k \in Nat /\ n - i = k + 1 /\ k + 1 \in 1 .. n /\ i + 1 \in 0 .. n
    BY <1>1
  <2>2. Told(k + 1)
    BY <1>6, <2>1
  <2> HIDE DEF k
  <2>3. v[k] + x * p = w[k] + y * p
    BY <1>4, <2>1, <2>2
  <2>4. v[k] \in Nat /\ v[k] < p /\ w[k] \in Nat /\ w[k] < p
    BY <1>3, <2>1
  <2>5. x \in Nat /\ y \in Nat /\ p \in Nat /\ p > 0
    <3>1. x \in Limb /\ y \in Limb
      BY <1>1, <2>1
    <3> HIDE DEF x, y
    <3> QED
      BY <2>1, <3>1, LimbsAreInts, Places
  <2> DEFINE f == v[k]
             g == w[k]
  <2> HIDE DEF x, y, p, f, g
  <2>6. x = y /\ f = g
    <3>1. f \in Nat /\ g \in Nat /\ f < p /\ g < p /\ f + x * p = g + y * p
      BY <2>3, <2>4 DEF f, g
    <3> QED
      BY <2>5, <3>1, LimbsTold
  <2>7. \A j \in k + 1 .. n : d[j] = e[j]
    <3> SUFFICES ASSUME NEW j \in k + 1 .. n PROVE d[j] = e[j]
      OBVIOUS
    <3>1. j = k + 1 \/ j \in k + 1 + 1 .. n
      BY <2>1
    <3>2. CASE j = k + 1
      BY <2>6, <3>2 DEF x, y
    <3>3. CASE j \in k + 1 + 1 .. n
      BY <2>2, <3>3
    <3> QED
      BY <3>1, <3>2, <3>3
  <2>8. Told(k)
    BY <2>6, <2>7 DEF f, g
  <2> QED
    BY <2>1, <2>8 DEF k
<1> HIDE DEF T
<1>7. n \in T
  <2>1. \A i \in 0 .. n : i \in T
    BY <1>1, <1>5, <1>6, InductUpTo
  <2> QED
    BY <1>1, <2>1
<1>8. \A i \in 1 .. n : d[i] = e[i]
  <2>1. Told(n - n)
    BY <1>7 DEF T
  <2>2. n - n = 0 /\ 0 + 1 = 1
    BY <1>1
  <2> QED
    BY <2>1, <2>2
<1> QED
  BY <1>8, SeqEqual DEF n

\* Limbs in order are told by their value.
LEMMA NormalTold ==
  ASSUME NEW d, NEW e, Normal(d), Normal(e), Magnitude(d) = Magnitude(e)
  PROVE  d = e
<1>1. /\ d \in Seq(Limb) /\ e \in Seq(Limb) /\ Len(d) \in Nat /\ Len(e) \in Nat
      /\ Magnitude(d) \in Nat /\ Magnitude(e) \in Nat
  BY NormalBounds
<1>2. ~(Len(e) < Len(d)) /\ ~(Len(d) < Len(e))
  <2>1. ASSUME Len(e) < Len(d) PROVE FALSE
    <3>1. Magnitude(e) < Magnitude(d)
      BY <2>1, LongerIsLarger
    <3> QED
      BY <1>1, <3>1
  <2>2. ASSUME Len(d) < Len(e) PROVE FALSE
    <3>1. Magnitude(d) < Magnitude(e)
      BY <2>2, LongerIsLarger
    <3> QED
      BY <1>1, <3>1
  <2> QED
    BY <2>1, <2>2
<1>3. Len(d) = Len(e)
  BY <1>1, <1>2
<1> QED
  BY <1>1, <1>3, LowLimbsTold

(***************************************************************************)
(* A number in order is told by its value.                                 *)
(***************************************************************************)
LEMMA NumberTold ==
  ASSUME NEW m, NEW n, NumOK(m), NumOK(n), Value(m) = Value(n)
  PROVE  m = n
<1> DEFINE p == Magnitude(m.d)
           q == Magnitude(n.d)
<1>1. /\ p \in Nat /\ q \in Nat /\ m.s \in Int /\ n.s \in Int
      /\ m.s < 0 => Value(m) = -p /\ p > 0
      /\ ~(m.s < 0) => Value(m) = p
      /\ n.s < 0 => Value(n) = -q /\ q > 0
      /\ ~(n.s < 0) => Value(n) = q
  BY ValueIs
<1>2. /\ Normal(m.d) /\ Normal(n.d) /\ Len(m.d) \in Nat /\ Len(n.d) \in Nat
      /\ m = [s |-> m.s, d |-> m.d] /\ n = [s |-> n.s, d |-> n.d]
      /\ m.s < 0 => m.s = -Len(m.d)
      /\ n.s < 0 => n.s = -Len(n.d)
      /\ m.s >= 0 => m.s = Len(m.d)
      /\ n.s >= 0 => n.s = Len(n.d)
  BY NumParts
<1> HIDE DEF p, q
<1>3. p = q /\ (m.s < 0 <=> n.s < 0)
  BY <1>1
<1>4. m.d = n.d
  BY <1>2, <1>3, NormalTold DEF p, q
<1>5. m.s = n.s
  BY <1>1, <1>2, <1>3, <1>4
<1> QED
  BY <1>2, <1>4, <1>5

-----------------------------------------------------------------------------
(* Texts that number_gethex and number_getdec write.                       *)

\* A text without blanks is left as it is.
LEMMA NoBlanks ==
  ASSUME NEW t \in Seq(Nat), \A i \in 1 .. Len(t) : t[i] # Blank
  PROVE  NonBlank(t) = t
<1> DEFINE n == Len(t)
<1>1. PICK u \in [0 .. n -> Seq(Nat)] : NonBlankRun(u, t)
  BY NonBlankRunExists
<1>2. n \in Nat /\ \A i \in 1 .. n : t[i] \in Nat /\ t[i] # Blank
  BY ElementOfSeq
<1> HIDE DEF n
<1> DEFINE Copy(v, i) == Len(v) = i /\ \A j \in 1 .. i : v[j] = t[j]
           T == {i \in 0 .. n : Copy(u[i], i)}
<1>3. 0 \in T
  <2>1. u[0] = <<>>
    BY <1>1 DEF NonBlankRun
  <2>2. Len(<<>>) = 0
    BY EmptySeq
  <2> QED
    BY <1>2, <2>1, <2>2
<1>4. ASSUME NEW i \in 0 .. n - 1, i \in T PROVE i + 1 \in T
  <2> DEFINE j == i + 1
             v == u[i]
             c == t[j]
             w == Append(v, c)
  <2>1. j \in 1 .. n /\ j - 1 = i /\ j \in 0 .. n /\ i \in 0 .. n /\ i \in Nat
    BY <1>2
  <2>2. c \in Nat /\ c # Blank /\ v \in Seq(Nat) /\ Copy(v, i)
    BY <1>2, <1>4, <2>1
  <2>3. u[j] = w
    BY <1>1, <2>1, <2>2 DEF NonBlankRun, n
  <2> HIDE DEF v, c
  <2>4. Len(w) = Len(v) + 1 /\ (\A l \in 1 .. Len(v) : w[l] = v[l]) /\ w[Len(v) + 1] = c
    <3>1. v \in Seq(Nat)
      BY <2>2
    <3>2. c \in Nat
      BY <2>2
    <3> QED
      BY <3>1, <3>2, AppendProperties
  <2> HIDE DEF w
  <2>5. Len(w) = j
    BY <2>2, <2>4
  <2>6. \A l \in 1 .. j : w[l] = t[l]
    <3> SUFFICES ASSUME NEW l \in 1 .. j PROVE w[l] = t[l]
      OBVIOUS
    <3>1. l \in 1 .. i \/ l = j
      BY <2>1
    <3>2. CASE l \in 1 .. i
      BY <2>2, <2>4, <3>2
    <3>3. CASE l = j
      BY <2>2, <2>4, <3>3 DEF c
    <3> QED
      BY <3>1, <3>2, <3>3
  <2> QED
    BY <2>1, <2>3, <2>5, <2>6
<1> HIDE DEF T
<1>5. n \in T
  <2>1. \A i \in 0 .. n : i \in T
    BY <1>2, <1>3, <1>4, InductUpTo
  <2> QED
    BY <1>2, <2>1
<1> DEFINE v == u[n]
<1>6. v \in Seq(Nat) /\ Copy(v, n) /\ NonBlank(t) = v
  BY <1>1, <1>2, <1>5 DEF T, NonBlankRun, n
<1> HIDE DEF v
<1>7. v = t
  <2>1. Len(v) = Len(t) /\ \A i \in 1 .. Len(v) : v[i] = t[i]
    BY <1>6 DEF n
  <2> QED
    BY <1>6, <2>1, SeqEqual
<1> QED
  BY <1>6, <1>7

\* The sign of a text that begins with a minus, or with no sign.
LEMMA SignIs ==
  ASSUME NEW t \in Seq(Nat), NEW s \in {0, 1}, Len(t) > s, s = 1 => t[1] = Minus, s = 0 => t[1] \notin {Plus, Minus}
  PROVE  SignLen(t) = s /\ SignNum(t) = IF s = 1 THEN -1 ELSE 1
<1>1. t # <<>>
  BY EmptySeq
<1>2. SignLen(t) = s
  BY <1>1 DEF SignLen
<1>3. s = 0 => t[1] # Minus
  OBVIOUS
<1> QED
  BY <1>2, <1>3 DEF SignNum

\* What follows the first k characters of a text.
LEMMA TailIs ==
  ASSUME NEW t \in Seq(Nat), NEW ds \in Seq(Nat), NEW k \in Nat, Len(t) = k + Len(ds),
         \A i \in 1 .. Len(ds) : t[k + i] = ds[i]
  PROVE  SubSeq(t, k + 1, Len(t)) = ds
<1> DEFINE n == Len(t)
           m == k + 1
           p == SubSeq(t, m, n)
           l == Len(ds)
<1>1. n \in Nat /\ m \in Nat /\ l \in Nat /\ n = k + l /\ \A i \in 1 .. n : t[i] \in Nat
  BY LenProperties, ElementOfSeq
<1>2. n \in Int /\ m \in Int /\ \A i \in m .. n : t[i] \in Nat
  <2>1. \A i \in m .. n : i \in 1 .. n
    BY <1>1
  <2> QED
    BY <1>1, <2>1
<1> HIDE DEF n, m
<1>3. /\ p \in Seq(Nat) /\ Len(p) = (IF m <= n THEN n - m + 1 ELSE 0)
      /\ \A i \in 1 .. n - m + 1 : p[i] = t[m + i - 1]
  BY <1>2, SubSeqProperties
<1> HIDE DEF p
<1>4. Len(p) = l /\ n - m + 1 = l
  BY <1>1, <1>3 DEF m
<1>5. \A i \in 1 .. Len(p) : p[i] = ds[i]
  <2> SUFFICES ASSUME NEW i \in 1 .. l PROVE p[i] = ds[i]
    BY <1>4
  <2>1. p[i] = t[m + i - 1] /\ m + i - 1 = k + i
    BY <1>1, <1>3, <1>4 DEF m
  <2> QED
    BY <2>1 DEF l
<1>6. p = ds
  BY <1>3, <1>4, <1>5, SeqEqual DEF l
<1> QED
  BY <1>6 DEF p, m, n

\* A text of a sign or none, a prefix and digits.
SignChars(n) == IF n.s < 0 THEN 1 ELSE 0
PrefixText(radix) == IF radix = 16 THEN <<0, Ex>> ELSE <<>>
Parts(t, s, pre, ds) ==
  /\ t \in Seq(Nat) /\ Len(t) = s + Len(pre) + Len(ds)
  /\ s = 1 => t[1] = Minus
  /\ \A i \in 1 .. Len(pre) : t[s + i] = pre[i]
  /\ \A i \in 1 .. Len(ds) : t[s + Len(pre) + i] = ds[i]

Means(t, s, radix, ds) ==
  /\ Meaning(t).wellformed /\ Meaning(t).radix = radix /\ Meaning(t).ds = ds
  /\ Meaning(t).sign = IF s = 1 THEN -1 ELSE 1

\* What such a text stands for.
LEMMA PlainText ==
  ASSUME NEW s \in {0, 1}, NEW radix \in {10, 16},
         NEW ds \in Seq(0 .. radix - 1), Len(ds) > 0, NEW t, Parts(t, s, PrefixText(radix), ds)
  PROVE  Means(t, s, radix, ds)
<1> DEFINE n == Len(ds)
           k == s + (IF radix = 16 THEN 2 ELSE 0)
           pre == PrefixText(radix)
<1>0. /\ t \in Seq(Nat) /\ Len(t) = k + n
      /\ \A i \in 1 .. n : t[k + i] = ds[i]
      /\ s = 1 => t[1] = Minus
      /\ radix = 16 => t[s + 1] = 0 /\ t[s + 2] = Ex
  <2>1. /\ t \in Seq(Nat) /\ Len(t) = s + Len(pre) + n
        /\ s = 1 => t[1] = Minus
        /\ \A i \in 1 .. Len(pre) : t[s + i] = pre[i]
        /\ \A i \in 1 .. n : t[s + Len(pre) + i] = ds[i]
    BY DEF Parts
  <2>2. radix = 16 => Len(pre) = 2 /\ pre[1] = 0 /\ pre[2] = Ex
    BY DEF PrefixText
  <2>3. radix = 10 => Len(pre) = 0
    <3>1. radix = 10 => pre = <<>>
      BY DEF PrefixText
    <3> QED
      BY <3>1, EmptySeq
  <2> HIDE DEF pre, n
  <2>4. s + Len(pre) = k
    BY <2>2, <2>3
  <2>5. radix = 16 => t[s + 1] = 0 /\ t[s + 2] = Ex
    <3> SUFFICES ASSUME radix = 16 PROVE t[s + 1] = 0 /\ t[s + 2] = Ex
      OBVIOUS
    <3>1. Len(pre) = 2 /\ pre[1] = 0 /\ pre[2] = Ex
      BY <2>2
    <3>2. 1 \in 1 .. Len(pre) /\ 2 \in 1 .. Len(pre)
      BY <3>1
    <3> QED
      BY <2>1, <3>1, <3>2
  <2> QED
    BY <2>1, <2>4, <2>5
<1>1. n \in Nat /\ k \in Nat /\ Len(t) \in Nat /\ \A i \in 1 .. n : ds[i] \in 0 .. radix - 1
  <2>1. k \in Nat
    OBVIOUS
  <2>2. n \in Nat
    BY LenProperties
  <2>3. \A i \in 1 .. n : ds[i] \in 0 .. radix - 1
    BY ElementOfSeq
  <2>4. Len(t) = k + n
    BY <1>0
  <2> HIDE DEF k, n
  <2> QED
    BY <2>1, <2>2, <2>3, <2>4
<1>2. ds \in Seq(Nat)
  <2>1. 0 .. radix - 1 \subseteq Nat
    OBVIOUS
  <2> QED
    BY <2>1, SeqMonotonic
<1>3. \A i \in 1 .. n : t[k + i] = ds[i] /\ ds[i] \in Nat /\ ds[i] < radix
  <2>1. \A i \in 1 .. n : t[k + i] = ds[i]
    BY <1>0
  <2>2. \A x \in 0 .. radix - 1 : x \in Nat /\ x < radix
    OBVIOUS
  <2> HIDE DEF k, n
  <2> QED
    BY <1>1, <2>1, <2>2
<1>4. \A i \in 1 .. Len(t) : t[i] # Blank
  <2> SUFFICES ASSUME NEW i \in 1 .. Len(t) PROVE t[i] # Blank
    OBVIOUS
  <2>1. i \in 1 .. k \/ (i - k \in 1 .. n /\ i = k + (i - k))
    BY <1>0, <1>1
  <2>2. CASE i \in 1 .. k
    <3>1. (s = 1 /\ i = 1) \/ (radix = 16 /\ i = s + 1) \/ (radix = 16 /\ i = s + 2)
      BY <2>2
    <3>2. t[i] \in {Minus, 0, Ex}
      <4>1. CASE s = 1 /\ i = 1
        BY <1>0, <4>1
      <4>2. CASE radix = 16 /\ i = s + 1
        BY <1>0, <4>2
      <4>3. CASE radix = 16 /\ i = s + 2
        BY <1>0, <4>3
      <4> QED
        BY <3>1, <4>1, <4>2, <4>3
    <3> QED
      BY <3>2 DEF Blank, Minus, Ex
  <2>3. CASE i - k \in 1 .. n /\ i = k + (i - k)
    <3> DEFINE j == i - k
    <3>1. j \in 1 .. n /\ t[i] = ds[j] /\ ds[j] \in Nat /\ ds[j] < radix
      BY <1>3, <2>3
    <3> HIDE DEF j
    <3> QED
      BY <3>1 DEF Blank
  <2> QED
    BY <2>1, <2>2, <2>3
<1>5. NonBlank(t) = t
  BY <1>0, <1>4, NoBlanks
<1>6. Len(t) > s /\ (s = 0 => t[1] \notin {Plus, Minus})
  <2>1. Len(t) > s
    BY <1>0, <1>1
  <2>2. ASSUME s = 0 PROVE t[1] \notin {Plus, Minus}
    <3>1. CASE radix = 16
      BY <1>0, <2>2, <3>1 DEF Plus, Minus
    <3>2. CASE radix = 10
      <4>1. k = 0 /\ 1 \in 1 .. n /\ k + 1 = 1
        BY <1>1, <2>2, <3>2
      <4>2. t[1] \in Nat /\ t[1] < 10
        BY <1>3, <3>2, <4>1
      <4> QED
        BY <4>2 DEF Plus, Minus
    <3> QED
      BY <3>1, <3>2
  <2> QED
    BY <2>1, <2>2
<1>7. SignLen(t) = s /\ SignNum(t) = IF s = 1 THEN -1 ELSE 1
  BY <1>0, <1>6, SignIs
<1>8. (Prefixed(t) <=> radix = 16) /\ RadixIn(t) = radix
  <2>1. CASE radix = 16
    <3>1. Len(t) > s + 1
      BY <1>0, <1>1, <2>1
    <3>2. t[s + 1] = 0 /\ t[s + 2] = Ex
      BY <1>0, <2>1
    <3>3. Prefixed(t)
      BY <1>7, <3>1, <3>2 DEF Prefixed
    <3>4. RadixOf(Ex) = 16
      BY DEF RadixOf, Ex, Oh
    <3> QED
      BY <1>7, <2>1, <3>2, <3>3, <3>4 DEF RadixIn
  <2>2. CASE radix = 10
    <3>1. k = s
      BY <2>2
    <3>2. ~Prefixed(t)
      <4>1. CASE Len(t) > s + 1
        <5>1. 2 \in 1 .. n /\ k + 2 = s + 2
          BY <1>0, <1>1, <3>1, <4>1
        <5>2. t[s + 2] \in Nat /\ t[s + 2] < 10
          BY <1>3, <2>2, <5>1
        <5>3. t[s + 2] \notin {11, Oh, Ex}
          BY <5>2 DEF Oh, Ex
        <5> QED
          BY <1>7, <5>3 DEF Prefixed
      <4>2. CASE ~(Len(t) > s + 1)
        BY <1>7, <4>2 DEF Prefixed
      <4> QED
        BY <4>1, <4>2
    <3> QED
      BY <2>2, <3>2 DEF RadixIn
  <2> QED
    BY <2>1, <2>2
<1>9. DigitsIn(t) = ds
  <2>1. DigitsIn(t) = SubSeq(t, k + 1, Len(t))
    <3>1. s + (IF Prefixed(t) THEN 3 ELSE 1) = k + 1
      BY <1>8
    <3> QED
      BY <1>7, <3>1 DEF DigitsIn
  <2> QED
    <3>1. Len(t) = k + Len(ds) /\ t \in Seq(Nat)
      BY <1>0
    <3>2. \A i \in 1 .. Len(ds) : t[k + i] = ds[i]
      BY <1>0
    <3>3. k \in Nat
      BY <1>1
    <3> HIDE DEF k, n
    <3> QED
      BY <1>2, <2>1, <3>1, <3>2, <3>3, TailIs
<1>10. Below(ds, radix)
  BY <1>3 DEF Below
<1>11. Meaning(t) = [sign |-> SignNum(t), radix |-> RadixIn(t), ds |-> DigitsIn(t),
                     wellformed |-> Below(DigitsIn(t), RadixIn(t))]
  BY <1>0, <1>5, MeaningIs
<1> QED
  BY <1>7, <1>8, <1>9, <1>10, <1>11 DEF Means

(***************************************************************************)
(* Digits of the value of a number, with its sign, are read back as it.    *)
(***************************************************************************)
LEMMA ReadBack ==
  ASSUME NEW n, NumOK(n), NEW t \in Seq(Nat), NEW m, m = Meaning(t),
         m.wellformed, m.sign = (IF SignChars(n) = 1 THEN -1 ELSE 1), DigitsValue(m.radix, m.ds) = Magnitude(n.d)
  PROVE  SetStr(t).n = n
<1> DEFINE got == SetStr(t)
           M == Magnitude(n.d)
<1>1. NumOK(got.n) /\ Value(got.n) = m.sign * M
  BY SetStrExact
<1> HIDE DEF got
<1>2. /\ M \in Nat /\ n.s \in Int
      /\ n.s < 0 => Value(n) = -M
      /\ ~(n.s < 0) => Value(n) = M
  BY ValueIs
<1> HIDE DEF M
<1>3. (-1) * M = -M /\ 1 * M = M
  BY <1>2
<1>4. CASE n.s < 0
  BY <1>1, <1>2, <1>3, <1>4, NumberTold DEF got, SignChars
<1>5. CASE ~(n.s < 0)
  BY <1>1, <1>2, <1>3, <1>5, NumberTold DEF got, SignChars
<1> QED
  BY <1>4, <1>5

\* The digits after the sign, and after the prefix if they are in hex.
LEMMA SignedText ==
  ASSUME NEW n, NEW ds \in Seq(Nat), NEW pre \in Seq(Nat), NEW t, t = SignText(n) \o pre \o ds
  PROVE  Parts(t, SignChars(n), pre, ds)
<1> DEFINE s == SignChars(n)
           g == SignText(n)
           h == g \o pre
           a == Len(pre)
           b == Len(ds)
<1>1. g \in Seq(Nat) /\ Len(g) = s /\ (s = 1 => g[1] = Minus) /\ s \in {0, 1}
  <2>1. CASE n.s < 0
    <3>1. g = <<Minus>> /\ s = 1 /\ Minus \in Nat
      BY <2>1 DEF SignText, Minus, SignChars
    <3> QED
      BY <3>1
  <2>2. CASE ~(n.s < 0)
    <3>1. g = <<>> /\ s = 0
      BY <2>2 DEF SignText, SignChars
    <3> QED
      BY <3>1, EmptySeq
  <2> QED
    BY <2>1, <2>2
<1>2. a \in Nat /\ b \in Nat /\ s \in Nat
  BY <1>1, LenProperties
<1>3. t = h \o ds
  OBVIOUS
<1> HIDE DEF g, s
<1>4. /\ h \in Seq(Nat) /\ Len(h) = Len(g) + Len(pre)
      /\ \A i \in 1 .. Len(g) + Len(pre) : h[i] = IF i <= Len(g) THEN g[i] ELSE pre[i - Len(g)]
  <2>1. g \in Seq(Nat)
    BY <1>1
  <2> QED
    BY <2>1, ConcatProperties
<1> HIDE DEF h
<1>5. /\ t \in Seq(Nat) /\ Len(t) = Len(h) + Len(ds)
      /\ \A i \in 1 .. Len(h) + Len(ds) : t[i] = IF i <= Len(h) THEN h[i] ELSE ds[i - Len(h)]
  <2>1. h \in Seq(Nat)
    BY <1>4
  <2>2. /\ h \o ds \in Seq(Nat) /\ Len(h \o ds) = Len(h) + Len(ds)
        /\ \A i \in 1 .. Len(h) + Len(ds) : (h \o ds)[i] = IF i <= Len(h) THEN h[i] ELSE ds[i - Len(h)]
    BY <2>1, ConcatProperties
  <2> QED
    BY <1>3, <2>2
<1>6. Len(g) = s /\ Len(h) = s + a /\ Len(t) = s + a + b
  <2>1. Len(g) = s
    BY <1>1
  <2>2. Len(h) = s + a
    BY <1>4, <2>1 DEF a
  <2> QED
    BY <1>5, <2>1, <2>2 DEF b
<1>7. \A i \in 1 .. s + a : h[i] = IF i <= s THEN g[i] ELSE pre[i - s]
  BY <1>4, <1>6 DEF a
<1>8. \A i \in 1 .. s + a + b : t[i] = IF i <= s + a THEN h[i] ELSE ds[i - (s + a)]
  BY <1>5, <1>6 DEF b
<1>9. t \in Seq(Nat)
  BY <1>5
<1> HIDE DEF a, b
<1>10. s = 1 => t[1] = Minus
  <2> SUFFICES ASSUME s = 1 PROVE t[1] = Minus
    OBVIOUS
  <2>1. 1 \in 1 .. s + a + b /\ 1 <= s + a /\ 1 \in 1 .. s + a /\ 1 <= s
    BY <1>2
  <2>2. t[1] = h[1] /\ h[1] = g[1]
    BY <1>7, <1>8, <2>1
  <2> QED
    BY <1>1, <2>2
<1>11. \A i \in 1 .. a : t[s + i] = pre[i]
  <2> SUFFICES ASSUME NEW i \in 1 .. a PROVE t[s + i] = pre[i]
    OBVIOUS
  <2> DEFINE j == s + i
  <2>1. j \in 1 .. s + a + b /\ j <= s + a /\ j \in 1 .. s + a /\ ~(j <= s) /\ j - s = i
    BY <1>2
  <2> HIDE DEF j
  <2>2. t[j] = h[j] /\ h[j] = pre[j - s]
    BY <1>7, <1>8, <2>1
  <2> QED
    BY <2>1, <2>2 DEF j
<1>12. \A i \in 1 .. b : t[s + a + i] = ds[i]
  <2> SUFFICES ASSUME NEW i \in 1 .. b PROVE t[s + a + i] = ds[i]
    OBVIOUS
  <2> DEFINE j == s + a + i
  <2>1. j \in 1 .. s + a + b /\ ~(j <= s + a) /\ j - (s + a) = i
    <3> DEFINE l == s + a
    <3>1. l \in Nat /\ i \in Nat /\ 1 <= i /\ i <= b /\ b \in Nat
      BY <1>2
    <3>2. j = l + i
      OBVIOUS
    <3>3. s + a + b = l + b
      OBVIOUS
    <3> HIDE DEF l, j
    <3>4. j \in 1 .. l + b /\ ~(j <= l) /\ j - l = i
      BY <3>1, <3>2
    <3> QED
      BY <3>3, <3>4 DEF l
  <2> HIDE DEF j
  <2>2. t[j] = ds[j - (s + a)]
    BY <1>8, <2>1
  <2> QED
    BY <2>1, <2>2 DEF j
<1> QED
  BY <1>6, <1>9, <1>10, <1>11, <1>12 DEF a, b, s, Parts

(***************************************************************************)
(* A sign, a prefix and the digits of the magnitude are read back as the   *)
(* number.                                                                 *)
(***************************************************************************)
LEMMA TextRead ==
  ASSUME NEW n, NumOK(n), NEW radix \in {10, 16}, NEW ds \in Seq(0 .. radix - 1), Len(ds) > 0,
         DigitsValue(radix, ds) = Magnitude(n.d), NEW t, t = SignText(n) \o PrefixText(radix) \o ds
  PROVE  SetStr(t).n = n
<1> DEFINE s == SignChars(n)
           pre == PrefixText(radix)
           m == Meaning(t)
<1>1. ds \in Seq(Nat)
  <2>1. 0 .. radix - 1 \subseteq Nat
    OBVIOUS
  <2> QED
    BY <2>1, SeqMonotonic
<1>2. pre \in Seq(Nat)
  <2>1. CASE radix = 16
    BY <2>1 DEF PrefixText, Ex
  <2>2. CASE radix = 10
    BY <2>2, EmptySeq DEF PrefixText
  <2> QED
    BY <2>1, <2>2
<1>3. s \in {0, 1}
  BY DEF SignChars
<1> HIDE DEF s, pre
<1>4. Parts(t, s, pre, ds)
  <2>1. t = SignText(n) \o pre \o ds
    BY DEF pre
  <2> QED
    BY <1>1, <1>2, <2>1, SignedText DEF s
<1>5. t \in Seq(Nat)
  BY <1>4 DEF Parts
<1>6. m.wellformed /\ m.radix = radix /\ m.ds = ds /\ m.sign = IF s = 1 THEN -1 ELSE 1
  <2>1. Parts(t, s, PrefixText(radix), ds)
    BY <1>4 DEF pre
  <2>2. Means(t, s, radix, ds)
    BY <1>3, <2>1, PlainText
  <2> QED
    BY <2>2 DEF Means
<1>7. m = Meaning(t)
  OBVIOUS
<1> HIDE DEF m
<1>8. SetStr(t).n = n
  <2>1. t \in Seq(Nat)
    BY <1>5
  <2>2. m.wellformed /\ m.sign = (IF SignChars(n) = 1 THEN -1 ELSE 1)
    BY <1>6 DEF s
  <2>3. DigitsValue(m.radix, m.ds) = Magnitude(n.d)
    BY <1>6
  <2> QED
    BY <1>7, <2>1, <2>2, <2>3, ReadBack
<1> QED
  BY <1>8

(***************************************************************************)
(* The digits of x in front of those of y.                                 *)
(***************************************************************************)
LEMMA DigitsValueConcat ==
  ASSUME NEW radix \in Nat, NEW x \in Seq(Nat), NEW y \in Seq(Nat)
  PROVE  /\ x \o y \in Seq(Nat) /\ Len(x \o y) = Len(x) + Len(y)
         /\ DigitsValue(radix, x \o y) = DigitsValue(radix, x) * Power(radix, Len(y)) + DigitsValue(radix, y)
<1> DEFINE z == x \o y
           n == Len(x)
           m == Len(y)
           v == HighValues(radix, z)
           u == HighValues(radix, y)
           a == DigitsValue(radix, x)
           P(i) == Power(radix, i)
           T == {i \in 0 .. m : v[n + i] = a * P(i) + u[i]}
<1>1. n \in Nat /\ m \in Nat
  BY LenProperties
<1>2. /\ z \in Seq(Nat) /\ Len(z) = Len(x) + Len(y)
      /\ \A i \in 1 .. Len(x) + Len(y) : z[i] = IF i <= Len(x) THEN x[i] ELSE y[i - Len(x)]
  BY ConcatProperties
<1> HIDE DEF z
<1>3. Len(z) = n + m /\ \A i \in 1 .. n + m : z[i] = IF i <= n THEN x[i] ELSE y[i - n]
  BY <1>2
<1>4. /\ \A i \in 1 .. n + m : v[i] = v[i - 1] * radix + z[i]
      /\ \A i \in 0 .. n + m : v[i] \in Nat
  <2>1. \A i \in 1 .. Len(z) : v[i] = v[i - 1] * radix + z[i]
    BY <1>2, HighValuesAre
  <2>2. v \in [0 .. Len(z) -> Nat]
    BY <1>2, HighValuesAre
  <2> QED
    BY <1>3, <2>1, <2>2
<1>5. /\ \A i \in 1 .. m : u[i] = u[i - 1] * radix + y[i] /\ y[i] \in Nat
      /\ u[0] = 0 /\ \A i \in 0 .. m : u[i] \in Nat
  BY HighValuesAre, ElementOfSeq
<1>6. a \in Nat /\ a = HighValues(radix, x)[n]
  BY DigitsValueNat
<1>7. v[n] = a
  <2>1. Agree(z, x, n)
    <3>1. \A i \in 1 .. n : i \in 1 .. n + m /\ i <= n
      BY <1>1
    <3> QED
      BY <1>3, <3>1 DEF Agree
  <2>2. n <= Len(z) /\ n <= Len(x)
    BY <1>1, <1>3
  <2>3. HighValues(radix, z)[n] = HighValues(radix, x)[n]
    BY <1>1, <1>2, <2>1, <2>2, HighValuesAgree
  <2> QED
    BY <1>6, <2>3
<1>8. DigitsValue(radix, z) = v[n + m] /\ DigitsValue(radix, y) = u[m]
  BY <1>3 DEF DigitsValue
<1> HIDE DEF v, u, a
<1>9. 0 \in T
  <2>1. P(0) = 1
    BY PowerIs
  <2>2. n + 0 = n
    BY <1>1
  <2>3. a * 1 + 0 = a
    BY <1>6
  <2> QED
    BY <1>1, <1>5, <1>7, <2>1, <2>2, <2>3
<1>10. ASSUME NEW i \in 0 .. m - 1, i \in T PROVE i + 1 \in T
  <2> DEFINE j == i + 1
             p == P(i)
             q == P(j)
             c == y[j]
             e == u[i]
  <2>1. i \in Nat /\ j \in 1 .. m /\ j - 1 = i /\ i \in 0 .. m /\ j \in 0 .. m
    BY <1>1
  <2>2. n + j \in 1 .. n + m /\ (n + j) - 1 = n + i /\ ~(n + j <= n) /\ (n + j) - n = j
    BY <1>1, <2>1
  <2>3. v[n + j] = v[n + i] * radix + c
    BY <1>3, <1>4, <2>2
  <2>4. u[j] = e * radix + c /\ c \in Nat /\ e \in Nat
    BY <1>5, <2>1
  <2>5. v[n + i] = a * p + e
    BY <1>10
  <2>6. p \in Nat /\ q = radix * p
    BY <2>1, PowerIs
  <2> HIDE DEF p, q, c, e
  <2>7. (a * p + e) * radix + c = a * (radix * p) + (e * radix + c)
    <3>1. (a * p + e) * radix = (a * p) * radix + e * radix
      BY <1>6, <2>4, <2>6
    <3>2. (a * p) * radix = a * (radix * p)
      BY <1>6, <2>6
    <3>3. (a * p) * radix \in Nat /\ e * radix \in Nat
      BY <1>6, <2>4, <2>6
    <3> QED
      BY <2>4, <3>1, <3>2, <3>3
  <2>8. v[n + j] = a * q + u[j]
    BY <2>3, <2>4, <2>5, <2>6, <2>7
  <2> QED
    BY <2>1, <2>8 DEF q
<1> HIDE DEF T
<1>11. m \in T
  <2>1. \A i \in 0 .. m : i \in T
    BY <1>1, <1>9, <1>10, InductUpTo
  <2> QED
    BY <1>1, <2>1
<1>12. v[n + m] = a * P(m) + u[m]
  BY <1>11 DEF T
<1> QED
  BY <1>2, <1>8, <1>12 DEF z, a

(***************************************************************************)
(* Dividing by p and then by radix is dividing by radix * p.               *)
(***************************************************************************)
LEMMA DividedTwice ==
  ASSUME NEW v \in Nat, NEW p \in Nat \ {0}, NEW radix \in Nat \ {0}
  PROVE  (v \div p) \div radix = v \div (radix * p)
<1> DEFINE w == v \div p
           s == v % p
           a == w \div radix
           b == w % radix
           q == radix * p
           r == p * b + s
<1>1. w \in Nat /\ s \in Nat /\ s < p /\ v = p * w + s
  BY Division
<1> HIDE DEF w, s
<1>2. a \in Nat /\ b \in Nat /\ b < radix /\ w = radix * a + b
  BY <1>1, Division
<1>3. a = w \div radix
  OBVIOUS
<1> HIDE DEF a, b
<1>4. q \in Nat \ {0}
  <2>1. radix >= 1 /\ p >= 1
    OBVIOUS
  <2>2. radix * p >= 1 * p /\ radix * p \in Nat
    BY <2>1
  <2> QED
    BY <2>1, <2>2
<1>5. r \in Nat /\ r < q
  <2>1. p * b \in Nat
    BY <1>2
  <2>2. p * (b + 1) <= p * radix
    BY <1>2
  <2>3. p * (b + 1) = p * b + p
    BY <1>2
  <2>4. p * radix = q
    OBVIOUS
  <2> DEFINE e == p * b
             f == p * radix
             g == p * (b + 1)
  <2>5. e \in Nat /\ g <= f /\ g = e + p /\ f = q /\ r = e + s
    BY <2>1, <2>2, <2>3, <2>4
  <2> HIDE DEF e, f, g, q, r
  <2> QED
    BY <1>1, <1>4, <2>5
<1>6. v = q * a + r
  <2>1. p * (radix * a + b) = p * (radix * a) + p * b
    BY <1>2
  <2>2. p * (radix * a) = q * a
    BY <1>2
  <2>3. p * (radix * a) \in Nat /\ p * b \in Nat
    BY <1>2
  <2>4. v = p * (radix * a + b) + s
    BY <1>1, <1>2
  <2> DEFINE e == p * b
             f == p * (radix * a)
             g == p * (radix * a + b)
             l == q * a
  <2>5. e \in Nat /\ f \in Nat /\ g = f + e /\ f = l /\ r = e + s /\ v = g + s
    BY <2>1, <2>2, <2>3, <2>4
  <2> HIDE DEF e, f, g, r, l
  <2>6. v = l + r
    BY <1>1, <2>5
  <2> QED
    BY <2>6 DEF l
<1> HIDE DEF q, r
<1>7. v \div q = a
  BY <1>2, <1>4, <1>5, <1>6, DivisionUnique
<1> QED
  BY <1>3, <1>7 DEF q, w

(***************************************************************************)
(* The digits of a value, k of them, stand for it if they are enough.      *)
(***************************************************************************)
LEMMA DigitsOfIs ==
  ASSUME NEW v \in Nat, NEW radix \in Nat, radix > 1, NEW k \in Nat, v < Power(radix, k)
  PROVE  /\ DigitsOf(v, radix, k) \in Seq(0 .. radix - 1) /\ Len(DigitsOf(v, radix, k)) = k
         /\ DigitsValue(radix, DigitsOf(v, radix, k)) = v
<1> DEFINE ds == DigitsOf(v, radix, k)
           P(i) == Power(radix, i)
           h == HighValues(radix, ds)
           T == {i \in 0 .. k : h[i] = v \div P(k - i)}
<1>1. \A i \in Nat : P(i) \in Nat \ {0}
  <2>1. radix \in Nat \ {0}
    OBVIOUS
  <2>2. \A i \in Nat : Power(radix, i) \in Nat /\ Power(radix, i) > 0
    BY <2>1, PowerPositive
  <2> QED
    BY <2>2
<1>2. \A i \in 1 .. k : (v \div P(k - i)) % radix \in 0 .. radix - 1
  <2> SUFFICES ASSUME NEW i \in 1 .. k PROVE (v \div P(k - i)) % radix \in 0 .. radix - 1
    OBVIOUS
  <2> DEFINE p == P(k - i)
             w == v \div p
  <2>1. k - i \in Nat
    OBVIOUS
  <2>2. p \in Nat \ {0}
    BY <1>1, <2>1
  <2> HIDE DEF p
  <2>3. w \in Nat
    BY <2>2, Division
  <2> HIDE DEF w
  <2>4. radix \in Nat \ {0}
    OBVIOUS
  <2>5. w % radix \in Nat /\ w % radix < radix
    BY <2>3, <2>4, Division
  <2> QED
    BY <2>5 DEF w, p
<1>3. ds \in [1 .. k -> 0 .. radix - 1] /\ \A i \in 1 .. k : ds[i] = (v \div P(k - i)) % radix
  BY <1>2 DEF DigitsOf
<1> HIDE DEF ds, P
<1>4. ds \in Seq(0 .. radix - 1) /\ Len(ds) = k
  BY <1>3, Tuple
<1>5. ds \in Seq(Nat)
  <2>1. 0 .. radix - 1 \subseteq Nat
    OBVIOUS
  <2> QED
    BY <1>4, <2>1, SeqMonotonic
<1>6. h[0] = 0 /\ \A i \in 1 .. k : h[i] = h[i - 1] * radix + ds[i]
  BY <1>4, <1>5, HighValuesAre
<1>7. DigitsValue(radix, ds) = h[k]
  BY <1>4 DEF DigitsValue
<1> HIDE DEF h
<1>8. 0 \in T
  <2> DEFINE q == P(k)
  <2>1. q \in Nat \ {0} /\ v < q
    BY <1>1 DEF P
  <2>2. k - 0 = k
    OBVIOUS
  <2> HIDE DEF q
  <2>3. 0 \in Nat /\ v = q * 0 + v
    BY <2>1
  <2>4. v \div q = 0
    BY <2>1, <2>3, DivisionUnique
  <2> QED
    BY <1>6, <2>2, <2>4 DEF q
<1>9. ASSUME NEW i \in 0 .. k - 1, i \in T PROVE i + 1 \in T
  <2> DEFINE j == i + 1
             l == k - j
             p == P(l)
             q == P(l + 1)
             w == v \div p
  <2>1. j \in 1 .. k /\ j - 1 = i /\ l \in Nat /\ k - i = l + 1 /\ j \in 0 .. k
    OBVIOUS
  <2> HIDE DEF l
  <2>2. p \in Nat \ {0} /\ q = radix * p
    BY <1>1, <2>1, PowerIs DEF P
  <2>3. h[i] = v \div q
    BY <1>9, <2>1
  <2>4. h[j] = h[i] * radix + (w % radix)
    <3>1. k - j = l
      BY DEF l
    <3> QED
      BY <1>3, <1>6, <2>1, <3>1
  <2>5. radix \in Nat \ {0}
    OBVIOUS
  <2> HIDE DEF p, q
  <2>6. w \div radix = v \div q
    BY <2>2, <2>5, DividedTwice
  <2>7. w \in Nat
    BY <2>2, Division
  <2> HIDE DEF w
  <2>8. w = radix * (w \div radix) + (w % radix) /\ w \div radix \in Nat
    BY <2>5, <2>7, Division
  <2>9. h[j] = w
    <3> DEFINE e == w \div radix
               f == w % radix
    <3>1. h[j] = e * radix + f /\ w = radix * e + f /\ e \in Nat
      BY <2>3, <2>4, <2>6, <2>8
    <3> HIDE DEF e, f
    <3>2. e * radix = radix * e
      BY <3>1
    <3> QED
      BY <3>1, <3>2
  <2> QED
    BY <2>1, <2>9 DEF w, p, l
<1> HIDE DEF T
<1>10. k \in T
  <2>1. \A i \in 0 .. k : i \in T
    BY <1>8, <1>9, InductUpTo
  <2> QED
    BY <2>1
<1>11. h[k] = v
  <2>1. P(k - k) = 1
    <3>1. k - k = 0
      OBVIOUS
    <3> QED
      BY <3>1, PowerIs DEF P
  <2>2. v \div 1 = v
    OBVIOUS
  <2> QED
    BY <1>10, <2>1, <2>2 DEF T
<1> QED
  BY <1>4, <1>7, <1>11 DEF ds

\* The digits that number_gethex writes for limb i, and the texts of the lowest limbs.
Nibbles(d, i) == IF i = Len(d) THEN DigitCount(16, d[i]) ELSE W \div 4
HexRun(text, n) ==
  /\ text[0] = <<>>
  /\ \A i \in 1 .. Len(n.d) : text[i] = DigitsOf(n.d[i], 16, Nibbles(n.d, i)) \o text[i - 1]
  /\ HexText(n) = SignText(n) \o <<0, Ex>> \o IF Len(n.d) = 0 THEN <<0>> ELSE text[Len(n.d)]

(***************************************************************************)
(* A limb is W / 4 nibbles.                                                *)
(***************************************************************************)
LEMMA NibblePlaces ==
  /\ W \div 4 \in Nat
  /\ \A i \in Nat : (W \div 4) * i \in Nat /\ Power(16, (W \div 4) * i) = Power(Base, i)
<1> DEFINE k == W \div 4
           f == 4
<1>1. W \in Nat /\ W % 4 = 0 /\ Base = Power(2, W)
  BY WidthAssumption
<1>2. k \in Nat /\ W = f * k
  BY <1>1
<1> HIDE DEF k
<1>3. f \in Nat /\ Power(2, f) = 16 /\ 2 \in Nat
  BY SmallPowers
<1> HIDE DEF f
<1>4. Power(16, k) = Base
  <2>1. Power(Power(2, f), k) = Power(2, f * k)
    BY <1>2, <1>3, PowerOfPower
  <2> QED
    BY <1>1, <1>2, <1>3, <2>1
<1>5. ASSUME NEW i \in Nat PROVE k * i \in Nat /\ Power(16, k * i) = Power(Base, i)
  <2> DEFINE r == 16
  <2>1. r \in Nat
    OBVIOUS
  <2> HIDE DEF r
  <2>2. Power(Power(r, k), i) = Power(r, k * i)
    BY <1>2, <2>1, PowerOfPower
  <2>3. k * i \in Nat
    BY <1>2
  <2> QED
    BY <1>4, <2>2, <2>3 DEF r
<1> QED
  BY <1>2, <1>5 DEF k

\* The digits of a limb fit the nibbles it has.
LEMMA NibblesOfLimb ==
  ASSUME NEW d, Normal(d), NEW i \in 1 .. Len(d)
  PROVE  /\ d[i] \in Nat /\ Nibbles(d, i) \in Nat /\ d[i] < Power(16, Nibbles(d, i))
         /\ i = Len(d) => Nibbles(d, i) > 0
         /\ i # Len(d) => Nibbles(d, i) = W \div 4
<1> DEFINE x == d[i]
           r == 16
<1>1. x \in Limb /\ x \in Nat /\ x < Base /\ (i = Len(d) => x # 0)
  <2>1. x \in Limb
    BY LimbsAreInts DEF Normal
  <2>2. x \in Nat /\ x < Base
    BY <2>1, BaseAssumption DEF Limb
  <2>3. i = Len(d) => x # 0
    <3>1. Len(d) \in Nat
      BY LenProperties DEF Normal
    <3>2. i = Len(d) => Len(d) > 0
      BY <3>1
    <3> QED
      BY <3>2 DEF Normal
  <2> QED
    BY <2>1, <2>2, <2>3
<1>2. r \in Nat /\ r > 1
  OBVIOUS
<1> HIDE DEF x, r
<1>3. CASE i = Len(d)
  <2> DEFINE k == DigitCount(r, x)
  <2>1. Nibbles(d, i) = k
    BY <1>3 DEF Nibbles, x, r
  <2>2. x \in Nat \ {0}
    BY <1>1, <1>3
  <2>3. k \in Nat \ {0} /\ x < Power(r, k)
    BY <1>2, <2>2, DigitCountBounds
  <2> HIDE DEF k
  <2>4. k \in Nat /\ k > 0
    BY <2>3
  <2> QED
    BY <1>1, <1>3, <2>1, <2>3, <2>4 DEF x, r
<1>4. CASE i # Len(d)
  <2> DEFINE k == W \div 4
  <2>1. Nibbles(d, i) = k
    BY <1>4 DEF Nibbles
  <2>2. k \in Nat /\ Power(16, k * 1) = Power(Base, 1)
    BY NibblePlaces
  <2> HIDE DEF k
  <2>3. k * 1 = k
    BY <2>2
  <2>4. Power(Base, 1) = Base
    <3>1. Power(Base, 0 + 1) = Base * Power(Base, 0) /\ Power(Base, 0) = 1
      BY Places
    <3>2. 0 + 1 = 1 /\ Base * 1 = Base
      BY BaseAssumption
    <3> QED
      BY <3>1, <3>2
  <2>5. Nibbles(d, i) \in Nat /\ x < Power(16, Nibbles(d, i))
    BY <1>1, <2>1, <2>2, <2>3, <2>4
  <2> QED
    BY <1>1, <1>4, <2>1, <2>5 DEF x, k
<1> QED
  BY <1>3, <1>4

\* The texts of the lowest limbs are what the recursive function of HexText gives.
LEMMA HexRunExists ==
  ASSUME NEW n, NumOK(n)
  PROVE  \E text \in [0 .. Len(n.d) -> Seq(0 .. 15)] : HexRun(text, n)
<1> DEFINE d == n.d
           len == Len(d)
           S == Seq(0 .. 15)
           ds(i) == DigitsOf(d[i], 16, Nibbles(d, i))
           F == [p \in (1 .. len) \X S |-> ds(p[1]) \o p[2]]
           Body(v) == [i \in 0 .. len |-> IF i = 0 THEN <<>> ELSE ds(i) \o v[i - 1]]
           text == CHOOSE v : v = Body(v)
<1>1. len \in Nat /\ Normal(d)
  BY NumParts
<1>2. \A i \in 1 .. len : ds(i) \in S
  <2> SUFFICES ASSUME NEW i \in 1 .. len PROVE ds(i) \in S
    OBVIOUS
  <2> DEFINE x == d[i]
             k == Nibbles(d, i)
             r == 16
  <2>1. x \in Nat /\ k \in Nat /\ x < Power(r, k)
    BY <1>1, NibblesOfLimb
  <2>2. r \in Nat /\ r > 1 /\ r - 1 = 15
    OBVIOUS
  <2> HIDE DEF x, k, r
  <2>3. DigitsOf(x, r, k) \in Seq(0 .. r - 1)
    BY <2>1, <2>2, DigitsOfIs
  <2>4. 0 .. r - 1 = 0 .. 15
    BY <2>2
  <2> QED
    BY <2>3, <2>4 DEF x, k, r
<1>3. HexText(n) = SignText(n) \o <<0, Ex>> \o IF len = 0 THEN <<0>> ELSE text[len]
  BY DEF HexText, Nibbles
<1> HIDE DEF ds, len, d
<1>4. <<>> \in S
  BY EmptySeq
<1>5. \A i \in 1 .. len, s \in S : F[<<i, s>>] = ds(i) \o s
  OBVIOUS
<1> HIDE DEF F
<1>6. Steps(F, len, S)
  <2> SUFFICES ASSUME NEW i \in 1 .. len, NEW s \in S PROVE F[<<i, s>>] \in S
    BY DEF Steps
  <2> DEFINE x == ds(i)
  <2>1. x \in S /\ F[<<i, s>>] = x \o s
    BY <1>2, <1>5
  <2> HIDE DEF x
  <2>2. x \in S
    BY <2>1
  <2>3. x \o s \in S
    BY <2>2, ConcatProperties
  <2> QED
    BY <2>1, <2>3
<1> HIDE DEF S
<1>7. PICK f \in [0 .. len -> S] : Iterated(f, F, len, <<>>)
  BY <1>1, <1>4, <1>6, IterationExists
<1>8. f = Body(f)
  <2>1. ASSUME NEW i \in 0 .. len PROVE f[i] = IF i = 0 THEN <<>> ELSE ds(i) \o f[i - 1]
    <3>1. CASE i = 0
      BY <3>1, <1>7 DEF Iterated
    <3>2. CASE i # 0
      <4>1. i \in 1 .. len /\ i - 1 \in 0 .. len
        BY <1>1, <3>2
      <4> QED
        BY <1>5, <1>7, <3>2, <4>1 DEF Iterated
    <3> QED
      BY <3>1, <3>2
  <2> QED
    BY <2>1, <1>7
<1>9. text = Body(text)
  <2> HIDE DEF Body
  <2> QED
    BY <1>8
<1> HIDE DEF text
<1>10. text = [i \in 0 .. len |-> text[i]] /\ text[0] = <<>>
  BY <1>1, <1>9
<1>11. \A i \in 1 .. len : text[i] = ds(i) \o text[i - 1]
  <2>1. \A i \in 1 .. len : i \in 0 .. len /\ i # 0
    BY <1>1
  <2> QED
    BY <1>9, <2>1
<1>12. Iterates(text, F, len, S, <<>>)
  BY <1>5, <1>10, <1>11 DEF Iterates
<1>13. text \in [0 .. len -> S]
  BY <1>1, <1>4, <1>6, <1>12, IterationIs
<1>14. HexRun(text, n)
  BY <1>3, <1>10, <1>11 DEF HexRun, ds, len, d
<1> QED
  BY <1>13, <1>14 DEF S, len, d

\* y has the digits of the lowest i limbs of d.
HexOf(y, d, i) == Len(y) = (W \div 4) * i /\ DigitsValue(16, y) = LowValues(d)[i]
HexMore(z, d, i, k) == Len(z) = k + (W \div 4) * i /\ DigitsValue(16, z) = LowValues(d)[i + 1]
HexPut(z, x, k, y) == k \in Nat /\ x < Power(16, k) /\ z = DigitsOf(x, 16, k) \o y

\* One limb more in front of the text of the lower ones.
LEMMA HexStep ==
  ASSUME NEW d \in Seq(Limb), NEW i \in Nat, i < Len(d), NEW y \in Seq(0 .. 15), HexOf(y, d, i),
         NEW k, NEW z, HexPut(z, d[i + 1], k, y)
  PROVE  HexMore(z, d, i, k)
<1> DEFINE r == 16
           x == d[i + 1]
           ds == DigitsOf(x, r, k)
           m == (W \div 4) * i
<1>0. k \in Nat /\ x < Power(16, k) /\ z = DigitsOf(x, 16, k) \o y
  BY DEF HexPut
<1>1. r \in Nat /\ r > 1 /\ r - 1 = 15
  OBVIOUS
<1>2. m \in Nat /\ Power(r, m) = Power(Base, i) /\ Len(y) = m
  BY NibblePlaces DEF HexOf
<1>3. x \in Nat /\ x < Power(r, k) /\ d \in Seq(Int)
  <2>1. i + 1 \in 1 .. Len(d)
    BY LenProperties
  <2> QED
    BY <1>0, <2>1, LimbsAreInts
<1>4. LowValues(d)[i + 1] = LowValues(d)[i] + x * Power(Base, i) /\ LowValues(d)[i] \in Int
  BY <1>3, LowValuesNext
<1>5. z = ds \o y /\ DigitsValue(r, y) = LowValues(d)[i]
  BY <1>0 DEF HexOf
<1>6. y \in Seq(Nat)
  <2>1. 0 .. 15 \subseteq Nat
    OBVIOUS
  <2> QED
    BY <2>1, SeqMonotonic
<1> HIDE DEF r, x, m
<1>7. ds \in Seq(0 .. r - 1) /\ Len(ds) = k /\ DigitsValue(r, ds) = x
  BY <1>0, <1>1, <1>3, DigitsOfIs
<1> HIDE DEF ds
<1>8. ds \in Seq(Nat)
  <2>1. 0 .. r - 1 \subseteq Nat
    BY <1>1
  <2> QED
    BY <1>7, <2>1, SeqMonotonic
<1>9. /\ Len(ds \o y) = Len(ds) + Len(y)
      /\ DigitsValue(r, ds \o y) = DigitsValue(r, ds) * Power(r, Len(y)) + DigitsValue(r, y)
  BY <1>1, <1>6, <1>8, DigitsValueConcat
<1>10. Len(z) = k + m
  BY <1>2, <1>5, <1>7, <1>9
<1>11. DigitsValue(r, z) = LowValues(d)[i + 1]
  <2> DEFINE p == Power(Base, i)
             l == LowValues(d)[i]
  <2>1. DigitsValue(r, z) = x * p + l
    BY <1>2, <1>5, <1>7, <1>9
  <2>2. LowValues(d)[i + 1] = l + x * p /\ l \in Int /\ p \in Nat
    BY <1>4, Places
  <2> HIDE DEF p, l
  <2>3. x * p + l = l + x * p
    BY <1>3, <2>2
  <2> QED
    BY <2>1, <2>2, <2>3
<1> QED
  BY <1>10, <1>11 DEF r, m, HexMore

(***************************************************************************)
(* number_gethex writes the digits of the magnitude.                       *)
(***************************************************************************)
LEMMA HexDigits ==
  ASSUME NEW n, NumOK(n)
  PROVE  \E ds \in Seq(0 .. 15) : /\ Len(ds) > 0 /\ DigitsValue(16, ds) = Magnitude(n.d)
                                  /\ HexText(n) = SignText(n) \o <<0, Ex>> \o ds
<1> DEFINE d == n.d
           len == Len(d)
           V == LowValues(d)
           K == W \div 4
<1>1. PICK text \in [0 .. len -> Seq(0 .. 15)] : HexRun(text, n)
  BY HexRunExists
<1>2. len \in Nat /\ Normal(d) /\ d \in Seq(Limb)
  BY NumParts
<1>3. CASE len = 0
  <2> DEFINE z == 0
             r == 16
             o == <<z>>
  <2>1. HexText(n) = SignText(n) \o <<0, Ex>> \o o
    BY <1>1, <1>3 DEF HexRun
  <2>2. Magnitude(d) = 0
    <3>1. d = <<>>
      BY <1>2, <1>3, EmptySeq
    <3> QED
      BY <3>1, ZeroOK
  <2>3. o \in Seq(0 .. 15)
    OBVIOUS
  <2>4. z \in Nat /\ r \in Nat
    OBVIOUS
  <2> HIDE DEF z, r
  <2>5. Len(o) = 1 /\ DigitsValue(r, o) = z
    BY <2>4, DigitsValueOne
  <2> HIDE DEF o
  <2>6. Len(o) > 0 /\ DigitsValue(16, o) = Magnitude(n.d)
    BY <2>2, <2>5 DEF z, r
  <2> QED
    BY <2>1, <2>3, <2>6
<1>4. CASE len # 0
  <2> DEFINE m == len - 1
             T == {i \in 0 .. m : Len(text[i]) = K * i /\ DigitsValue(16, text[i]) = V[i]}
  <2>1. m \in Nat /\ m + 1 = len
    BY <1>2, <1>4
  <2>2. /\ text[0] = <<>>
        /\ \A i \in 1 .. len : text[i] = DigitsOf(d[i], 16, Nibbles(d, i)) \o text[i - 1]
        /\ HexText(n) = SignText(n) \o <<0, Ex>> \o text[len]
    BY <1>1, <1>4 DEF HexRun
  <2>3. K \in Nat
    BY NibblePlaces
  <2> HIDE DEF m, K
  <2>4. 0 \in T
    <3>1. Len(<<>>) = 0 /\ K * 0 = 0
      BY <2>3, EmptySeq
    <3>2. DigitsValue(16, <<>>) = 0
      <4>1. <<>> \in Seq(Nat)
        BY EmptySeq
      <4> QED
        BY <4>1, DigitsValueNat
    <3>3. V[0] = 0
      BY <1>2, LimbsAreInts, LowValuesAre
    <3> QED
      BY <2>1, <2>2, <3>1, <3>2, <3>3
  <2>5. ASSUME NEW i \in 0 .. m, i \in T
        PROVE  /\ Len(text[i + 1]) = Nibbles(d, i + 1) + K * i /\ DigitsValue(16, text[i + 1]) = V[i + 1]
    <3> DEFINE j == i + 1
               k == Nibbles(d, j)
               y == text[i]
               z == text[j]
    <3>1. i \in Nat /\ i < len /\ j \in 1 .. len /\ j - 1 = i /\ i \in 0 .. len
      BY <2>1
    <3>2. z = DigitsOf(d[j], 16, k) \o y /\ y \in Seq(0 .. 15)
      BY <1>1, <2>2, <3>1
    <3>3. Len(y) = K * i /\ DigitsValue(16, y) = LowValues(d)[i]
      BY <2>5
    <3>4. k \in Nat /\ d[j] < Power(16, k)
      BY <1>2, <3>1, NibblesOfLimb
    <3> HIDE DEF y, z, k
    <3>5. Len(z) = k + K * i /\ DigitsValue(16, z) = LowValues(d)[i + 1]
      <4>1. d \in Seq(Limb)
        BY <1>2
      <4>2. i \in Nat /\ i < Len(d)
        BY <3>1
      <4>3. y \in Seq(0 .. 15)
        BY <3>2
      <4>4. HexPut(z, d[i + 1], k, y)
        BY <3>2, <3>4 DEF HexPut
      <4>5. HexOf(y, d, i)
        BY <3>3 DEF K, HexOf
      <4> HIDE DEF j, d, len
      <4>6. HexMore(z, d, i, k)
        BY <4>1, <4>2, <4>3, <4>4, <4>5, HexStep
      <4> QED
        BY <4>6 DEF K, HexMore
    <3> QED
      BY <3>5 DEF z, k
  <2>6. \A i \in 0 .. m : i \in T
    <3>1. ASSUME NEW i \in 0 .. m - 1, i \in T PROVE i + 1 \in T
      <4> DEFINE j == i + 1
      <4>1. i \in 0 .. m /\ i \in Nat /\ j \in 0 .. m /\ j \in 1 .. len /\ j # len
        BY <2>1
      <4>2. Len(text[j]) = Nibbles(d, j) + K * i /\ DigitsValue(16, text[j]) = V[j]
        BY <2>5, <3>1, <4>1
      <4>3. Nibbles(d, j) = K
        BY <1>2, <4>1, NibblesOfLimb DEF K
      <4>4. K + K * i = K * j
        BY <2>3, <4>1
      <4> HIDE DEF j
      <4>5. j \in T
        BY <4>1, <4>2, <4>3, <4>4
      <4> QED
        BY <4>5 DEF j
    <3> HIDE DEF T
    <3> QED
      BY <2>1, <2>4, <3>1, InductUpTo
  <2>7. Len(text[len]) = Nibbles(d, len) + K * m /\ DigitsValue(16, text[len]) = V[len]
    <3>1. m \in 0 .. m /\ m \in T
      BY <2>1, <2>6
    <3> HIDE DEF T
    <3>2. Len(text[m + 1]) = Nibbles(d, m + 1) + K * m /\ DigitsValue(16, text[m + 1]) = V[m + 1]
      BY <2>5, <3>1
    <3> QED
      BY <2>1, <3>2
  <2>8. Len(text[len]) > 0
    <3>1. len \in 1 .. Len(d)
      BY <1>2, <1>4
    <3> DEFINE k == Nibbles(d, len)
               e == K * m
    <3>2. k \in Nat /\ k > 0
      BY <1>2, <3>1, NibblesOfLimb
    <3>3. e \in Nat
      BY <2>1, <2>3
    <3>4. Len(text[len]) = k + e
      BY <2>7
    <3> HIDE DEF k, e
    <3> QED
      BY <3>2, <3>3, <3>4
  <2>9. V[len] = Magnitude(d)
    BY DEF Magnitude
  <2>10. text[len] \in Seq(0 .. 15)
    BY <1>1, <1>2
  <2> QED
    BY <2>2, <2>7, <2>8, <2>9, <2>10
<1> QED
  BY <1>3, <1>4

(***************************************************************************)
(* What number_gethex writes is read back as the number.                   *)
(***************************************************************************)
LEMMA HexReadBack ==
  ASSUME NEW n, NumOK(n)
  PROVE  SetStr(HexText(n)).n = n
<1> DEFINE r == 16
<1>1. PICK ds \in Seq(0 .. 15) :
        /\ Len(ds) > 0 /\ DigitsValue(16, ds) = Magnitude(n.d) /\ HexText(n) = SignText(n) \o <<0, Ex>> \o ds
  BY HexDigits
<1> DEFINE t == HexText(n)
<1>2. r \in {10, 16} /\ 0 .. r - 1 = 0 .. 15 /\ PrefixText(r) = <<0, Ex>>
  BY DEF PrefixText
<1>3. Len(ds) > 0 /\ DigitsValue(r, ds) = Magnitude(n.d)
  BY <1>1
<1> HIDE DEF r
<1>4. ds \in Seq(0 .. r - 1)
  BY <1>2
<1>5. t = SignText(n) \o PrefixText(r) \o ds
  BY <1>1, <1>2
<1> HIDE DEF t
<1>6. r \in {10, 16}
  BY <1>2
<1>7. SetStr(t).n = n
  BY <1>3, <1>4, <1>5, <1>6, TextRead, ZenonT(40)
<1> QED
  BY <1>7 DEF t

\* What number_getdec divides by, what is left of the limbs above each one, and the quotient.
Chunk == Power(10, DecDigits)
RestRun(rest, d) ==
  /\ rest[0] = 0
  /\ \A j \in 1 .. Len(d) : rest[j] = (rest[j - 1] * Base + d[Len(d) + 1 - j]) % Chunk
  /\ DivChunk(d) = [q |-> [i \in 1 .. Len(d) |-> (rest[Len(d) - i] * Base + d[i]) \div Chunk],
                    r |-> rest[Len(d)]]

\* A chunk is less than Base, and ten at least.
LEMMA ChunkIs ==
  Chunk \in Nat /\ Chunk < Base /\ Chunk >= 10 /\ DecDigits \in Nat /\ DecDigits > 0
<1> DEFINE k == DecDigits - 1
           ten == 10
<1>1. DecDigits \in Nat \ {0} /\ Power(10, DecDigits) < Base
  BY ChunkAssumption
<1>2. k \in Nat /\ DecDigits = k + 1
  BY <1>1
<1>3. ten \in Nat /\ ten \in Nat \ {0} /\ ten = 10
  OBVIOUS
<1> HIDE DEF k, ten
<1>4. Power(ten, k + 1) = ten * Power(ten, k) /\ Power(ten, k) \in Nat /\ Power(ten, k) > 0
  <2>1. Power(ten, k) \in Nat /\ Power(ten, k) > 0
    BY <1>2, <1>3, PowerPositive
  <2>2. Power(ten, k + 1) = ten * Power(ten, k)
    BY <1>2, <1>3, PowerIs
  <2> QED
    BY <2>1, <2>2
<1>5. Chunk = ten * Power(ten, k)
  BY <1>2, <1>3, <1>4 DEF Chunk
<1> DEFINE p == Power(ten, k)
<1>6. p \in Nat /\ p > 0 /\ Chunk = 10 * p
  BY <1>3, <1>4, <1>5
<1> HIDE DEF p
<1>7. Chunk \in Nat /\ Chunk >= 10
  BY <1>6
<1> QED
  BY <1>1, <1>7 DEF Chunk

(***************************************************************************)
(* One limb is divided, with what is left of those above it.               *)
(***************************************************************************)
LEMMA DivLimbExact ==
  ASSUME NEW rest \in 0 .. Chunk - 1, NEW x \in Limb, NEW v, v = rest * Base + x
  PROVE  v \div Chunk \in Limb /\ v % Chunk \in 0 .. Chunk - 1 /\ v = (v \div Chunk) * Chunk + (v % Chunk)
<1> DEFINE c == Chunk
           q == v \div c
           r == v % c
           rb == rest * Base
<1>1. c \in Nat /\ c > 0 /\ Base \in Nat /\ x \in Nat /\ x < Base /\ rest \in Nat /\ rest <= c - 1
  BY ChunkIs, BaseAssumption DEF Limb
<1> HIDE DEF c
<1>2. rb \in Nat /\ rb <= (c - 1) * Base /\ (c - 1) * Base = c * Base - Base /\ c * Base \in Nat
  BY <1>1
<1>3. v = rb + x
  OBVIOUS
<1> DEFINE cb == c * Base
           db == (c - 1) * Base
<1>4. rb \in Nat /\ rb <= db /\ db = cb - Base /\ cb \in Nat
  BY <1>2
<1> HIDE DEF rb, cb, db
<1>5. v \in Nat /\ v < cb
  BY <1>1, <1>3, <1>4
<1>6. c \in Nat \ {0}
  BY <1>1
<1>7. q \in Nat /\ r \in Nat /\ r < c /\ v = c * q + r
  BY <1>5, <1>6, Division
<1> HIDE DEF q, r
<1>8. q < Base
  <2> SUFFICES ASSUME q >= Base PROVE FALSE
    BY <1>1, <1>7
  <2> DEFINE cq == c * q
  <2>1. cq >= cb /\ cq \in Nat
    BY <1>1, <1>7 DEF cb
  <2>2. v = cq + r
    BY <1>7
  <2> HIDE DEF cq
  <2> QED
    BY <1>4, <1>5, <1>7, <2>1, <2>2
<1>9. q \in Limb
  BY <1>1, <1>7, <1>8 DEF Limb
<1>10. r \in 0 .. c - 1
  BY <1>1, <1>7
<1>11. v = q * c + r
  <2>1. c * q = q * c
    BY <1>1, <1>7
  <2> QED
    BY <1>7, <2>1
<1> QED
  BY <1>9, <1>10, <1>11 DEF q, r, c

\* What is left of the limbs is what the recursive function of DivChunk gives.
LEMMA RestRunExists ==
  ASSUME NEW d \in Seq(Limb)
  PROVE  \E rest \in [0 .. Len(d) -> 0 .. Chunk - 1] : RestRun(rest, d)
<1> DEFINE n == Len(d)
           S == 0 .. Chunk - 1
           F == [p \in (1 .. n) \X S |-> (p[2] * Base + d[n + 1 - p[1]]) % Chunk]
           Body(v) == [j \in 0 .. n |-> IF j = 0 THEN 0 ELSE (v[j - 1] * Base + d[n + 1 - j]) % Chunk]
           rest == CHOOSE v : v = Body(v)
<1>1. n \in Nat /\ \A j \in 1 .. n : d[n + 1 - j] \in Limb
  <2>1. n \in Nat /\ \A i \in 1 .. n : d[i] \in Limb
    BY LimbsAreInts
  <2>2. \A j \in 1 .. n : n + 1 - j \in 1 .. n
    BY <2>1
  <2> QED
    BY <2>1, <2>2
<1>2. DivChunk(d) = [q |-> [i \in 1 .. n |-> (rest[n - i] * Base + d[i]) \div Chunk], r |-> rest[n]]
  BY DEF DivChunk, Chunk
<1> HIDE DEF n
<1>3. 0 \in S
  BY ChunkIs
<1>4. \A j \in 1 .. n, s \in S : F[<<j, s>>] = (s * Base + d[n + 1 - j]) % Chunk
  OBVIOUS
<1> HIDE DEF F
<1>5. Steps(F, n, S)
  <2> SUFFICES ASSUME NEW j \in 1 .. n, NEW s \in S PROVE F[<<j, s>>] \in S
    BY DEF Steps
  <2> DEFINE x == d[n + 1 - j]
             v == s * Base + x
  <2>1. x \in Limb /\ F[<<j, s>>] = v % Chunk
    BY <1>1, <1>4
  <2>2. v = s * Base + x
    OBVIOUS
  <2> HIDE DEF x, v
  <2>3. v % Chunk \in 0 .. Chunk - 1
    BY <2>1, <2>2, DivLimbExact
  <2> QED
    BY <2>1, <2>3
<1> HIDE DEF S
<1>6. PICK f \in [0 .. n -> S] : Iterated(f, F, n, 0)
  BY <1>1, <1>3, <1>5, IterationExists
<1>7. f = Body(f)
  <2>1. ASSUME NEW j \in 0 .. n PROVE f[j] = IF j = 0 THEN 0 ELSE (f[j - 1] * Base + d[n + 1 - j]) % Chunk
    <3>1. CASE j = 0
      BY <3>1, <1>6 DEF Iterated
    <3>2. CASE j # 0
      <4>1. j \in 1 .. n /\ j - 1 \in 0 .. n
        BY <1>1, <3>2
      <4>2. f[j] = F[<<j, f[j - 1]>>] /\ f[j - 1] \in S
        BY <1>6, <4>1 DEF Iterated
      <4> QED
        BY <1>4, <3>2, <4>1, <4>2
    <3> QED
      BY <3>1, <3>2
  <2> QED
    BY <2>1, <1>6
<1>8. rest = Body(rest)
  <2> HIDE DEF Body
  <2> QED
    BY <1>7
<1> HIDE DEF rest
<1>9. rest = [j \in 0 .. n |-> rest[j]] /\ rest[0] = 0
  BY <1>1, <1>8
<1>10. \A j \in 1 .. n : rest[j] = (rest[j - 1] * Base + d[n + 1 - j]) % Chunk
  <2>1. \A j \in 1 .. n : j \in 0 .. n /\ j # 0
    BY <1>1
  <2> QED
    BY <1>8, <2>1
<1>11. Iterates(rest, F, n, S, 0)
  BY <1>4, <1>9, <1>10 DEF Iterates
<1>12. rest \in [0 .. n -> S]
  BY <1>1, <1>3, <1>5, <1>11, IterationIs
<1>13. RestRun(rest, d)
  BY <1>2, <1>9, <1>10 DEF RestRun, n
<1> QED
  BY <1>12, <1>13 DEF S, n

(***************************************************************************)
(* The limbs are divided by a chunk, and less than a chunk is left.        *)
(***************************************************************************)
LEMMA DivChunkExact ==
  ASSUME NEW d \in Seq(Limb), NEW q, q = DivChunk(d).q, NEW r, r = DivChunk(d).r
  PROVE  /\ q \in Seq(Limb) /\ Len(q) = Len(d) /\ r \in Nat /\ r < Chunk
         /\ Magnitude(d) = Magnitude(q) * Chunk + r
<1> DEFINE n == Len(d)
<1>1. PICK rest \in [0 .. n -> 0 .. Chunk - 1] : RestRun(rest, d)
  BY RestRunExists
<1>2. n \in Nat /\ d \in Seq(Int) /\ \A i \in 1 .. n : d[i] \in Limb /\ d[i] \in Int
  BY LimbsAreInts
<1>3. Chunk \in Nat /\ Chunk > 0
  BY ChunkIs
<1>4. q = [i \in 1 .. n |-> (rest[n - i] * Base + d[i]) \div Chunk] /\ r = rest[n]
  BY <1>1 DEF RestRun
<1> HIDE DEF n
<1> DEFINE e == [i \in 1 .. n |-> q[i] * Chunk]
           c == [i \in 0 .. n |-> rest[n - i]]
<1>5. \A i \in 0 .. n : rest[i] \in 0 .. Chunk - 1 /\ rest[i] \in Int
  BY <1>1, <1>3
<1>6. ASSUME NEW i \in 1 .. n
      PROVE  q[i] \in Limb /\ q[i] * Chunk \in Int /\ d[i] + Base * rest[n - i] = q[i] * Chunk + rest[n - (i - 1)]
  <2> DEFINE j == n - (i - 1)
             s == rest[n - i]
             x == d[i]
             v == s * Base + x
  <2>1. j \in 1 .. n /\ j - 1 = n - i /\ n + 1 - j = i /\ n - i \in 0 .. n
    BY <1>2
  <2>2. rest[j] = v % Chunk
    <3>1. \A l \in 1 .. n : rest[l] = (rest[l - 1] * Base + d[n + 1 - l]) % Chunk
      BY <1>1 DEF RestRun, n
    <3> HIDE DEF j
    <3> QED
      BY <2>1, <3>1
  <2>3. s \in 0 .. Chunk - 1 /\ x \in Limb
    BY <1>2, <1>5, <2>1
  <2>4. q[i] = v \div Chunk
    BY <1>4
  <2>5. v = s * Base + x
    OBVIOUS
  <2> HIDE DEF s, x, v, j
  <2>6. v \div Chunk \in Limb /\ v % Chunk \in 0 .. Chunk - 1 /\ v = (v \div Chunk) * Chunk + (v % Chunk)
    BY <2>3, <2>5, DivLimbExact
  <2>7. q[i] \in Limb /\ v = q[i] * Chunk + rest[j]
    BY <2>2, <2>4, <2>6
  <2>8. s \in Nat /\ x \in Nat /\ q[i] \in Nat /\ Base \in Nat
    BY <2>3, <2>7, BaseAssumption, LimbsAreInts
  <2>9. x + Base * s = v
    BY <2>5, <2>8
  <2>10. q[i] * Chunk \in Int
    BY <1>3, <2>8
  <2> QED
    BY <2>7, <2>9, <2>10 DEF s, x, j
<1>7. q \in [1 .. n -> Limb] /\ e \in [1 .. n -> Int] /\ \A i \in 1 .. n : e[i] = q[i] * Chunk
  <2>1. q = [i \in 1 .. n |-> q[i]]
    BY <1>4
  <2> QED
    BY <1>6, <2>1
<1>8. q \in Seq(Limb) /\ Len(q) = n
  BY <1>2, <1>7, Tuple
<1>9. e \in Seq(Int) /\ Len(e) = n
  BY <1>2, <1>7, Tuple
<1>10. c \in [0 .. n -> Int] /\ \A i \in 0 .. n : c[i] = rest[n - i]
  <2>1. \A i \in 0 .. n : n - i \in 0 .. n
    BY <1>2
  <2> QED
    BY <1>5, <2>1
<1> HIDE DEF e, c
<1>11. Rounds(d, e, c)
  <2> SUFFICES ASSUME NEW i \in 1 .. n PROVE d[i] + Base * c[i] = e[i] + c[i - 1]
    BY DEF Rounds, n
  <2>1. i \in 0 .. n /\ i - 1 \in 0 .. n
    BY <1>2
  <2>2. c[i] = rest[n - i] /\ c[i - 1] = rest[n - (i - 1)] /\ e[i] = q[i] * Chunk
    BY <1>7, <1>10, <2>1
  <2> QED
    BY <1>6, <2>2
<1>12. Magnitude(d) + Power(Base, n) * c[n] = Magnitude(e) + c[0]
  BY <1>2, <1>9, <1>10, <1>11, LoopExact DEF n
<1>13. Magnitude(e) = Magnitude(q) * Chunk
  <2>1. Multiple(e, q, Chunk)
    BY <1>7, <1>9 DEF Multiple
  <2>2. q \in Seq(Int) /\ Chunk \in Int
    BY <1>3, <1>8, LimbsAreInts
  <2>3. Len(q) = Len(e)
    BY <1>8, <1>9
  <2> QED
    BY <1>9, <2>1, <2>2, <2>3, MultipleScales
<1>14. c[n] = 0 /\ c[0] = r
  <2>1. n \in 0 .. n /\ 0 \in 0 .. n /\ n - n = 0 /\ n - 0 = n
    BY <1>2
  <2>2. rest[0] = 0
    BY <1>1 DEF RestRun
  <2> QED
    BY <1>4, <1>10, <2>1, <2>2
<1>15. r \in Nat /\ r < Chunk
  <2>1. rest[n] \in 0 .. Chunk - 1
    BY <1>2, <1>5
  <2> QED
    BY <1>3, <1>4, <2>1
<1>16. Magnitude(d) = Magnitude(e) + r
  <2> DEFINE p == Power(Base, n)
             m == Magnitude(d)
  <2>1. p \in Nat /\ m \in Nat
    BY <1>2, Places, MagnitudeBelow
  <2>2. m + p * 0 = Magnitude(e) + r
    BY <1>12, <1>14
  <2> HIDE DEF p, m
  <2>3. m + p * 0 = m
    BY <2>1
  <2> QED
    BY <2>2, <2>3 DEF m
<1> QED
  BY <1>8, <1>13, <1>15, <1>16 DEF n

\* What is divided next, and what is written for it and the chunk that is left.
LimbSeqs == Seq(Limb) \ {<<>>}
DecNext(d) == IF Last(DivChunk(d).q) = 0 THEN Front(DivChunk(d).q) ELSE DivChunk(d).q
DecBody(d, text) ==
  IF Len(d) = 1 THEN DigitsOf(d[1], 10, DecLen(d[1])) ELSE text[DecNext(d)] \o ChunkText(DivChunk(d).r)
DecMeasure(d) == Magnitude(d) + Len(d)

\* Without a top limb of 0 the value is the same.
LEMMA WithoutTop ==
  ASSUME NEW q \in Seq(Limb), NEW n, n = Len(q), n > 0, q[n] = 0
  PROVE  Front(q) \in Seq(Limb) /\ Len(Front(q)) = n - 1 /\ Magnitude(Front(q)) = Magnitude(q)
<1> DEFINE one == 1
           m == n - 1
           f == SubSeq(q, one, m)
<1>1. n \in Nat /\ m \in Nat /\ m < n /\ m \in Int /\ one \in Int /\ one = 1
  BY LimbsAreInts
<1>2. Front(q) = f
  BY DEF Front
<1>3. \A i \in one .. m : q[i] \in Limb
  BY <1>1, LimbsAreInts
<1> HIDE DEF one, m
<1>4. /\ f \in Seq(Limb) /\ Len(f) = (IF one <= m THEN m - one + 1 ELSE 0)
      /\ \A i \in 1 .. m - one + 1 : f[i] = q[one + i - 1]
  BY <1>1, <1>3, SubSeqProperties
<1> HIDE DEF f
<1>5. Len(f) = m /\ m - one + 1 = m
  BY <1>1, <1>4
<1>6. Agree(f, q, m)
  <2>1. \A i \in 1 .. m : one + i - 1 = i
    BY <1>1
  <2> QED
    BY <1>4, <1>5, <2>1 DEF Agree
<1>7. f \in Seq(Int) /\ q \in Seq(Int)
  BY <1>4, LimbsAreInts
<1>8. LowValues(f)[m] = LowValues(q)[m]
  <2>1. m <= Len(f) /\ m <= Len(q)
    BY <1>1, <1>5
  <2> QED
    BY <1>1, <1>6, <1>7, <2>1, LowValuesAgree
<1>9. Magnitude(f) = LowValues(f)[m]
  BY <1>5 DEF Magnitude
<1>10. Magnitude(q) = LowValues(q)[m]
  <2> DEFINE w == LowValues(q)[m]
             p == Power(Base, m)
  <2>1. Magnitude(q) = w + 0 * p /\ w \in Nat /\ p \in Nat
    <3>1. Magnitude(q) = LowValues(q)[Len(q) - 1] + q[Len(q)] * Power(Base, Len(q) - 1)
      BY TopLimb
    <3>2. LowValues(q)[Len(q) - 1] \in Nat
      BY TopLimb
    <3> QED
      BY <1>1, <3>1, <3>2, Places DEF m
  <2> HIDE DEF w, p
  <2>2. w + 0 * p = w
    BY <2>1
  <2> QED
    BY <2>1, <2>2 DEF w
<1> QED
  BY <1>2, <1>4, <1>5, <1>8, <1>9, <1>10 DEF m

(***************************************************************************)
(* The quotient, without a top limb of 0, is shorter or less; of limbs in  *)
(* order it is in order.                                                   *)
(***************************************************************************)
LEMMA DecNextIs ==
  ASSUME NEW d \in Seq(Limb), Len(d) > 1, NEW x, x = DecNext(d), NEW r, r = DivChunk(d).r
  PROVE  /\ x \in LimbSeqs /\ r \in Nat /\ r < Chunk
         /\ Magnitude(d) = Magnitude(x) * Chunk + r
         /\ DecMeasure(x) \in Nat /\ DecMeasure(d) \in Nat /\ DecMeasure(x) < DecMeasure(d)
         /\ Normal(d) => Normal(x)
<1> DEFINE q == DivChunk(d).q
           n == Len(d)
           M == Magnitude(d)
           N == Magnitude(q)
           c == Chunk
<1>1. /\ q \in Seq(Limb) /\ Len(q) = n /\ r \in Nat /\ r < c
      /\ M = N * c + r
  BY DivChunkExact
<1>2. n \in Nat /\ n > 1 /\ M \in Nat
  BY MagnitudeBelow
<1>3. x = IF q[n] = 0 THEN Front(q) ELSE q
  BY <1>1 DEF DecNext, Last
<1> HIDE DEF q, n
<1>4. N \in Nat
  BY <1>1, MagnitudeBelow
<1>5. c \in Nat /\ c >= 10
  BY ChunkIs
<1> HIDE DEF M, N, c
<1>6. N * c >= N * 10 /\ N * c \in Nat
  BY <1>4, <1>5
<1> DEFINE nc == N * c
<1>7. nc >= N * 10 /\ nc \in Nat /\ M = nc + r
  BY <1>1, <1>6
<1> HIDE DEF nc
<1>8. N <= M /\ (N > 0 => N < M)
  BY <1>1, <1>4, <1>7
<1>9. CASE q[n] = 0
  <2>1. x \in Seq(Limb) /\ Len(x) = n - 1 /\ Magnitude(x) = N
    <3>1. x = Front(q)
      BY <1>3, <1>9
    <3>2. n = Len(q) /\ n > 0
      BY <1>1, <1>2
    <3>3. Front(q) \in Seq(Limb) /\ Len(Front(q)) = n - 1 /\ Magnitude(Front(q)) = Magnitude(q)
      BY <1>1, <1>9, <3>2, WithoutTop
    <3> QED
      BY <3>1, <3>3 DEF N
  <2>2. x # <<>>
    BY <1>2, <2>1, EmptySeq
  <2>3. DecMeasure(x) = N + (n - 1) /\ DecMeasure(d) = M + n
    BY <2>1 DEF DecMeasure, M, n
  <2>4. DecMeasure(x) \in Nat /\ DecMeasure(d) \in Nat /\ DecMeasure(x) < DecMeasure(d)
    BY <1>2, <1>4, <1>8, <2>3
  <2>5. ASSUME Normal(d) PROVE Normal(x)
    <3> DEFINE l == n - 1
               k == n - 2
               p == Power(Base, k)
               u == Power(Base, l)
    <3>1. k \in Nat /\ l = k + 1 /\ l \in Nat /\ Len(x) = l /\ Len(x) - 1 = k /\ Len(x) > 0
      BY <1>2, <2>1
    <3>2. u <= M
      BY <1>2, <2>5, NormalBounds DEF M, n
    <3>3. p \in Nat /\ p > 0 /\ u = Base * p
      BY <3>1, Places
    <3>4. x[Len(x)] # 0 <=> Power(Base, Len(x) - 1) <= Magnitude(x)
      BY <2>1, <3>1, TopLimb
    <3>5. x[Len(x)] # 0 <=> p <= N
      BY <2>1, <3>1, <3>4
    <3> HIDE DEF p, u, k, l
    <3>6. p <= N
      <4> SUFFICES ASSUME N < p PROVE FALSE
        BY <1>4, <3>3
      <4>1. (N + 1) * c <= p * c
        BY <1>4, <1>5, <3>3
      <4>2. (N + 1) * c = N * c + c
        BY <1>4, <1>5
      <4>3. c < Base /\ Base \in Nat
        BY ChunkIs, BaseAssumption DEF c
      <4>4. p * c <= p * Base /\ p * Base = Base * p
        BY <1>5, <3>3, <4>3
      <4> DEFINE pc == p * c
                 nn == (N + 1) * c
                 pb == p * Base
      <4>5. nn <= pc /\ nn = nc + c /\ pc <= pb /\ pb = u
        BY <3>3, <4>1, <4>2, <4>4 DEF nc
      <4>6. u \in Nat /\ pc \in Nat
        BY <1>5, <3>3, <4>3
      <4> HIDE DEF pc, nn, pb
      <4> QED
        BY <1>1, <1>2, <1>5, <1>7, <3>2, <4>5, <4>6
    <3> QED
      BY <2>1, <3>5, <3>6 DEF Normal
  <2> QED
    BY <1>1, <2>1, <2>2, <2>4, <2>5 DEF LimbSeqs, M, N, c
<1>10. CASE q[n] # 0
  <2>1. x = q
    BY <1>3, <1>10
  <2>2. x # <<>>
    BY <1>1, <1>2, <2>1, EmptySeq
  <2>3. DecMeasure(x) = N + n /\ DecMeasure(d) = M + n
    BY <1>1, <2>1 DEF DecMeasure, M, N, n
  <2>4. N > 0
    <3>1. Normal(q)
      BY <1>1, <1>10 DEF Normal
    <3> QED
      BY <1>1, <1>2, <3>1, NormalBounds DEF N
  <2>5. DecMeasure(x) \in Nat /\ DecMeasure(d) \in Nat /\ DecMeasure(x) < DecMeasure(d)
    BY <1>2, <1>4, <1>8, <2>3, <2>4
  <2>6. Normal(x)
    BY <1>1, <1>10, <2>1 DEF Normal
  <2> QED
    BY <1>1, <2>1, <2>2, <2>5, <2>6 DEF LimbSeqs, M, N, c
<1> QED
  BY <1>9, <1>10

\* The digits of a single limb.
LEMMA DecLimb ==
  ASSUME NEW v \in Nat, NEW s, s = DigitsOf(v, 10, DecLen(v))
  PROVE  /\ s \in Seq(0 .. 9) /\ Len(s) \in Nat /\ DigitsValue(10, s) = v
         /\ v > 0 => Len(s) > 0 /\ Power(10, Len(s) - 1) <= v
<1> DEFINE r == 10
           k == DigitCount(r, v)
<1>1. r \in Nat /\ r > 1 /\ 0 .. r - 1 = 0 .. 9 /\ DecLen(v) = k
  BY DEF DecLen
<1>2. s = DigitsOf(v, r, k)
  BY <1>1
<1> HIDE DEF r
<1>3. k \in Nat /\ v < Power(r, k) /\ (v > 0 => k > 0 /\ Power(r, k - 1) <= v)
  <2>1. CASE v = 0
    <3>1. k = 0
      BY <1>1, <2>1, DigitCountIs
    <3>2. Power(r, 0) = 1
      BY <1>1, PowerIs
    <3> HIDE DEF k
    <3> QED
      BY <2>1, <3>1, <3>2
  <2>2. CASE v # 0
    <3>1. v \in Nat \ {0}
      BY <2>2
    <3>2. k \in Nat \ {0} /\ v < Power(r, k) /\ Power(r, k - 1) <= v
      BY <1>1, <3>1, DigitCountBounds
    <3> HIDE DEF k
    <3> QED
      BY <3>2
  <2> QED
    BY <2>1, <2>2
<1> HIDE DEF k
<1>4. s \in Seq(0 .. r - 1) /\ Len(s) = k /\ DigitsValue(r, s) = v
  BY <1>1, <1>2, <1>3, DigitsOfIs
<1>5. s \in Seq(0 .. 9)
  BY <1>1, <1>4
<1> QED
  BY <1>3, <1>4, <1>5 DEF r

\* The digits of a chunk.
LEMMA ChunkDigits ==
  ASSUME NEW v \in Nat, v < Chunk
  PROVE  ChunkText(v) \in Seq(0 .. 9) /\ Len(ChunkText(v)) = DecDigits /\ DigitsValue(10, ChunkText(v)) = v
<1> DEFINE r == 10
           s == DigitsOf(v, r, DecDigits)
<1>1. r \in Nat /\ r > 1 /\ 0 .. r - 1 = 0 .. 9 /\ DecDigits \in Nat /\ v < Power(r, DecDigits)
  BY ChunkIs DEF Chunk
<1>2. ChunkText(v) = s
  BY DEF ChunkText
<1> HIDE DEF r
<1>3. s \in Seq(0 .. r - 1) /\ Len(s) = DecDigits /\ DigitsValue(r, s) = v
  BY <1>1, DigitsOfIs
<1>4. s \in Seq(0 .. 9)
  BY <1>1, <1>3
<1> QED
  BY <1>2, <1>3, <1>4 DEF r

\* The texts are what the recursive function of DecDigitsOf gives.
LEMMA DecTextsExist ==
  \E text : /\ \A d \in LimbSeqs : text[d] = DecBody(d, text)
            /\ \A d \in LimbSeqs : DecDigitsOf(d) = text[d]
<1> DEFINE D == LimbSeqs
           R == Seq(0 .. 9)
           m == [d \in D |-> DecMeasure(d)]
           F == [p \in D \X [D -> R] |-> DecBody(p[1], p[2])]
           Body(t) == [d \in D |-> DecBody(d, t)]
           text == CHOOSE t : t = Body(t)
<1>1. \A d \in D : DecDigitsOf(d) = text[d]
  BY DEF DecDigitsOf, DecBody, DecNext, LimbSeqs
<1>2. \A d \in D : d \in Seq(Limb) /\ Len(d) \in Nat /\ Len(d) > 0
  BY EmptySeq, LenProperties DEF LimbSeqs
<1>3. m \in [D -> Nat] /\ \A d \in D : m[d] = DecMeasure(d)
  <2> SUFFICES ASSUME NEW d \in D PROVE DecMeasure(d) \in Nat
    OBVIOUS
  <2>1. Magnitude(d) \in Nat /\ Len(d) \in Nat
    BY <1>2, MagnitudeBelow
  <2> QED
    BY <2>1 DEF DecMeasure
<1>4. \A d \in D, g \in [D -> R] : F[<<d, g>>] = DecBody(d, g)
  OBVIOUS
<1>5. ASSUME NEW d \in D, Len(d) # 1
      PROVE  DecNext(d) \in D /\ m[DecNext(d)] < m[d] /\ DivChunk(d).r \in Nat /\ DivChunk(d).r < Chunk
  <2>1. d \in Seq(Limb) /\ Len(d) > 1
    <3> DEFINE n == Len(d)
    <3>1. d \in Seq(Limb) /\ n \in Nat /\ n > 0
      BY <1>2
    <3>2. n # 1
      BY <1>5
    <3> HIDE DEF n
    <3>3. n > 1
      BY <3>1, <3>2
    <3> QED
      BY <3>1, <3>3 DEF n
  <2>2. /\ DecNext(d) \in LimbSeqs /\ DivChunk(d).r \in Nat /\ DivChunk(d).r < Chunk
        /\ DecMeasure(DecNext(d)) < DecMeasure(d)
    BY <2>1, DecNextIs
  <2> HIDE DEF m
  <2> QED
    BY <1>3, <2>2
<1>6. ASSUME NEW d \in D, NEW g \in [D -> R] PROVE DecBody(d, g) \in R
  <2>1. CASE Len(d) = 1
    <3> DEFINE v == d[1]
               s == DigitsOf(v, 10, DecLen(v))
    <3>1. v \in Nat
      <4>1. 1 \in 1 .. Len(d) /\ d \in Seq(Limb)
        BY <1>2, <2>1
      <4>2. d[1] \in Limb
        BY <4>1, ElementOfSeq
      <4> QED
        BY <4>2, LimbsAreInts
    <3>2. DecBody(d, g) = s
      BY <2>1 DEF DecBody
    <3> HIDE DEF v
    <3>3. s \in R
      BY <3>1, DecLimb
    <3> QED
      BY <3>2, <3>3
  <2>2. CASE Len(d) # 1
    <3> DEFINE x == g[DecNext(d)]
               y == ChunkText(DivChunk(d).r)
    <3>1. x \in R
      BY <1>5, <2>2
    <3>2. y \in R
      BY <1>5, <2>2, ChunkDigits
    <3>3. DecBody(d, g) = x \o y
      BY <2>2 DEF DecBody
    <3> HIDE DEF x, y
    <3>4. x \o y \in R
      BY <3>1, <3>2, ConcatProperties
    <3> QED
      BY <3>3, <3>4
  <2> QED
    BY <2>1, <2>2
<1>7. F \in [D \X [D -> R] -> R]
  BY <1>6
<1>8. LooksBelow(D, R, m, F)
  <2> SUFFICES ASSUME NEW d \in D, NEW g \in [D -> R], NEW h \in [D -> R],
                      \A e \in D : m[e] < m[d] => g[e] = h[e]
               PROVE  F[<<d, g>>] = F[<<d, h>>]
    BY DEF LooksBelow
  <2>1. F[<<d, g>>] = DecBody(d, g) /\ F[<<d, h>>] = DecBody(d, h)
    BY <1>4
  <2> HIDE DEF F, m
  <2>2. CASE Len(d) = 1
    BY <2>1, <2>2 DEF DecBody
  <2>3. CASE Len(d) # 1
    <3>1. g[DecNext(d)] = h[DecNext(d)]
      BY <1>5, <2>3
    <3> QED
      BY <2>1, <2>3, <3>1 DEF DecBody
  <2> QED
    BY <2>2, <2>3
<1>9. R # {}
  <2>1. <<>> \in R
    BY EmptySeq
  <2> QED
    BY <2>1
<1> HIDE DEF F, m
<1>10. Solvable(D, R, F)
  BY <1>3, <1>7, <1>8, <1>9, RecursionSolved
<1>11. PICK f \in [D -> R] : \A d \in D : f[d] = F[<<d, f>>]
  BY <1>10 DEF Solvable
<1>12. f = Body(f)
  BY <1>4, <1>11
<1>13. text = Body(text)
  <2> HIDE DEF Body
  <2> QED
    BY <1>12
<1> HIDE DEF text
<1>14. \A d \in D : text[d] = DecBody(d, text)
  BY <1>13
<1> QED
  BY <1>1, <1>14

\* s are the digits of the limbs of d, and no more of them than it takes.
DigitsFor(d, s) ==
  /\ s \in Seq(0 .. 9) /\ DigitsValue(10, s) = Magnitude(d)
  /\ Normal(d) => Len(s) > 0 /\ Power(10, Len(s) - 1) <= Magnitude(d)

\* The digits of the quotient, and those of the chunk that is left.
LEMMA DecStep ==
  ASSUME NEW d \in Seq(Limb), Len(d) > 1, NEW x, DigitsFor(DecNext(d), x),
         NEW s, s = x \o ChunkText(DivChunk(d).r)
  PROVE  DigitsFor(d, s)
<1> DEFINE e == DecNext(d)
           r == DivChunk(d).r
           y == ChunkText(r)
           N == Magnitude(e)
           M == Magnitude(d)
           c == Chunk
           k == DecDigits
           ten == 10
           l == Len(x)
<1>1. e \in LimbSeqs /\ r \in Nat /\ r < c /\ M = N * c + r /\ (Normal(d) => Normal(e))
  BY DecNextIs
<1>2. y \in Seq(0 .. 9) /\ Len(y) = k /\ DigitsValue(ten, y) = r
  BY <1>1, ChunkDigits
<1>3. /\ x \in Seq(0 .. 9) /\ DigitsValue(ten, x) = N
      /\ Normal(e) => l > 0 /\ Power(ten, l - 1) <= N
  BY DEF DigitsFor
<1>4. s = x \o y
  OBVIOUS
<1>5. c \in Nat /\ c > 0 /\ k \in Nat /\ c = Power(ten, k)
  BY ChunkIs DEF Chunk
<1>6. ten \in Nat /\ ten \in Nat \ {0}
  OBVIOUS
<1>7. N \in Nat /\ l \in Nat
  BY <1>1, <1>3, MagnitudeBelow, LenProperties DEF LimbSeqs
<1> HIDE DEF e, r, y, N, c, k, ten
<1>8. s \in Seq(0 .. 9)
  BY <1>2, <1>3, <1>4, ConcatProperties
<1>9. Len(s) = l + k /\ DigitsValue(ten, s) = N * c + r
  <2>1. x \in Seq(Nat) /\ y \in Seq(Nat)
    <3>1. 0 .. 9 \subseteq Nat
      OBVIOUS
    <3> QED
      BY <1>2, <1>3, <3>1, SeqMonotonic
  <2>2. /\ Len(x \o y) = Len(x) + Len(y)
        /\ DigitsValue(ten, x \o y) = DigitsValue(ten, x) * Power(ten, Len(y)) + DigitsValue(ten, y)
    BY <1>6, <2>1, DigitsValueConcat
  <2> QED
    BY <1>2, <1>3, <1>4, <1>5, <2>2
<1> HIDE DEF M, l
<1>10. ASSUME Normal(d) PROVE Len(s) > 0 /\ Power(ten, Len(s) - 1) <= M
  <2> DEFINE j == l - 1
             p == Power(ten, j)
  <2>1. l > 0 /\ p <= N
    BY <1>1, <1>3, <1>10
  <2>2. j \in Nat /\ Len(s) > 0 /\ Len(s) - 1 = j + k
    BY <1>5, <1>7, <1>9, <2>1
  <2> HIDE DEF j
  <2>3. p \in Nat
    BY <1>6, <2>2, PowerPositive
  <2>4. Power(ten, j + k) = p * c
    BY <1>5, <1>6, <2>2, PowerAdds
  <2> HIDE DEF p
  <2> DEFINE pc == p * c
             nc == N * c
  <2>5. pc <= nc /\ pc \in Nat /\ nc \in Nat
    BY <1>5, <1>7, <2>1, <2>3
  <2>6. M = nc + r
    BY <1>1
  <2>7. Power(ten, j + k) = pc
    BY <2>4
  <2> HIDE DEF pc, nc
  <2>8. pc <= M
    BY <1>1, <2>5, <2>6
  <2> QED
    BY <2>2, <2>7, <2>8
<1>11. DigitsValue(ten, s) = M
  BY <1>1, <1>9
<1> QED
  BY <1>8, <1>10, <1>11 DEF DigitsFor, M, ten

(***************************************************************************)
(* number_getdec writes the digits of the magnitude.                       *)
(***************************************************************************)
LEMMA DecDigitsAre ==
  ASSUME NEW d \in LimbSeqs
  PROVE  DigitsFor(d, DecDigitsOf(d))
<1>1. PICK text : /\ \A e \in LimbSeqs : text[e] = DecBody(e, text)
                  /\ \A e \in LimbSeqs : DecDigitsOf(e) = text[e]
  BY DecTextsExist
<1> DEFINE T == {k \in Nat : \A e \in LimbSeqs : DecMeasure(e) = k => DigitsFor(e, text[e])}
<1>2. \A e \in LimbSeqs : e \in Seq(Limb) /\ Len(e) \in Nat /\ Len(e) > 0
  BY EmptySeq, LenProperties DEF LimbSeqs
<1>3. ASSUME NEW k \in Nat, \A l \in Nat : l < k => l \in T PROVE k \in T
  <2> SUFFICES ASSUME NEW e \in LimbSeqs, DecMeasure(e) = k PROVE DigitsFor(e, text[e])
    OBVIOUS
  <2>1. e \in Seq(Limb) /\ text[e] = DecBody(e, text)
    BY <1>1, <1>2
  <2>2. CASE Len(e) = 1
    <3> DEFINE v == e[1]
               s == DigitsOf(v, 10, DecLen(v))
    <3>1. v \in Nat
      <4>1. 1 \in 1 .. Len(e)
        BY <2>2
      <4>2. e[1] \in Limb
        BY <2>1, <4>1, ElementOfSeq
      <4> QED
        BY <4>2, LimbsAreInts
    <3>2. text[e] = s
      BY <2>1, <2>2 DEF DecBody
    <3>3. Magnitude(e) = v
      <4> DEFINE w == LowValues(e)[0]
      <4>1. e \in Seq(Int) /\ Len(e) > 0 /\ Len(e) - 1 = 0
        BY <2>1, <2>2, LimbsAreInts
      <4>2. Magnitude(e) = w + v * Power(Base, 0) /\ w = 0 /\ Power(Base, 0) = 1
        BY <2>1, <2>2, <4>1, TopLimb, LowValuesAre, Places
      <4> HIDE DEF v, w
      <4> QED
        BY <3>1, <4>2
    <3>4. Normal(e) => v > 0
      <4>1. Normal(e) => v # 0
        BY <2>2 DEF Normal
      <4> HIDE DEF v
      <4> QED
        BY <3>1, <4>1
    <3> HIDE DEF v
    <3>5. /\ s \in Seq(0 .. 9) /\ Len(s) \in Nat /\ DigitsValue(10, s) = v
          /\ v > 0 => Len(s) > 0 /\ Power(10, Len(s) - 1) <= v
      BY <3>1, DecLimb
    <3> HIDE DEF s
    <3> QED
      BY <3>2, <3>3, <3>4, <3>5 DEF DigitsFor
  <2>3. CASE Len(e) # 1
    <3> DEFINE f == DecNext(e)
               x == text[f]
    <3>1. Len(e) > 1
      <4> DEFINE n == Len(e)
      <4>1. n \in Nat /\ n > 0 /\ n # 1
        BY <1>2, <2>3
      <4> HIDE DEF n
      <4>2. n > 1
        BY <4>1
      <4> QED
        BY <4>2 DEF n
    <3>2. f \in LimbSeqs /\ DecMeasure(f) \in Nat /\ DecMeasure(f) < DecMeasure(e)
      BY <2>1, <3>1, DecNextIs
    <3>3. DecMeasure(f) \in T
      BY <1>3, <3>2
    <3>4. DigitsFor(f, x)
      BY <3>2, <3>3
    <3>5. text[e] = x \o ChunkText(DivChunk(e).r)
      BY <2>1, <2>3 DEF DecBody
    <3> HIDE DEF T, x, f
    <3> DEFINE s == text[e]
    <3>6. s = x \o ChunkText(DivChunk(e).r)
      BY <3>5
    <3>7. DigitsFor(DecNext(e), x)
      BY <3>4 DEF f
    <3> HIDE DEF s
    <3>8. DigitsFor(e, s)
      BY <2>1, <3>1, <3>6, <3>7, DecStep
    <3> QED
      BY <3>8 DEF s
  <2> QED
    BY <2>2, <2>3
<1>4. T = Nat
  <2>1. T \in SUBSET Nat
    OBVIOUS
  <2> HIDE DEF T
  <2> QED
    BY <1>3, <2>1, NatInductBelow
<1>5. DecMeasure(d) \in Nat
  <2>1. Magnitude(d) \in Nat /\ Len(d) \in Nat
    BY <1>2, MagnitudeBelow
  <2> QED
    BY <2>1 DEF DecMeasure
<1>6. DigitsFor(d, text[d])
  BY <1>4, <1>5
<1> QED
  BY <1>1, <1>6

(***************************************************************************)
(* What number_getdec writes is read back as the number, and there is room *)
(* for it.                                                                 *)
(***************************************************************************)
LEMMA DecReadBack ==
  ASSUME NEW n, NumOK(n)
  PROVE  SetStr(DecText(n)).n = n /\ Len(DecText(n)) <= DecRoom(n)
<1> DEFINE t == DecText(n)
           g == SignText(n)
           r == 10
           d == n.d
<1>1. r \in {10, 16} /\ 0 .. r - 1 = 0 .. 9 /\ PrefixText(r) = <<>> /\ r \in Nat /\ r > 1
  BY DEF PrefixText
<1>2. g \in Seq(Nat) /\ Len(g) = SignChars(n) /\ SignChars(n) \in {0, 1} /\ (n.s = 0 => g = <<>> /\ SignChars(n) = 0)
  <2>1. CASE n.s < 0
    <3>1. g = <<Minus>> /\ SignChars(n) = 1 /\ Minus \in Nat
      BY <2>1 DEF SignText, SignChars, Minus
    <3> QED
      BY <2>1, <3>1
  <2>2. CASE ~(n.s < 0)
    <3>1. g = <<>> /\ SignChars(n) = 0
      BY <2>2 DEF SignText, SignChars
    <3> QED
      BY <3>1, EmptySeq
  <2> QED
    BY <2>1, <2>2
<1>3. g \o PrefixText(r) = g
  BY <1>1, <1>2, ConcatEmptySeq
<1>5. n.s \in Int /\ d \in Seq(Limb) /\ Normal(d) /\ Len(d) \in Nat /\ (n.s = 0 <=> Len(d) = 0)
  BY NumParts
<1>6. CASE n.s = 0
  <2> DEFINE z == 0
             ds == <<z>>
  <2>1. t = ds /\ DecRoom(n) = 1
    BY <1>6 DEF DecText, DecRoom
  <2>2. ds \in Seq(0 .. 9) /\ ds \in Seq(Nat) /\ Len(ds) = 1
    OBVIOUS
  <2>3. Magnitude(d) = 0
    <3>1. d = <<>>
      BY <1>5, <1>6, EmptySeq
    <3> QED
      BY <3>1, ZeroOK
  <2>4. z \in Nat /\ z = 0
    OBVIOUS
  <2> HIDE DEF z
  <2>5. DigitsValue(r, ds) = z
    BY <1>1, <2>4, DigitsValueOne
  <2> HIDE DEF ds, t, g, r
  <2>6. <<>> \o ds = ds
    BY <2>2, ConcatEmptySeq
  <2>7. t = g \o PrefixText(r) \o ds
    BY <1>2, <1>3, <1>6, <2>1, <2>6
  <2>8. ds \in Seq(0 .. r - 1) /\ Len(ds) > 0 /\ DigitsValue(r, ds) = Magnitude(n.d)
    BY <1>1, <2>2, <2>3, <2>4, <2>5
  <2>9. SetStr(t).n = n
    <3>1. r \in {10, 16}
      BY <1>1
    <3>2. t = SignText(n) \o PrefixText(r) \o ds
      BY <2>7 DEF g
    <3> QED
      BY <2>8, <3>1, <3>2, TextRead
  <2>10. Len(t) <= DecRoom(n)
    BY <2>1, <2>2
  <2> QED
    BY <2>9, <2>10 DEF t
<1>7. CASE n.s # 0
  <2> DEFINE ds == DecDigitsOf(d)
             M == Magnitude(d)
             L == DecLen(Power(2, Bits(n)))
  <2>1. t = g \o ds /\ DecRoom(n) = L + Len(g)
    BY <1>7 DEF DecText, DecRoom
  <2>2. d \in LimbSeqs
    BY <1>5, <1>7, EmptySeq DEF LimbSeqs
  <2>3. DigitsFor(d, ds)
    BY <2>2, DecDigitsAre
  <2>4. ds \in Seq(0 .. 9) /\ DigitsValue(r, ds) = M /\ Len(ds) > 0 /\ Power(r, Len(ds) - 1) <= M
    BY <1>5, <2>3 DEF DigitsFor
  <2>5. Len(ds) \in Nat
    BY <2>4, LenProperties
  <2>6. M \in Nat /\ M < Power(2, Bits(n)) /\ Power(2, Bits(n)) \in Nat
    BY <1>5, <1>7, BitsAre, MagnitudeBelow, TwoPower
  <2>7. L \in Nat /\ Power(2, Bits(n)) < Power(r, L)
    <3> DEFINE v == Power(2, Bits(n))
    <3>1. v \in Nat \ {0}
      BY <2>6
    <3> HIDE DEF v, r
    <3>2. DigitCount(r, v) \in Nat \ {0} /\ v < Power(r, DigitCount(r, v))
      BY <1>1, <3>1, DigitCountBounds
    <3> QED
      BY <3>2 DEF DecLen, v, r
  <2> HIDE DEF ds, t, g, r, L
  <2>8. t = g \o PrefixText(r) \o ds
    BY <1>3, <2>1
  <2>9. SetStr(t).n = n /\ Len(t) = SignChars(n) + Len(ds)
    <3>1. r \in {10, 16}
      BY <1>1
    <3>2. t = SignText(n) \o PrefixText(r) \o ds
      BY <2>8 DEF g
    <3>3. ds \in Seq(0 .. r - 1)
      BY <1>1, <2>4
    <3>4. Len(ds) > 0 /\ DigitsValue(r, ds) = Magnitude(n.d)
      BY <2>4
    <3>5. SetStr(t).n = n
      BY <3>1, <3>2, <3>3, <3>4, TextRead, ZenonT(40)
    <3>6. Len(t) = SignChars(n) + Len(ds)
      <4>1. ds \in Seq(Nat)
        <5>1. 0 .. 9 \subseteq Nat
          OBVIOUS
        <5> QED
          BY <2>4, <5>1, SeqMonotonic
      <4>2. g \in Seq(Nat)
        BY <1>2
      <4>3. Len(g \o ds) = Len(g) + Len(ds)
        BY <4>1, <4>2, ConcatProperties
      <4> QED
        BY <1>2, <2>1, <4>3
    <3> QED
      BY <3>5, <3>6
  <2>10. Len(ds) <= L
    <3> DEFINE j == Len(ds) - 1
               p == Power(r, j)
               u == Power(r, L)
    <3>1. j \in Nat /\ Len(ds) = j + 1
      BY <2>4, <2>5
    <3>2. p <= M
      BY <2>4
    <3> HIDE DEF j
    <3>3. p \in Nat /\ u \in Nat
      BY <1>1, <2>7, <3>1, PowerIs
    <3>4. p < u
      <4> HIDE DEF p, u, M
      <4>1. Power(2, Bits(n)) < u
        BY <2>7 DEF u
      <4> QED
        BY <2>6, <3>2, <3>3, <4>1
    <3>5. j < L
      BY <1>1, <2>7, <3>1, <3>4, PowerReflects
    <3> QED
      BY <2>7, <3>1, <3>5
  <2>11. Len(t) <= DecRoom(n)
    BY <1>2, <2>1, <2>5, <2>7, <2>9, <2>10
  <2> QED
    BY <2>9, <2>11 DEF t
<1> QED
  BY <1>6, <1>7

(***************************************************************************)
(* What number_gethex and number_getdec write is read back as the number,  *)
(* whatever was calculated.                                                *)
(***************************************************************************)
THEOREM TextsRoundTrip == Spec => []TextRoundTrips
<1>1. NumbersOK => TextRoundTrips
  <2> SUFFICES ASSUME NumOK(num)
               PROVE  /\ SetStr(HexText(num)).n = num
                      /\ SetStr(DecText(num)).n = num
                      /\ Len(DecText(num)) <= DecRoom(num)
    BY DEF NumbersOK, TextRoundTrips
  <2> QED
    BY HexReadBack, DecReadBack
<1> QED
  BY <1>1, NumbersInOrder, PTL

=============================================================================

---------------------- MODULE NetworkPreparationProofs ----------------------
(***************************************************************************)
(* The preparation of a network, for every finite set of junctions, any    *)
(* requests and any number of demand points and demands.                   *)
(*                                                                         *)
(* The inductive invariant follows the stages.  While points are           *)
(* projected, each junction has its own demands and after them what the    *)
(* points so far give: in every category and pattern the sum is its own    *)
(* and its shares, counted in parts of a pipe.  The magnitudes of what was *)
(* added bound every amount that compaction produces, so a demand that     *)
(* overflows has its cause in the request.  That the shares of a point     *)
(* give all of it away is what validation says of its attachment; without  *)
(* the check that both ends are enabled junctions a part would be lost.    *)
(*                                                                         *)
(* Total, Compacted and EnabledPoints are recursive functions; what they   *)
(* compute is shown by induction over the set of numbers for which it      *)
(* holds (SetInduction).                                                   *)
(***************************************************************************)
EXTENDS NetworkPreparation, FiniteSetTheorems, SequenceTheorems, WellFoundedInduction, TLAPS

-----------------------------------------------------------------------------
(* Sums of sequences.  Total is a recursive function: it exists and is     *)
(* unfolded by induction over sets of numbers.                             *)

(* Induction over the numbers, for a set.                                  *)
LEMMA SetInduction ==
  ASSUME NEW T, 0 \in T, \A n \in Nat : n \in T => n + 1 \in T
  PROVE  \A n \in Nat : n \in T
<1> DEFINE R == OpToRel(<, Nat)
           B == {n \in Nat : n \notin T}
<1>1. IsWellFoundedOn(R, Nat)
  BY NatLessThanWellFounded
<1>2. \A x, y \in Nat : <<x, y>> \in R <=> x < y
  BY DEF OpToRel
<1> HIDE DEF R
<1>3. SUFFICES ASSUME B # {} PROVE FALSE
  OBVIOUS
<1>4. B \subseteq Nat
  OBVIOUS
<1> HIDE DEF B
<1>5. PICK x \in B : \A y \in B : ~ (<<y, x>> \in R)
  BY <1>1, <1>3, <1>4, WFMin
<1>6. x \in Nat /\ x \notin T /\ x # 0
  BY <1>5 DEF B
<1>7. x - 1 \in Nat /\ x - 1 < x
  BY <1>6
<1>8. x - 1 \in T
  BY <1>2, <1>5, <1>6, <1>7 DEF B
<1>9. QED
  BY <1>6, <1>7, <1>8

(* The partial sums of a sequence.                                         *)
IsSum(f, s, n) == f = [k \in 0 .. n |-> IF k = 0 THEN 0 ELSE f[k - 1] + s[k]]

(* The function that Total chooses exists.                                 *)
LEMMA SumExists ==
  ASSUME NEW s
  PROVE  \A n \in Nat : \E f : IsSum(f, s, n)
<1> DEFINE T == {n \in Nat : \E f : IsSum(f, s, n)}
<1>1. 0 \in T
  <2>1. IsSum([k \in 0 .. 0 |-> 0], s, 0)
    BY DEF IsSum
  <2>2. QED
    BY <2>1
<1>2. \A n \in Nat : n \in T => n + 1 \in T
  <2> SUFFICES ASSUME NEW n \in Nat, NEW f, IsSum(f, s, n)
               PROVE  \E g : IsSum(g, s, n + 1)
    OBVIOUS
  <2> DEFINE e == n + 1
             g == [k \in 0 .. n + 1 |-> IF k = e THEN f[e - 1] + s[e] ELSE f[k]]
  <2>1. \A k \in 0 .. n : f[k] = IF k = 0 THEN 0 ELSE f[k - 1] + s[k]
    BY DEF IsSum
  <2>2. \A k \in 0 .. n + 1 : g[k] = IF k = 0 THEN 0 ELSE g[k - 1] + s[k]
    <3> SUFFICES ASSUME NEW k \in 0 .. n + 1
                 PROVE  g[k] = IF k = 0 THEN 0 ELSE g[k - 1] + s[k]
      OBVIOUS
    <3>1. CASE k = e
      <4>1. g[k] = f[e - 1] + s[e] /\ g[k - 1] = f[e - 1] /\ k # 0
        BY <3>1
      <4>2. QED
        BY <3>1, <4>1
    <3>2. CASE k # e
      <4>1. k \in 0 .. n /\ g[k] = f[k] /\ (k # 0 => g[k - 1] = f[k - 1])
        BY <3>2
      <4>2. QED
        BY <2>1, <4>1
    <3>3. QED
      BY <3>1, <3>2
  <2>3. IsSum(g, s, n + 1)
    BY <2>2 DEF IsSum
  <2>4. QED
    BY <2>3
<1> HIDE DEF T
<1>3. \A n \in Nat : n \in T
  BY <1>1, <1>2, SetInduction
<1>4. QED
  BY <1>3 DEF T

(* What is summed up step by step is the total.                            *)
LEMMA TotalIs ==
  ASSUME NEW s \in Seq(Int), NEW g, g[0] = 0, \A k \in 1 .. Len(s) : g[k] = g[k - 1] + s[k]
  PROVE  Total(s) = g[Len(s)]
<1> DEFINE n == Len(s)
           f == CHOOSE h : IsSum(h, s, n)
           T == {k \in Nat : k <= n => f[k] = g[k]}
<1>1. n \in Nat
  OBVIOUS
<1>2. IsSum(f, s, n)
  BY <1>1, SumExists
<1>3. Total(s) = f[n]
  BY DEF Total, IsSum
<1> HIDE DEF f, n
<1>4. \A k \in 0 .. n : f[k] = IF k = 0 THEN 0 ELSE f[k - 1] + s[k]
  BY <1>2 DEF IsSum
<1>5. 0 \in T
  BY <1>1, <1>4
<1>6. \A k \in Nat : k \in T => k + 1 \in T
  <2> SUFFICES ASSUME NEW k \in Nat, k \in T, k + 1 <= n
               PROVE  f[k + 1] = g[k + 1]
    OBVIOUS
  <2>1. f[k] = g[k] /\ k + 1 \in 0 .. n /\ k + 1 \in 1 .. n /\ k + 1 # 0 /\ (k + 1) - 1 = k
    BY <1>1
  <2>2. QED
    BY <1>4, <2>1 DEF n
<1> HIDE DEF T
<1>7. \A k \in Nat : k \in T
  BY <1>5, <1>6, SetInduction
<1>8. QED
  BY <1>1, <1>3, <1>7 DEF T, n

(* The other way round: every total has its partial sums.                  *)
LEMMA PartialSums ==
  ASSUME NEW s \in Seq(Int)
  PROVE  \E f \in [0 .. Len(s) -> Int] :
            f[0] = 0 /\ (\A k \in 1 .. Len(s) : f[k] = f[k - 1] + s[k]) /\ Total(s) = f[Len(s)]
<1> DEFINE n == Len(s)
<1>1. n \in Nat
  OBVIOUS
<1>2. PICK f : IsSum(f, s, n)
  BY <1>1, SumExists
<1>3. \A k \in 0 .. n : f[k] = IF k = 0 THEN 0 ELSE f[k - 1] + s[k]
  BY <1>2 DEF IsSum
<1> DEFINE T == {k \in Nat : k <= n => f[k] \in Int}
<1>4. 0 \in T
  BY <1>1, <1>3
<1>5. \A k \in Nat : k \in T => k + 1 \in T
  <2> SUFFICES ASSUME NEW k \in Nat, k \in T, k + 1 <= n
               PROVE  f[k + 1] \in Int
    OBVIOUS
  <2>1. f[k] \in Int /\ k + 1 \in 0 .. n /\ k + 1 \in 1 .. n /\ k + 1 # 0 /\ (k + 1) - 1 = k
    BY <1>1
  <2>2. s[k + 1] \in Int
    BY <2>1
  <2>3. QED
    BY <1>3, <2>1, <2>2
<1>6. \A k \in Nat : k \in T
  <2> HIDE DEF T
  <2>1. QED
    BY <1>4, <1>5, SetInduction
<1>7. \A k \in 0 .. n : f[k] \in Int
  BY <1>1, <1>6
<1>8. f \in [0 .. n -> Int]
  BY <1>2, <1>7 DEF IsSum
<1>9. f[0] = 0 /\ \A k \in 1 .. n : f[k] = f[k - 1] + s[k]
  BY <1>1, <1>3
<1>10. Total(s) = f[n]
  BY <1>9, TotalIs DEF n
<1>11. QED
  BY <1>8, <1>9, <1>10

(* A sum of integers is an integer.                                        *)
LEMMA TotalIsInt ==
  ASSUME NEW s \in Seq(Int)
  PROVE  Total(s) \in Int
<1>1. PICK f \in [0 .. Len(s) -> Int] : Total(s) = f[Len(s)]
  BY PartialSums
<1>2. Len(s) \in 0 .. Len(s)
  OBVIOUS
<1>3. QED
  BY <1>1, <1>2

(* The sum of nothing.                                                     *)
LEMMA TotalOfNothing == Total(<<>>) = 0
<1>1. <<>> \in Seq(Int) /\ Len(<<>>) = 0
  BY EmptySeq
<1>2. PICK f \in [0 .. Len(<<>>) -> Int] : f[0] = 0 /\ Total(<<>>) = f[Len(<<>>)]
  BY <1>1, PartialSums
<1>3. QED
  BY <1>1, <1>2

(* Total adds over concatenation.                                          *)
LEMMA TotalOfConcat ==
  ASSUME NEW s \in Seq(Int), NEW t \in Seq(Int)
  PROVE  Total(s \o t) = Total(s) + Total(t)
<1> DEFINE m == Len(s)
           n == Len(t)
<1>1. PICK f \in [0 .. m -> Int] :
         f[0] = 0 /\ (\A k \in 1 .. m : f[k] = f[k - 1] + s[k]) /\ Total(s) = f[m]
  BY PartialSums
<1>2. PICK h \in [0 .. n -> Int] :
         h[0] = 0 /\ (\A k \in 1 .. n : h[k] = h[k - 1] + t[k]) /\ Total(t) = h[n]
  BY PartialSums
<1>3. m \in Nat /\ n \in Nat /\ \A k \in 1 .. n : t[k] \in Int
  OBVIOUS
<1>4. s \o t \in Seq(Int) /\ Len(s \o t) = m + n
      /\ \A i \in 1 .. m + n : (s \o t)[i] = IF i <= m THEN s[i] ELSE t[i - m]
  BY ConcatProperties
<1> DEFINE g == [k \in 0 .. m + n |-> IF k <= m THEN f[k] ELSE f[m] + h[k - m]]
<1> HIDE DEF m, n
<1>5. \A k \in 0 .. m + n : g[k] = IF k <= m THEN f[k] ELSE f[m] + h[k - m]
  OBVIOUS
<1> HIDE DEF g
<1>6. g[0] = 0 /\ g[m + n] = f[m] + h[n]
  <2>1. 0 \in 0 .. m + n /\ m + n \in 0 .. m + n /\ 0 <= m /\ (m + n) - m = n
        /\ (m + n <= m => n = 0 /\ m + n = m) /\ m \in 0 .. m /\ n \in 0 .. n
    BY <1>3
  <2>2. g[0] = 0
    BY <1>1, <1>5, <2>1
  <2>3. f[m] \in Int /\ h[n] \in Int
    BY <2>1
  <2>4. CASE m + n <= m
    BY <1>2, <1>5, <2>1, <2>2, <2>3, <2>4
  <2>5. CASE ~(m + n <= m)
    BY <1>5, <2>1, <2>2, <2>5
  <2>6. QED
    BY <2>4, <2>5
<1>7. \A k \in 1 .. m + n : g[k] = g[k - 1] + (s \o t)[k]
  <2> SUFFICES ASSUME NEW k \in 1 .. m + n
               PROVE  g[k] = g[k - 1] + (s \o t)[k]
    OBVIOUS
  <2> k \in Int /\ k - 1 \in 0 .. m + n /\ k \in 0 .. m + n
    BY <1>3
  <2>1. CASE k <= m
    <3>1. k - 1 <= m /\ k \in 1 .. m
      BY <1>3, <2>1
    <3>2. g[k] = f[k] /\ g[k - 1] = f[k - 1] /\ (s \o t)[k] = s[k]
      BY <1>4, <1>5, <2>1, <3>1
    <3>3. QED
      BY <1>1, <3>1, <3>2
  <2>2. CASE k = m + 1
    <3>1. ~(k <= m) /\ k - 1 = m /\ k - m = 1 /\ 1 \in 1 .. n /\ m <= m
      BY <1>3, <2>2
    <3>2. g[k] = f[m] + h[1] /\ g[k - 1] = f[m]
      BY <1>5, <3>1
    <3>3. (s \o t)[k] = t[1]
      BY <1>4, <3>1
    <3>4. h[1] = t[1]
      BY <1>2, <1>3, <3>1
    <3>5. QED
      BY <3>2, <3>3, <3>4
  <2>3. CASE k > m + 1
    <3>1. /\ k - m \in 1 .. n /\ (k - m) - 1 = (k - 1) - m /\ (k - 1) - m \in 0 .. n
          /\ ~(k <= m) /\ ~(k - 1 <= m) /\ m \in 0 .. m
      BY <1>3, <2>3
    <3>2. h[k - m] = h[(k - 1) - m] + t[k - m]
      BY <1>2, <3>1
    <3>3. g[k] = f[m] + h[k - m] /\ g[k - 1] = f[m] + h[(k - 1) - m]
      BY <1>5, <3>1
    <3>4. (s \o t)[k] = t[k - m]
      BY <1>4, <3>1
    <3>5. f[m] \in Int /\ h[(k - 1) - m] \in Int /\ t[k - m] \in Int
      BY <1>3, <3>1
    <3>6. QED
      BY <3>2, <3>3, <3>4, <3>5
  <2>4. k <= m \/ k = m + 1 \/ k > m + 1
    BY <1>3
  <2>5. QED
    BY <2>1, <2>2, <2>3, <2>4
<1>8. Total(s \o t) = g[m + n]
  BY <1>4, <1>6, <1>7, TotalIs
<1>9. QED
  BY <1>1, <1>2, <1>6, <1>8

(* The sum of one element.                                                 *)
LEMMA TotalOfOne ==
  ASSUME NEW x \in Int
  PROVE  Total(<<x>>) = x
<1>1. <<x>> \in Seq(Int) /\ Len(<<x>>) = 1 /\ <<x>>[1] = x
  OBVIOUS
<1>2. PICK f \in [0 .. 1 -> Int] :
         f[0] = 0 /\ (\A k \in 1 .. 1 : f[k] = f[k - 1] + <<x>>[k]) /\ Total(<<x>>) = f[1]
  BY <1>1, PartialSums
<1>3. f[1] = f[0] + x
  BY <1>1, <1>2
<1>4. QED
  BY <1>2, <1>3

(* Multiplication distributes (the solver wants it as a fact).             *)
LEMMA Distribute == \A a, b, c \in Int : a * (b + c) = a * b + a * c
OBVIOUS

(* Sums add, scale and grow element by element.                            *)
LEMMA TotalAdds ==
  ASSUME NEW r \in Seq(Int), NEW s \in Seq(Int), NEW t \in Seq(Int),
         Len(s) = Len(r), Len(t) = Len(r), \A i \in 1 .. Len(r) : r[i] = s[i] + t[i]
  PROVE  Total(r) = Total(s) + Total(t)
<1> DEFINE n == Len(r)
<1>1. PICK f \in [0 .. n -> Int] :
         f[0] = 0 /\ (\A k \in 1 .. n : f[k] = f[k - 1] + s[k]) /\ Total(s) = f[n]
  BY PartialSums
<1>2. PICK h \in [0 .. n -> Int] :
         h[0] = 0 /\ (\A k \in 1 .. n : h[k] = h[k - 1] + t[k]) /\ Total(t) = h[n]
  BY PartialSums
<1>3. n \in Nat /\ \A k \in 1 .. n : s[k] \in Int /\ t[k] \in Int /\ r[k] = s[k] + t[k]
  OBVIOUS
<1> DEFINE g == [k \in 0 .. n |-> f[k] + h[k]]
<1>4. \A k \in 0 .. n : g[k] = f[k] + h[k]
  OBVIOUS
<1> HIDE DEF g
<1>5. g[0] = 0
  BY <1>1, <1>2, <1>3, <1>4
<1>6. \A k \in 1 .. n : g[k] = g[k - 1] + r[k]
  <2> SUFFICES ASSUME NEW k \in 1 .. n
               PROVE  g[k] = g[k - 1] + r[k]
    OBVIOUS
  <2>1. k \in 0 .. n /\ k - 1 \in 0 .. n
    BY <1>3
  <2>2. f[k - 1] \in Int /\ h[k - 1] \in Int /\ s[k] \in Int /\ t[k] \in Int
    BY <1>3, <2>1
  <2>3. g[k] = f[k] + h[k] /\ g[k - 1] = f[k - 1] + h[k - 1]
    BY <1>4, <2>1
  <2>4. f[k] = f[k - 1] + s[k] /\ h[k] = h[k - 1] + t[k] /\ r[k] = s[k] + t[k]
    BY <1>1, <1>2, <1>3
  <2>5. PICK a \in Int, b \in Int, c \in Int, d \in Int :
           a = f[k - 1] /\ b = h[k - 1] /\ c = s[k] /\ d = t[k]
    BY <2>2
  <2>6. (a + c) + (b + d) = (a + b) + (c + d)
    OBVIOUS
  <2>7. g[k] = (a + c) + (b + d) /\ g[k - 1] + r[k] = (a + b) + (c + d)
    BY <2>3, <2>4, <2>5
  <2>8. QED
    BY <2>6, <2>7
<1>7. Total(r) = g[n]
  BY <1>5, <1>6, TotalIs
<1>8. n \in 0 .. n
  BY <1>3
<1>9. QED
  BY <1>1, <1>2, <1>4, <1>7, <1>8

(* Sums scale.                                                             *)
LEMMA TotalScales ==
  ASSUME NEW a \in Int, NEW c \in Int, NEW r \in Seq(Int), NEW s \in Seq(Int),
         Len(s) = Len(r), \A i \in 1 .. Len(r) : a * r[i] = c * s[i]
  PROVE  a * Total(r) = c * Total(s)
<1> DEFINE n == Len(r)
<1>1. PICK f \in [0 .. n -> Int] :
         f[0] = 0 /\ (\A k \in 1 .. n : f[k] = f[k - 1] + r[k]) /\ Total(r) = f[n]
  BY PartialSums
<1>2. PICK h \in [0 .. n -> Int] :
         h[0] = 0 /\ (\A k \in 1 .. n : h[k] = h[k - 1] + s[k]) /\ Total(s) = h[n]
  BY PartialSums
<1>3. n \in Nat /\ \A k \in 1 .. n : r[k] \in Int /\ s[k] \in Int /\ a * r[k] = c * s[k]
  OBVIOUS
<1> HIDE DEF n
<1> DEFINE T == {k \in Nat : k <= n => a * f[k] = c * h[k]}
<1>4. 0 \in T
  BY <1>1, <1>2, <1>3
<1>5. \A k \in Nat : k \in T => k + 1 \in T
  <2> SUFFICES ASSUME NEW k \in Nat, k \in T, k + 1 <= n
               PROVE  a * f[k + 1] = c * h[k + 1]
    OBVIOUS
  <2>1. k \in 0 .. n /\ k + 1 \in 1 .. n /\ (k + 1) - 1 = k /\ a * f[k] = c * h[k]
    BY <1>3
  <2>2. f[k + 1] = f[k] + r[k + 1] /\ h[k + 1] = h[k] + s[k + 1]
    BY <1>1, <1>2, <2>1
  <2>3. f[k] \in Int /\ h[k] \in Int /\ r[k + 1] \in Int /\ s[k + 1] \in Int
    BY <1>3, <2>1
  <2>4. a * r[k + 1] = c * s[k + 1]
    BY <1>3, <2>1
  <2>5. a * (f[k] + r[k + 1]) = a * f[k] + a * r[k + 1]
        /\ c * (h[k] + s[k + 1]) = c * h[k] + c * s[k + 1]
    BY <2>3, Distribute
  <2>6. QED
    BY <2>1, <2>2, <2>4, <2>5
<1>6. \A k \in Nat : k \in T
  <2> HIDE DEF T
  <2>1. QED
    BY <1>4, <1>5, SetInduction
<1>7. QED
  BY <1>1, <1>2, <1>3, <1>6

(* Sums are monotonic.                                                     *)
LEMMA TotalGrows ==
  ASSUME NEW r \in Seq(Int), NEW s \in Seq(Int), Len(s) = Len(r),
         \A i \in 1 .. Len(r) : r[i] <= s[i]
  PROVE  Total(r) <= Total(s)
<1> DEFINE n == Len(r)
<1>1. PICK f \in [0 .. n -> Int] :
         f[0] = 0 /\ (\A k \in 1 .. n : f[k] = f[k - 1] + r[k]) /\ Total(r) = f[n]
  BY PartialSums
<1>2. PICK h \in [0 .. n -> Int] :
         h[0] = 0 /\ (\A k \in 1 .. n : h[k] = h[k - 1] + s[k]) /\ Total(s) = h[n]
  BY PartialSums
<1>3. n \in Nat /\ \A k \in 1 .. n : r[k] \in Int /\ s[k] \in Int /\ r[k] <= s[k]
  OBVIOUS
<1> HIDE DEF n
<1> DEFINE T == {k \in Nat : k <= n => f[k] <= h[k]}
<1>4. 0 \in T
  BY <1>1, <1>2, <1>3
<1>5. \A k \in Nat : k \in T => k + 1 \in T
  <2> SUFFICES ASSUME NEW k \in Nat, k \in T, k + 1 <= n
               PROVE  f[k + 1] <= h[k + 1]
    OBVIOUS
  <2>1. k \in 0 .. n /\ k + 1 \in 1 .. n /\ (k + 1) - 1 = k /\ f[k] <= h[k]
    BY <1>3
  <2>2. f[k + 1] = f[k] + r[k + 1] /\ h[k + 1] = h[k] + s[k + 1]
    BY <1>1, <1>2, <2>1
  <2>3. f[k] \in Int /\ h[k] \in Int /\ r[k + 1] \in Int /\ s[k + 1] \in Int
        /\ r[k + 1] <= s[k + 1]
    BY <1>3, <2>1
  <2>4. QED
    BY <2>1, <2>2, <2>3
<1>6. \A k \in Nat : k \in T
  <2> HIDE DEF T
  <2>1. QED
    BY <1>4, <1>5, SetInduction
<1>7. QED
  BY <1>1, <1>2, <1>3, <1>6

(* A single element that is not zero.                                      *)
LEMMA TotalOfSingle ==
  ASSUME NEW s \in Seq(Int), NEW a \in 1 .. Len(s), \A i \in 1 .. Len(s) : i # a => s[i] = 0
  PROVE  Total(s) = s[a]
<1> DEFINE n == Len(s)
           g == [k \in 0 .. n |-> IF k < a THEN 0 ELSE s[a]]
<1>1. n \in Nat /\ a \in 1 .. n /\ s[a] \in Int
  OBVIOUS
<1>2. \A k \in 0 .. n : g[k] = IF k < a THEN 0 ELSE s[a]
  OBVIOUS
<1> HIDE DEF g
<1>3. g[0] = 0 /\ g[n] = s[a]
  BY <1>1, <1>2
<1>4. \A k \in 1 .. n : g[k] = g[k - 1] + s[k]
  <2> SUFFICES ASSUME NEW k \in 1 .. n
               PROVE  g[k] = g[k - 1] + s[k]
    OBVIOUS
  <2>1. k \in 0 .. n /\ k - 1 \in 0 .. n
    BY <1>1
  <2>2. CASE k = a
    BY <1>1, <1>2, <2>1, <2>2
  <2>3. CASE k # a
    <3>1. s[k] = 0
      BY <2>3
    <3>2. k < a <=> k - 1 < a
      BY <1>1, <2>3
    <3>3. QED
      BY <1>1, <1>2, <2>1, <3>1, <3>2
  <2>4. QED
    BY <2>2, <2>3
<1>5. QED
  BY <1>3, <1>4, TotalIs

(* The sum of zeros.                                                       *)
LEMMA TotalOfZeros ==
  ASSUME NEW s \in Seq(Int), \A i \in 1 .. Len(s) : s[i] = 0
  PROVE  Total(s) = 0
<1>1. 1 * Total(s) = 0 * Total(s)
  <2>1. \A i \in 1 .. Len(s) : 1 * s[i] = 0 * s[i]
    OBVIOUS
  <2>2. QED
    BY <2>1, TotalScales
<1>2. QED
  BY <1>1, TotalIsInt

(* Sums up to a place.                                                     *)
UpTo(s, n) == [k \in DOMAIN s |-> IF k <= n THEN s[k] ELSE 0]

(* The first n elements, and one more.                                     *)
LEMMA TotalUpTo ==
  ASSUME NEW s \in Seq(Int)
  PROVE  /\ \A n \in Int : UpTo(s, n) \in Seq(Int)
         /\ Total(UpTo(s, 0)) = 0
         /\ \A n \in 1 .. Len(s) : Total(UpTo(s, n)) = Total(UpTo(s, n - 1)) + s[n]
         /\ UpTo(s, Len(s)) = s
<1>1. Len(s) \in Nat /\ DOMAIN s = 1 .. Len(s) /\ \A k \in 1 .. Len(s) : s[k] \in Int
  OBVIOUS
<1>2. \A n \in Int : UpTo(s, n) \in Seq(Int) /\ Len(UpTo(s, n)) = Len(s)
                     /\ \A k \in 1 .. Len(s) : UpTo(s, n)[k] = IF k <= n THEN s[k] ELSE 0
  <2> SUFFICES ASSUME NEW n \in Int
               PROVE  UpTo(s, n) \in Seq(Int) /\ Len(UpTo(s, n)) = Len(s)
                      /\ \A k \in 1 .. Len(s) : UpTo(s, n)[k] = IF k <= n THEN s[k] ELSE 0
    OBVIOUS
  <2>1. UpTo(s, n) = [k \in 1 .. Len(s) |-> IF k <= n THEN s[k] ELSE 0]
    BY <1>1 DEF UpTo
  <2>2. [k \in 1 .. Len(s) |-> IF k <= n THEN s[k] ELSE 0] \in Seq(Int)
    BY <1>1
  <2>3. QED
    BY <1>1, <2>1, <2>2
<1>3. Total(UpTo(s, 0)) = 0
  <2>1. \A k \in 1 .. Len(s) : UpTo(s, 0)[k] = 0
    BY <1>1 DEF UpTo
  <2>2. QED
    BY <1>2, <2>1, TotalOfZeros
<1>4. ASSUME NEW n \in 1 .. Len(s)
      PROVE  Total(UpTo(s, n)) = Total(UpTo(s, n - 1)) + s[n]
  <2> DEFINE d == [k \in 1 .. Len(s) |-> IF k = n THEN s[n] ELSE 0]
  <2>1. d \in Seq(Int) /\ Len(d) = Len(s) /\ d[n] = s[n] /\ \A k \in 1 .. Len(s) : k # n => d[k] = 0
    BY <1>1
  <2>2. Total(d) = s[n]
    BY <2>1, TotalOfSingle
  <2>3. n \in Int /\ n - 1 \in Int
    OBVIOUS
  <2>4. \A k \in 1 .. Len(s) : UpTo(s, n)[k] = UpTo(s, n - 1)[k] + d[k]
    <3> SUFFICES ASSUME NEW k \in 1 .. Len(s)
                 PROVE  UpTo(s, n)[k] = UpTo(s, n - 1)[k] + d[k]
      OBVIOUS
    <3>1. UpTo(s, n)[k] = IF k <= n THEN s[k] ELSE 0
      BY <1>2, <2>3
    <3>2. UpTo(s, n - 1)[k] = IF k <= n - 1 THEN s[k] ELSE 0
      BY <1>2, <2>3
    <3>3. d[k] = IF k = n THEN s[n] ELSE 0
      OBVIOUS
    <3> HIDE DEF d
    <3>4. s[k] \in Int /\ k \in Int
      BY <1>1
    <3>5. QED
      BY <3>1, <3>2, <3>3, <3>4
  <2> HIDE DEF d
  <2>5. Total(UpTo(s, n)) = Total(UpTo(s, n - 1)) + Total(d)
    <3> DEFINE r == UpTo(s, n)
               t == UpTo(s, n - 1)
    <3>1. r \in Seq(Int) /\ t \in Seq(Int) /\ Len(r) = Len(s) /\ Len(t) = Len(s)
      BY <1>2, <2>3
    <3>2. \A k \in 1 .. Len(r) : r[k] = t[k] + d[k]
      BY <2>4, <3>1
    <3> HIDE DEF r, t
    <3>3. Total(r) = Total(t) + Total(d)
      BY <2>1, <3>1, <3>2, TotalAdds
    <3>4. QED
      BY <3>3 DEF r, t
  <2>6. QED
    BY <2>2, <2>5
<1>5. UpTo(s, Len(s)) = s
  <2>1. Len(s) \in Int
    BY <1>1
  <2>2. \A k \in 1 .. Len(s) : UpTo(s, Len(s))[k] = s[k]
    BY <1>1 DEF UpTo
  <2>3. QED
    <3> DEFINE t == UpTo(s, Len(s))
    <3>1. t \in Seq(Int) /\ Len(t) = Len(s) /\ \A k \in 1 .. Len(t) : t[k] = s[k]
      BY <1>2, <2>1, <2>2
    <3> HIDE DEF t
    <3>2. t = s
      BY <3>1, SeqEqual
    <3>3. QED
      BY <3>2 DEF t
<1>6. QED
  BY <1>2, <1>3, <1>4, <1>5

-----------------------------------------------------------------------------
(* Amounts in parts of a pipe: what the units make whole.                  *)

(* Division, when it is exact.                                             *)
LEMMA Divided ==
  ASSUME NEW w \in Nat \ {0}, NEW a \in Int
  PROVE  a \div w \in Int /\ w * (a \div w) <= a /\ a < w * (a \div w) + w
OBVIOUS

(* What lies between multiples of the divisor.                             *)
LEMMA Squeezed ==
  ASSUME NEW w \in Nat \ {0}, NEW m \in Int, NEW n \in Int, w * m <= w * n, w * n < w * m + w
  PROVE  m = n
<1>1. CASE n < m
  <2>1. w * n < w * m
    BY <1>1
  <2>2. w * m \in Int /\ w * n \in Int
    OBVIOUS
  <2>3. QED
    BY <2>1, <2>2
<1>2. CASE n > m
  <2>1. PICK d \in Nat : n = m + 1 + d
    <3>1. n - m - 1 \in Nat /\ n = m + 1 + (n - m - 1)
      BY <1>2
    <3>2. QED
      BY <3>1
  <2>2. w * n = w * m + w + w * d
    BY <2>1
  <2>3. w * d >= 0
    OBVIOUS
  <2>4. w * m \in Int /\ w * n \in Int /\ w * d \in Int
    OBVIOUS
  <2>5. QED
    BY <2>2, <2>3, <2>4
<1>3. QED
  BY <1>1, <1>2

(* Dividing a multiple gives back the factor.                              *)
LEMMA DividesBack ==
  ASSUME NEW w \in Nat \ {0}, NEW m \in Int
  PROVE  (w * m) \div w = m
<1> DEFINE a == w * m
           q == a \div w
<1>1. a \in Int
  OBVIOUS
<1>2. q \in Int /\ w * q <= a /\ a < w * q + w
  BY <1>1, Divided
<1>3. w * q <= w * m /\ w * m < w * q + w
  BY <1>2
<1> HIDE DEF a, q
<1>4. q = m
  BY <1>2, <1>3, Squeezed
<1>5. QED
  BY <1>4 DEF a, q

(* An amount of which every part is a whole number.                        *)
Splits(amount, parts) == Whole * ((amount * parts) \div Whole) = amount * parts

(* The whole is a whole number of parts.                                   *)
LEMMA SplitsWhole ==
  ASSUME NEW a \in Int
  PROVE  Splits(a, Whole)
<1>1. a * Whole = Whole * a
  BY WholeAssumption
<1>2. (Whole * a) \div Whole = a
  BY WholeAssumption, DividesBack
<1>3. QED
  BY <1>1, <1>2 DEF Splits

(* What is left of a whole number of parts is whole.                       *)
LEMMA SplitsRest ==
  ASSUME NEW a \in Int, NEW k \in Int, Splits(a, k)
  PROVE  Splits(a, Whole - k)
<1> DEFINE q == (a * k) \div Whole
<1>1. a * k \in Int
  OBVIOUS
<1>2. q \in Int
  BY <1>1, WholeAssumption, Divided
<1>3. Whole * q = a * k
  BY DEF Splits
<1> HIDE DEF q
<1>4. a * (Whole - k) = a * Whole - a * k
  BY WholeAssumption
<1>5. Whole * (a - q) = Whole * a - Whole * q
  BY <1>2, WholeAssumption
<1>6. a * Whole = Whole * a
  BY WholeAssumption
<1>7. a * (Whole - k) = Whole * (a - q)
  BY <1>3, <1>4, <1>5, <1>6
<1>8. (Whole * (a - q)) \div Whole = a - q
  BY <1>2, WholeAssumption, DividesBack
<1>9. QED
  BY <1>7, <1>8 DEF Splits

(* A part of an amount is between nothing and the amount.                  *)
LEMMA PartOfAmount ==
  ASSUME NEW a \in Int, NEW k \in 0 .. Whole, Splits(a, k)
  PROVE  LET q == (a * k) \div Whole
         IN  /\ q \in Int /\ Whole * q = k * a /\ Whole * Magnitude(q) = k * Magnitude(a)
             /\ Magnitude(q) <= Magnitude(a)
<1> DEFINE q == (a * k) \div Whole
<1>1. k \in Int /\ 0 <= k /\ k <= Whole /\ Whole \in Int /\ Whole > 0
  BY WholeAssumption
<1>2. q \in Int
  BY <1>1, WholeAssumption, Divided
<1>3. Whole * q = k * a
  BY <1>1 DEF Splits
<1> HIDE DEF q
<1>4. Whole * Magnitude(q) = k * Magnitude(a) /\ Magnitude(q) <= Magnitude(a)
  <2>1. CASE a < 0
    <3>1. k * a <= 0
      BY <1>1, <2>1
    <3>2. q <= 0
      <4>1. CASE q > 0
        <5>1. Whole * q > 0
          BY <1>1, <1>2, <4>1
        <5>2. QED
          BY <1>3, <3>1, <5>1
      <4>2. QED
        BY <1>2, <4>1
    <3>3. Magnitude(q) = -q /\ Magnitude(a) = -a
      BY <1>2, <2>1, <3>2 DEF Magnitude
    <3>4. Whole * (-q) = -(Whole * q) /\ k * (-a) = -(k * a)
      BY <1>1, <1>2
    <3>5. Whole * (-q) = k * (-a)
      BY <1>3, <3>4
    <3>6. -q <= -a
      <4>1. CASE -q > -a
        <5>1. Whole * (-q) > Whole * (-a)
          BY <1>1, <1>2, <4>1
        <5>2. Whole * (-a) >= k * (-a)
          BY <1>1, <2>1
        <5>3. QED
          BY <1>1, <1>2, <3>5, <5>1, <5>2
      <4>2. QED
        BY <1>2, <4>1
    <3>7. QED
      BY <3>3, <3>5, <3>6
  <2>2. CASE a >= 0
    <3>1. k * a >= 0
      BY <1>1, <2>2
    <3>2. q >= 0
      <4>1. CASE q < 0
        <5>1. Whole * q < 0
          BY <1>1, <1>2, <4>1
        <5>2. QED
          BY <1>3, <3>1, <5>1
      <4>2. QED
        BY <1>2, <4>1
    <3>3. Magnitude(q) = q /\ Magnitude(a) = a
      BY <1>2, <2>2, <3>2 DEF Magnitude
    <3>4. q <= a
      <4>1. CASE q > a
        <5>1. Whole * q > Whole * a
          BY <1>1, <1>2, <4>1
        <5>2. Whole * a >= k * a
          BY <1>1, <2>2
        <5>3. QED
          BY <1>1, <1>2, <1>3, <5>1, <5>2
      <4>2. QED
        BY <1>2, <4>1
    <3>5. QED
      BY <1>3, <3>3, <3>4
  <2>3. QED
    BY <2>1, <2>2
<1>5. QED
  BY <1>2, <1>3, <1>4 DEF q

-----------------------------------------------------------------------------
(* Sums over lists of demands.                                             *)

(* A demand with another amount.                                           *)
LEMMA DemandIsRecord ==
  ASSUME NEW d \in Demand, NEW a \in Int
  PROVE  LET e == [d EXCEPT !.amount = a]
         IN  /\ e \in Demand /\ e.amount = a
             /\ e.category = d.category /\ e.mode = d.mode /\ e.pattern = d.pattern
             /\ d.amount \in Int
BY DEF Demand

(* The elements of a list of demands.                                      *)
LEMMA DemandList ==
  ASSUME NEW list \in Seq(Demand)
  PROVE  /\ Len(list) \in Nat /\ DOMAIN list = 1 .. Len(list)
         /\ \A i \in 1 .. Len(list) : list[i] \in Demand
OBVIOUS

(* What is added up for a kind of demand.                                  *)
Measures(list, key) == [i \in DOMAIN list |-> IF Matches(list[i], key) THEN list[i].amount ELSE 0]

(* SumOf is the total of the measures.                                     *)
LEMMA MeasuresOfList ==
  ASSUME NEW list \in Seq(Demand), NEW key
  PROVE  /\ Measures(list, key) \in Seq(Int) /\ Len(Measures(list, key)) = Len(list)
         /\ \A i \in 1 .. Len(list) :
               Measures(list, key)[i] = IF Matches(list[i], key) THEN list[i].amount ELSE 0
         /\ SumOf(list, key) = Total(Measures(list, key)) /\ SumOf(list, key) \in Int
<1>1. Len(list) \in Nat /\ DOMAIN list = 1 .. Len(list)
      /\ \A i \in 1 .. Len(list) : list[i] \in Demand
  BY DemandList
<1>2. \A i \in 1 .. Len(list) : list[i].amount \in Int
  BY <1>1 DEF Demand
<1>3. Measures(list, key) =
        [i \in 1 .. Len(list) |-> IF Matches(list[i], key) THEN list[i].amount ELSE 0]
  BY <1>1 DEF Measures
<1>4. \A i \in 1 .. Len(list) : (IF Matches(list[i], key) THEN list[i].amount ELSE 0) \in Int
  BY <1>2
<1>5. Measures(list, key) \in Seq(Int) /\ Len(Measures(list, key)) = Len(list)
  BY <1>1, <1>3, <1>4
<1>6. SumOf(list, key) = Total(Measures(list, key))
  BY DEF SumOf, Measures
<1>7. Total(Measures(list, key)) \in Int
  BY <1>5, TotalIsInt
<1>8. QED
  BY <1>3, <1>5, <1>6, <1>7

(* SumOf adds over concatenation.                                          *)
LEMMA SumOfConcat ==
  ASSUME NEW s \in Seq(Demand), NEW t \in Seq(Demand), NEW key
  PROVE  SumOf(s \o t, key) = SumOf(s, key) + SumOf(t, key)
<1> DEFINE l == s \o t
           r == Measures(l, key)
           m == Measures(s, key)
           n == Measures(t, key)
<1>1. l \in Seq(Demand) /\ Len(l) = Len(s) + Len(t)
      /\ \A i \in 1 .. Len(s) + Len(t) : l[i] = IF i <= Len(s) THEN s[i] ELSE t[i - Len(s)]
  BY ConcatProperties
<1>2. Len(s) \in Nat /\ Len(t) \in Nat
  OBVIOUS
<1>3. m \in Seq(Int) /\ Len(m) = Len(s)
      /\ \A i \in 1 .. Len(s) : m[i] = IF Matches(s[i], key) THEN s[i].amount ELSE 0
  BY MeasuresOfList
<1>4. n \in Seq(Int) /\ Len(n) = Len(t)
      /\ \A i \in 1 .. Len(t) : n[i] = IF Matches(t[i], key) THEN t[i].amount ELSE 0
  BY MeasuresOfList
<1>5. r \in Seq(Int) /\ Len(r) = Len(l)
      /\ \A i \in 1 .. Len(l) : r[i] = IF Matches(l[i], key) THEN l[i].amount ELSE 0
  <2> HIDE DEF l
  <2>1. QED
    BY <1>1, MeasuresOfList
<1> HIDE DEF l, r, m, n
<1>6. m \o n \in Seq(Int) /\ Len(m \o n) = Len(s) + Len(t)
      /\ \A i \in 1 .. Len(s) + Len(t) : (m \o n)[i] = IF i <= Len(s) THEN m[i] ELSE n[i - Len(s)]
  <2>3. m \in Seq(Int) /\ n \in Seq(Int)
    BY <1>3, <1>4
  <2>1. m \o n \in Seq(Int) /\ Len(m \o n) = Len(m) + Len(n)
        /\ \A i \in 1 .. Len(m) + Len(n) : (m \o n)[i] = IF i <= Len(m) THEN m[i] ELSE n[i - Len(m)]
    BY <2>3, ConcatProperties
  <2>2. QED
    BY <1>3, <1>4, <2>1
<1>7. \A i \in 1 .. Len(r) : r[i] = (m \o n)[i]
  <2> SUFFICES ASSUME NEW i \in 1 .. Len(r)
               PROVE  r[i] = (m \o n)[i]
    OBVIOUS
  <2>1. i \in 1 .. Len(s) + Len(t) /\ i \in 1 .. Len(l)
    BY <1>1, <1>5
  <2>2. CASE i <= Len(s)
    <3>1. i \in 1 .. Len(s)
      BY <1>2, <2>1, <2>2
    <3>2. l[i] = s[i] /\ (m \o n)[i] = m[i]
      BY <1>1, <1>6, <2>1, <2>2
    <3>3. QED
      BY <1>3, <1>5, <2>1, <3>1, <3>2
  <2>3. CASE ~(i <= Len(s))
    <3>1. i - Len(s) \in 1 .. Len(t)
      BY <1>2, <2>1, <2>3
    <3>2. l[i] = t[i - Len(s)] /\ (m \o n)[i] = n[i - Len(s)]
      BY <1>1, <1>6, <2>1, <2>3
    <3>3. QED
      BY <1>4, <1>5, <2>1, <3>1, <3>2
  <2>4. QED
    BY <2>2, <2>3
<1>8. r = m \o n
  BY <1>1, <1>5, <1>6, <1>7, SeqEqual
<1>9. Total(m \o n) = Total(m) + Total(n)
  BY <1>3, <1>4, TotalOfConcat
<1>10. SumOf(l, key) = Total(r) /\ SumOf(s, key) = Total(m) /\ SumOf(t, key) = Total(n)
  BY <1>1, MeasuresOfList DEF r, m, n
<1>11. QED
  BY <1>8, <1>9, <1>10 DEF l

(* No demands.                                                             *)
LEMMA SumOfNothing ==
  ASSUME NEW key
  PROVE  SumOf(<<>>, key) = 0
<1>1. <<>> \in Seq(Demand) /\ Len(<<>>) = 0
  BY EmptySeq
<1> DEFINE m == Measures(<<>>, key)
<1>2. m \in Seq(Int) /\ Len(m) = 0 /\ SumOf(<<>>, key) = Total(m)
  BY <1>1, MeasuresOfList
<1> HIDE DEF m
<1>3. m = <<>>
  BY <1>2
<1>4. QED
  BY <1>2, <1>3, TotalOfNothing

(* One demand.                                                             *)
LEMMA SumOfOne ==
  ASSUME NEW d \in Demand, NEW key
  PROVE  SumOf(<<d>>, key) = IF Matches(d, key) THEN d.amount ELSE 0
<1>1. <<d>> \in Seq(Demand) /\ Len(<<d>>) = 1 /\ <<d>>[1] = d
  OBVIOUS
<1> DEFINE m == Measures(<<d>>, key)
           x == IF Matches(d, key) THEN d.amount ELSE 0
<1>2. m \in Seq(Int) /\ Len(m) = 1 /\ SumOf(<<d>>, key) = Total(m)
  BY <1>1, MeasuresOfList
<1>3. m[1] = x
  <2>1. \A i \in 1 .. Len(<<d>>) :
           Measures(<<d>>, key)[i] = IF Matches(<<d>>[i], key) THEN <<d>>[i].amount ELSE 0
    BY <1>1, MeasuresOfList
  <2>2. 1 \in 1 .. Len(<<d>>)
    BY <1>1
  <2>3. QED
    BY <1>1, <2>1, <2>2
<1>4. x \in Int
  BY DemandIsRecord DEF Demand
<1> HIDE DEF m, x
<1>5. m = <<x>>
  BY <1>2, <1>3
<1>6. QED
  BY <1>2, <1>4, <1>5, TotalOfOne DEF x

(* Magnitudes change nothing but signs.                                    *)
LEMMA MagnitudesOfList ==
  ASSUME NEW list \in Seq(Demand)
  PROVE  /\ Magnitudes(list) \in Seq(Demand) /\ Len(Magnitudes(list)) = Len(list)
         /\ \A i \in 1 .. Len(list) :
               Magnitudes(list)[i] = [list[i] EXCEPT !.amount = Magnitude(list[i].amount)]
<1>1. Len(list) \in Nat /\ DOMAIN list = 1 .. Len(list)
      /\ \A i \in 1 .. Len(list) : list[i] \in Demand
  BY DemandList
<1>2. \A i \in 1 .. Len(list) : Magnitude(list[i].amount) \in Int
  BY <1>1 DEF Magnitude, Demand
<1>3. \A i \in 1 .. Len(list) : [list[i] EXCEPT !.amount = Magnitude(list[i].amount)] \in Demand
  BY <1>1, <1>2, DemandIsRecord
<1>4. Magnitudes(list) =
        [i \in 1 .. Len(list) |-> [list[i] EXCEPT !.amount = Magnitude(list[i].amount)]]
  BY <1>1 DEF Magnitudes
<1>5. QED
  BY <1>1, <1>3, <1>4

(* Magnitudes of a concatenation.                                          *)
LEMMA MagnitudesOfConcat ==
  ASSUME NEW s \in Seq(Demand), NEW t \in Seq(Demand)
  PROVE  Magnitudes(s \o t) = Magnitudes(s) \o Magnitudes(t)
<1> DEFINE l == s \o t
           r == Magnitudes(l)
           m == Magnitudes(s)
           n == Magnitudes(t)
           Big(d) == [d EXCEPT !.amount = Magnitude(d.amount)]
<1>1. l \in Seq(Demand) /\ Len(l) = Len(s) + Len(t)
      /\ \A i \in 1 .. Len(s) + Len(t) : l[i] = IF i <= Len(s) THEN s[i] ELSE t[i - Len(s)]
  BY ConcatProperties
<1>2. Len(s) \in Nat /\ Len(t) \in Nat
  OBVIOUS
<1>3. m \in Seq(Demand) /\ Len(m) = Len(s) /\ \A i \in 1 .. Len(s) : m[i] = Big(s[i])
  BY MagnitudesOfList
<1>4. n \in Seq(Demand) /\ Len(n) = Len(t) /\ \A i \in 1 .. Len(t) : n[i] = Big(t[i])
  BY MagnitudesOfList
<1>5. r \in Seq(Demand) /\ Len(r) = Len(l) /\ \A i \in 1 .. Len(l) : r[i] = Big(l[i])
  <2> HIDE DEF l
  <2>1. QED
    BY <1>1, MagnitudesOfList
<1> HIDE DEF l, r, m, n, Big
<1>6. m \o n \in Seq(Demand) /\ Len(m \o n) = Len(s) + Len(t)
      /\ \A i \in 1 .. Len(s) + Len(t) : (m \o n)[i] = IF i <= Len(s) THEN m[i] ELSE n[i - Len(s)]
  <2>3. m \in Seq(Demand) /\ n \in Seq(Demand)
    BY <1>3, <1>4
  <2>1. m \o n \in Seq(Demand) /\ Len(m \o n) = Len(m) + Len(n)
        /\ \A i \in 1 .. Len(m) + Len(n) : (m \o n)[i] = IF i <= Len(m) THEN m[i] ELSE n[i - Len(m)]
    BY <2>3, ConcatProperties
  <2>2. QED
    BY <1>3, <1>4, <2>1
<1>7. \A i \in 1 .. Len(r) : r[i] = (m \o n)[i]
  <2> SUFFICES ASSUME NEW i \in 1 .. Len(r)
               PROVE  r[i] = (m \o n)[i]
    OBVIOUS
  <2>1. i \in 1 .. Len(s) + Len(t) /\ i \in 1 .. Len(l)
    BY <1>1, <1>5
  <2>2. CASE i <= Len(s)
    <3>1. i \in 1 .. Len(s)
      BY <1>2, <2>1, <2>2
    <3>2. l[i] = s[i] /\ (m \o n)[i] = m[i]
      BY <1>1, <1>6, <2>1, <2>2
    <3>3. QED
      BY <1>3, <1>5, <2>1, <3>1, <3>2
  <2>3. CASE ~(i <= Len(s))
    <3>1. i - Len(s) \in 1 .. Len(t)
      BY <1>2, <2>1, <2>3
    <3>2. l[i] = t[i - Len(s)] /\ (m \o n)[i] = n[i - Len(s)]
      BY <1>1, <1>6, <2>1, <2>3
    <3>3. QED
      BY <1>4, <1>5, <2>1, <3>1, <3>2
  <2>4. QED
    BY <2>2, <2>3
<1>8. r = m \o n
  BY <1>1, <1>5, <1>6, <1>7, SeqEqual
<1>9. QED
  BY <1>8 DEF l, r, m, n

(* Magnitudes keep what a demand matches.                                  *)
LEMMA SameMatches ==
  ASSUME NEW d, NEW e, d.category = e.category, d.mode = e.mode, d.pattern = e.pattern
  PROVE  \A x : (Matches(d, x) <=> Matches(e, x)) /\ (Matches(x, d) <=> Matches(x, e))
BY DEF Matches

(* Matching is an equivalence.                                             *)
LEMMA MatchesIsEquivalence ==
  /\ \A d : Matches(d, d)
  /\ \A d, e : Matches(d, e) => Matches(e, d)
  /\ \A d, e, x : Matches(d, e) /\ Matches(e, x) => Matches(d, x)
BY DEF Matches

(* What a share takes of a list of demands.                                *)
SplitsAll(demands, parts) == \A i \in 1 .. Len(demands) : Splits(demands[i].amount, parts)

(* appendScaledDemands changes the amounts and nothing else.               *)
LEMMA ScaledList ==
  ASSUME NEW ds \in Seq(Demand), NEW share, share.parts \in 0 .. Whole, SplitsAll(ds, share.parts)
  PROVE  /\ Scaled(ds, share) \in Seq(Demand) /\ Len(Scaled(ds, share)) = Len(ds)
         /\ \A i \in 1 .. Len(ds) :
               LET e == Scaled(ds, share)[i]
               IN  /\ e.category = ds[i].category /\ e.mode = ds[i].mode /\ e.pattern = ds[i].pattern
                   /\ Whole * e.amount = share.parts * ds[i].amount
                   /\ Whole * Magnitude(e.amount) = share.parts * Magnitude(ds[i].amount)
                   /\ Magnitude(e.amount) <= Magnitude(ds[i].amount)
<1> DEFINE k == share.parts
           q(i) == (ds[i].amount * k) \div Whole
<1>1. Len(ds) \in Nat /\ DOMAIN ds = 1 .. Len(ds)
      /\ \A i \in 1 .. Len(ds) : ds[i] \in Demand
  BY DemandList
<1>2. \A i \in 1 .. Len(ds) : ds[i].amount \in Int
  BY <1>1 DEF Demand
<1>3. \A i \in 1 .. Len(ds) : /\ q(i) \in Int /\ Whole * q(i) = k * ds[i].amount
                              /\ Whole * Magnitude(q(i)) = k * Magnitude(ds[i].amount)
                              /\ Magnitude(q(i)) <= Magnitude(ds[i].amount)
  BY <1>2, PartOfAmount DEF SplitsAll
<1>4. Scaled(ds, share) = [i \in 1 .. Len(ds) |-> [ds[i] EXCEPT !.amount = q(i)]]
  BY <1>1 DEF Scaled
<1> HIDE DEF q
<1> DEFINE E(i) == [ds[i] EXCEPT !.amount = q(i)]
<1>5. \A i \in 1 .. Len(ds) :
         LET e == [ds[i] EXCEPT !.amount = q(i)]
         IN  e \in Demand /\ e.amount = q(i)
             /\ e.category = ds[i].category /\ e.mode = ds[i].mode /\ e.pattern = ds[i].pattern
  BY <1>1, <1>3, DemandIsRecord
<1>9. Scaled(ds, share) = [i \in 1 .. Len(ds) |-> E(i)] /\ \A i \in 1 .. Len(ds) : E(i) \in Demand
  BY <1>4, <1>5
<1> HIDE DEF E
<1>6. Scaled(ds, share) \in Seq(Demand) /\ Len(Scaled(ds, share)) = Len(ds)
  BY <1>1, <1>9
<1>7. \A i \in 1 .. Len(ds) : Scaled(ds, share)[i] = [ds[i] EXCEPT !.amount = q(i)]
  BY <1>4
<1>8. QED
  BY <1>3, <1>5, <1>6, <1>7

-----------------------------------------------------------------------------
(* What a share does to the sums.                                          *)

(* No sum exceeds the sum of the magnitudes.                               *)
LEMMA SumOfMagnitudes ==
  ASSUME NEW list \in Seq(Demand), NEW key
  PROVE  SumOf(Magnitudes(list), key) \in Nat
<1> DEFINE l == Magnitudes(list)
           m == Measures(l, key)
           z == [i \in 1 .. Len(list) |-> 0]
<1>1. l \in Seq(Demand) /\ Len(l) = Len(list)
      /\ \A i \in 1 .. Len(list) : l[i] = [list[i] EXCEPT !.amount = Magnitude(list[i].amount)]
  BY MagnitudesOfList
<1>2. Len(list) \in Nat /\ \A i \in 1 .. Len(list) : list[i] \in Demand
  OBVIOUS
<1>3. \A i \in 1 .. Len(list) : l[i].amount >= 0 /\ l[i].amount \in Int
  <2> SUFFICES ASSUME NEW i \in 1 .. Len(list)
               PROVE  l[i].amount >= 0 /\ l[i].amount \in Int
    OBVIOUS
  <2>1. list[i].amount \in Int
    BY <1>2 DEF Demand
  <2>2. Magnitude(list[i].amount) \in Int /\ Magnitude(list[i].amount) >= 0
    BY <2>1 DEF Magnitude
  <2>3. l[i].amount = Magnitude(list[i].amount)
    <3>1. list[i] \in Demand /\ l[i] = [list[i] EXCEPT !.amount = Magnitude(list[i].amount)]
      BY <1>1, <1>2
    <3> HIDE DEF l
    <3>2. QED
      BY <2>2, <3>1, DemandIsRecord
  <2>4. QED
    BY <2>2, <2>3
<1> HIDE DEF l
<1>4. m \in Seq(Int) /\ Len(m) = Len(l) /\ SumOf(l, key) = Total(m) /\ SumOf(l, key) \in Int
      /\ \A i \in 1 .. Len(l) : m[i] = IF Matches(l[i], key) THEN l[i].amount ELSE 0
  BY <1>1, MeasuresOfList
<1> HIDE DEF m
<1>5. z \in Seq(Int) /\ Len(z) = Len(list) /\ \A i \in 1 .. Len(list) : z[i] = 0
  BY <1>2
<1> HIDE DEF z
<1>6. Total(z) = 0
  BY <1>5, TotalOfZeros
<1>7. \A i \in 1 .. Len(z) : z[i] <= m[i]
  <2> SUFFICES ASSUME NEW i \in 1 .. Len(list)
               PROVE  z[i] <= m[i]
    BY <1>5
  <2>1. z[i] = 0 /\ l[i].amount >= 0 /\ l[i].amount \in Int
    BY <1>3, <1>5
  <2>2. m[i] = IF Matches(l[i], key) THEN l[i].amount ELSE 0
    BY <1>1, <1>4
  <2>3. QED
    BY <2>1, <2>2
<1>8. Total(z) <= Total(m)
  BY <1>1, <1>4, <1>5, <1>7, TotalGrows
<1>9. QED
  BY <1>4, <1>6, <1>8 DEF l

(* Two lists of the same kinds of demands, in a proportion.                *)
LEMMA SumsScale ==
  ASSUME NEW a \in Int, NEW c \in Int, NEW s \in Seq(Demand), NEW t \in Seq(Demand),
         Len(s) = Len(t),
         \A i \in 1 .. Len(t) : /\ s[i].category = t[i].category /\ s[i].mode = t[i].mode
                                /\ s[i].pattern = t[i].pattern
                                /\ a * s[i].amount = c * t[i].amount
  PROVE  \A key : a * SumOf(s, key) = c * SumOf(t, key)
<1> SUFFICES ASSUME NEW key
             PROVE  a * SumOf(s, key) = c * SumOf(t, key)
  OBVIOUS
<1> DEFINE m == Measures(s, key)
           n == Measures(t, key)
<1>1. m \in Seq(Int) /\ Len(m) = Len(s) /\ SumOf(s, key) = Total(m)
      /\ \A i \in 1 .. Len(s) : m[i] = IF Matches(s[i], key) THEN s[i].amount ELSE 0
  BY MeasuresOfList
<1>2. n \in Seq(Int) /\ Len(n) = Len(t) /\ SumOf(t, key) = Total(n)
      /\ \A i \in 1 .. Len(t) : n[i] = IF Matches(t[i], key) THEN t[i].amount ELSE 0
  BY MeasuresOfList
<1> HIDE DEF m, n
<1>3. \A i \in 1 .. Len(m) : a * m[i] = c * n[i]
  <2> SUFFICES ASSUME NEW i \in 1 .. Len(m)
               PROVE  a * m[i] = c * n[i]
    OBVIOUS
  <2>1. i \in 1 .. Len(s) /\ i \in 1 .. Len(t)
    BY <1>1
  <2>2. Matches(s[i], key) <=> Matches(t[i], key)
    BY <2>1, SameMatches
  <2>3. a * s[i].amount = c * t[i].amount
    BY <2>1
  <2>4. CASE Matches(s[i], key)
    BY <1>1, <1>2, <2>1, <2>2, <2>3, <2>4
  <2>5. CASE ~Matches(s[i], key)
    <3>1. m[i] = 0 /\ n[i] = 0
      BY <1>1, <1>2, <2>1, <2>2, <2>5
    <3>2. QED
      BY <3>1
  <2>6. QED
    BY <2>4, <2>5
<1>4. a * Total(m) = c * Total(n)
  BY <1>1, <1>2, <1>3, TotalScales
<1>5. QED
  BY <1>1, <1>2, <1>4

(* Scaling a list scales its sums.                                         *)
LEMMA ScaledSums ==
  ASSUME NEW ds \in Seq(Demand), NEW share, share.parts \in 0 .. Whole, SplitsAll(ds, share.parts)
  PROVE  \A key : /\ Whole * SumOf(Scaled(ds, share), key) = share.parts * SumOf(ds, key)
                  /\ Whole * SumOf(Magnitudes(Scaled(ds, share)), key)
                       = share.parts * SumOf(Magnitudes(ds), key)
<1> DEFINE l == Scaled(ds, share)
           s == Magnitudes(l)
           t == Magnitudes(ds)
<1>1. l \in Seq(Demand) /\ Len(l) = Len(ds)
  BY ScaledList
<1>2. \A i \in 1 .. Len(ds) :
         /\ l[i].category = ds[i].category /\ l[i].mode = ds[i].mode /\ l[i].pattern = ds[i].pattern
         /\ Whole * l[i].amount = share.parts * ds[i].amount
         /\ Whole * Magnitude(l[i].amount) = share.parts * Magnitude(ds[i].amount)
  BY ScaledList
<1> HIDE DEF l
<1>3. share.parts \in Int /\ Whole \in Int
  BY WholeAssumption
<1>4. \A key : Whole * SumOf(l, key) = share.parts * SumOf(ds, key)
  BY <1>1, <1>2, <1>3, SumsScale
<1>5. s \in Seq(Demand) /\ Len(s) = Len(l)
      /\ \A i \in 1 .. Len(l) : s[i] = [l[i] EXCEPT !.amount = Magnitude(l[i].amount)]
  BY <1>1, MagnitudesOfList
<1>6. t \in Seq(Demand) /\ Len(t) = Len(ds)
      /\ \A i \in 1 .. Len(ds) : t[i] = [ds[i] EXCEPT !.amount = Magnitude(ds[i].amount)]
  BY MagnitudesOfList
<1> HIDE DEF s, t
<1>7. \A i \in 1 .. Len(t) : /\ s[i].category = t[i].category /\ s[i].mode = t[i].mode
                             /\ s[i].pattern = t[i].pattern
                             /\ Whole * s[i].amount = share.parts * t[i].amount
  <2> SUFFICES ASSUME NEW i \in 1 .. Len(ds)
               PROVE  /\ s[i].category = t[i].category /\ s[i].mode = t[i].mode
                      /\ s[i].pattern = t[i].pattern
                      /\ Whole * s[i].amount = share.parts * t[i].amount
    BY <1>6
  <2>1. l[i] \in Demand /\ ds[i] \in Demand
    BY <1>1
  <2>2. Magnitude(l[i].amount) \in Int /\ Magnitude(ds[i].amount) \in Int
    BY <2>1 DEF Magnitude, Demand
  <2>3. s[i] = [l[i] EXCEPT !.amount = Magnitude(l[i].amount)]
        /\ t[i] = [ds[i] EXCEPT !.amount = Magnitude(ds[i].amount)]
    BY <1>1, <1>5, <1>6
  <2>4. s[i].amount = Magnitude(l[i].amount) /\ s[i].category = l[i].category
        /\ s[i].mode = l[i].mode /\ s[i].pattern = l[i].pattern
    BY <2>1, <2>2, <2>3, DemandIsRecord
  <2>5. t[i].amount = Magnitude(ds[i].amount) /\ t[i].category = ds[i].category
        /\ t[i].mode = ds[i].mode /\ t[i].pattern = ds[i].pattern
    BY <2>1, <2>2, <2>3, DemandIsRecord
  <2>6. QED
    BY <1>2, <2>4, <2>5
<1>8. \A key : Whole * SumOf(s, key) = share.parts * SumOf(t, key)
  <2>1. s \in Seq(Demand) /\ t \in Seq(Demand) /\ Len(s) = Len(t)
    BY <1>1, <1>5, <1>6
  <2>2. QED
    BY <1>3, <1>7, <2>1, SumsScale
<1>9. QED
  BY <1>4, <1>8 DEF l, s, t

(* What a junction gets through one share.                                 *)
PartOf(share, j, ds) == IF share.to = j /\ share.parts # 0 THEN Scaled(ds, share) ELSE <<>>

(* The parts that go to a junction through one share.                      *)
Parts(share, j) == IF share.to = j THEN share.parts ELSE 0

(* A demand has the kind of one in a list, and is finite.                  *)
ComesFrom(d, ds) ==
    /\ Finite(d.amount)
    /\ \E i \in 1 .. Len(ds) : /\ d.category = ds[i].category /\ d.mode = ds[i].mode
                               /\ d.pattern = ds[i].pattern

(* appendScaledDemands, once.                                              *)
LEMMA PartIs ==
  ASSUME NEW ds \in Seq(Demand), NEW share, NEW j, share.parts \in 0 .. Whole,
         SplitsAll(ds, share.parts), ShareIsValid(share, ds)
  PROVE  LET part == PartOf(share, j, ds)
         IN  /\ part \in Seq(Demand)
             /\ \A i \in 1 .. Len(part) : ComesFrom(part[i], ds)
             /\ \A key : /\ Whole * SumOf(part, key) = Parts(share, j) * SumOf(ds, key)
                         /\ Whole * SumOf(Magnitudes(part), key)
                              = Parts(share, j) * SumOf(Magnitudes(ds), key)
<1> DEFINE part == PartOf(share, j, ds)
<1>1. CASE share.to = j /\ share.parts # 0
  <2>1. part = Scaled(ds, share) /\ Parts(share, j) = share.parts
    BY <1>1 DEF PartOf, Parts
  <2>2. part \in Seq(Demand) /\ Len(part) = Len(ds)
    BY <2>1, ScaledList
  <2>3. \A i \in 1 .. Len(part) : ComesFrom(part[i], ds)
    <3> SUFFICES ASSUME NEW i \in 1 .. Len(ds)
                 PROVE  ComesFrom(part[i], ds)
      BY <2>2
    <3>1. LET e == Scaled(ds, share)[i]
          IN  /\ e.category = ds[i].category /\ e.mode = ds[i].mode /\ e.pattern = ds[i].pattern
              /\ Magnitude(e.amount) <= Magnitude(ds[i].amount)
      BY ScaledList
    <3>2. Finite(ds[i].amount)
      BY <1>1 DEF ShareIsValid
    <3>3. part[i] \in Demand
      BY <2>2
    <3>4. part[i].amount \in Int
      BY <3>3 DEF Demand
    <3>5. Magnitude(part[i].amount) <= Magnitude(ds[i].amount)
      BY <2>1, <3>1
    <3>6. Finite(part[i].amount)
      BY <3>2, <3>4, <3>5, LimitAssumption DEF Finite, Magnitude
    <3>7. QED
      BY <2>1, <3>1, <3>6 DEF ComesFrom
  <2>4. QED
    BY <2>1, <2>2, <2>3, ScaledSums
<1>2. CASE ~(share.to = j /\ share.parts # 0)
  <2>1. part = <<>> /\ Parts(share, j) = 0
    BY <1>2 DEF PartOf, Parts
  <2>2. <<>> \in Seq(Demand) /\ Len(<<>>) = 0
    BY EmptySeq
  <2>3. Magnitudes(<<>>) = <<>>
    <3>1. Magnitudes(<<>>) \in Seq(Demand) /\ Len(Magnitudes(<<>>)) = 0
      BY <2>2, MagnitudesOfList
    <3>2. QED
      BY <3>1
  <2>4. ASSUME NEW key
        PROVE  /\ Whole * SumOf(part, key) = Parts(share, j) * SumOf(ds, key)
               /\ Whole * SumOf(Magnitudes(part), key) = Parts(share, j) * SumOf(Magnitudes(ds), key)
    <3>1. SumOf(part, key) = 0 /\ SumOf(Magnitudes(part), key) = 0
      BY <2>1, <2>3, SumOfNothing
    <3>2. SumOf(ds, key) \in Int /\ SumOf(Magnitudes(ds), key) \in Int
      BY MeasuresOfList, SumOfMagnitudes
    <3>3. QED
      BY <2>1, <3>1, <3>2, WholeAssumption
  <2>5. \A i \in 1 .. Len(part) : ComesFrom(part[i], ds)
    BY <2>1, <2>2
  <2>6. QED
    BY <2>1, <2>2, <2>4, <2>5
<1>3. QED
  BY <1>1, <1>2

-----------------------------------------------------------------------------
(* What a junction gets of a point, through both shares.                   *)

(* What a junction got of a point: a proportion of its demands.            *)
GotPart(got, ds, parts) ==
    /\ got \in Seq(Demand)
    /\ \A i \in 1 .. Len(got) : ComesFrom(got[i], ds)
    /\ \A key : /\ Whole * SumOf(got, key) = parts * SumOf(ds, key)
                /\ Whole * SumOf(Magnitudes(got), key) = parts * SumOf(Magnitudes(ds), key)

(* One share gives its proportion.                                         *)
LEMMA PartIsGot ==
  ASSUME NEW ds \in Seq(Demand), NEW share, NEW j, share.parts \in 0 .. Whole,
         SplitsAll(ds, share.parts), ShareIsValid(share, ds)
  PROVE  GotPart(PartOf(share, j, ds), ds, Parts(share, j)) /\ Parts(share, j) \in 0 .. Whole
<1>1. Parts(share, j) \in 0 .. Whole
  BY WholeAssumption DEF Parts
<1>2. QED
  BY <1>1, PartIs DEF GotPart

(* Proportions add.                                                        *)
LEMMA Together ==
  \A w, b, d, p, q, x \in Int : w * b = p * x /\ w * d = q * x => w * (b + d) = (p + q) * x
<1> SUFFICES ASSUME NEW w \in Int, NEW b \in Int, NEW d \in Int, NEW p \in Int, NEW q \in Int,
                    NEW x \in Int, w * b = p * x, w * d = q * x
             PROVE  w * (b + d) = (p + q) * x
  OBVIOUS
<1>1. (p + q) * x = p * x + q * x
  OBVIOUS
<1>2. w * (b + d) = w * b + w * d
  OBVIOUS
<1>3. QED
  BY <1>1, <1>2

(* Two shares of a point.                                                  *)
LEMMA GotBoth ==
  ASSUME NEW ds \in Seq(Demand), NEW s, NEW t, NEW p \in Int, NEW q \in Int,
         GotPart(s, ds, p), GotPart(t, ds, q)
  PROVE  GotPart(s \o t, ds, p + q)
<1>1. s \in Seq(Demand) /\ t \in Seq(Demand)
  BY DEF GotPart
<1>2. s \o t \in Seq(Demand) /\ Len(s \o t) = Len(s) + Len(t)
      /\ \A i \in 1 .. Len(s) + Len(t) : (s \o t)[i] = IF i <= Len(s) THEN s[i] ELSE t[i - Len(s)]
  BY <1>1, ConcatProperties
<1>3. Len(s) \in Nat /\ Len(t) \in Nat
  BY <1>1
<1>4. \A i \in 1 .. Len(s \o t) : ComesFrom((s \o t)[i], ds)
  <2> SUFFICES ASSUME NEW i \in 1 .. Len(s) + Len(t)
               PROVE  ComesFrom((s \o t)[i], ds)
    BY <1>2
  <2>1. CASE i <= Len(s)
    <3>1. i \in 1 .. Len(s) /\ (s \o t)[i] = s[i]
      BY <1>2, <1>3, <2>1
    <3>2. QED
      BY <3>1 DEF GotPart
  <2>2. CASE ~(i <= Len(s))
    <3>1. i - Len(s) \in 1 .. Len(t) /\ (s \o t)[i] = t[i - Len(s)]
      BY <1>2, <1>3, <2>2
    <3>2. QED
      BY <3>1 DEF GotPart
  <2>3. QED
    BY <2>1, <2>2
<1>5. ASSUME NEW key
      PROVE  /\ Whole * SumOf(s \o t, key) = (p + q) * SumOf(ds, key)
             /\ Whole * SumOf(Magnitudes(s \o t), key) = (p + q) * SumOf(Magnitudes(ds), key)
  <2>1. SumOf(s \o t, key) = SumOf(s, key) + SumOf(t, key)
    BY <1>1, SumOfConcat
  <2>2. SumOf(Magnitudes(s \o t), key) = SumOf(Magnitudes(s), key) + SumOf(Magnitudes(t), key)
    <3>1. Magnitudes(s) \in Seq(Demand) /\ Magnitudes(t) \in Seq(Demand)
      BY <1>1, MagnitudesOfList
    <3>2. Magnitudes(s \o t) = Magnitudes(s) \o Magnitudes(t)
      BY <1>1, MagnitudesOfConcat
    <3>3. QED
      BY <3>1, <3>2, SumOfConcat
  <2>3. SumOf(s, key) \in Int /\ SumOf(t, key) \in Int /\ SumOf(ds, key) \in Int
    BY <1>1, MeasuresOfList
  <2>4. SumOf(Magnitudes(s), key) \in Int /\ SumOf(Magnitudes(t), key) \in Int
        /\ SumOf(Magnitudes(ds), key) \in Int
    BY <1>1, SumOfMagnitudes
  <2>5. /\ Whole * SumOf(s, key) = p * SumOf(ds, key)
        /\ Whole * SumOf(Magnitudes(s), key) = p * SumOf(Magnitudes(ds), key)
        /\ Whole * SumOf(t, key) = q * SumOf(ds, key)
        /\ Whole * SumOf(Magnitudes(t), key) = q * SumOf(Magnitudes(ds), key)
    BY DEF GotPart
  <2>6. Whole \in Int
    BY WholeAssumption
  <2>7. Whole * (SumOf(s, key) + SumOf(t, key)) = (p + q) * SumOf(ds, key)
    BY <2>3, <2>5, <2>6, Together
  <2>8. Whole * (SumOf(Magnitudes(s), key) + SumOf(Magnitudes(t), key))
          = (p + q) * SumOf(Magnitudes(ds), key)
    <3> DEFINE a == SumOf(Magnitudes(s), key)
               b == SumOf(Magnitudes(t), key)
               c == SumOf(Magnitudes(ds), key)
    <3>1. a \in Int /\ b \in Int /\ c \in Int
      BY <2>4
    <3>2. Whole * a = p * c /\ Whole * b = q * c
      BY <2>5
    <3> HIDE DEF a, b, c
    <3>3. Whole * (a + b) = (p + q) * c
      BY <2>6, <3>1, <3>2, Together
    <3>4. QED
      BY <3>3 DEF a, b, c
  <2>9. QED
    BY <2>1, <2>2, <2>7, <2>8
<1>6. QED
  BY <1>2, <1>4, <1>5 DEF GotPart

(* A part is at most all of it.                                            *)
LEMMA GotAtMost ==
  ASSUME NEW ds \in Seq(Demand), NEW got, NEW parts \in 0 .. Whole, GotPart(got, ds, parts)
  PROVE  \A key : SumOf(Magnitudes(got), key) <= SumOf(Magnitudes(ds), key)
<1> SUFFICES ASSUME NEW key
             PROVE  SumOf(Magnitudes(got), key) <= SumOf(Magnitudes(ds), key)
  OBVIOUS
<1> DEFINE g == SumOf(Magnitudes(got), key)
           d == SumOf(Magnitudes(ds), key)
<1>1. g \in Nat /\ d \in Nat /\ Whole * g = parts * d
  BY SumOfMagnitudes DEF GotPart
<1> HIDE DEF g, d
<1>2. Whole \in Nat /\ Whole > 0 /\ parts \in Nat /\ parts <= Whole
  BY WholeAssumption
<1>3. parts * d <= Whole * d
  BY <1>1, <1>2
<1>4. CASE g > d
  <2>1. Whole * g > Whole * d
    BY <1>1, <1>2, <1>4
  <2>2. Whole * g \in Int /\ Whole * d \in Int
    BY <1>1, <1>2
  <2>3. QED
    BY <1>1, <1>3, <2>1, <2>2
<1>5. QED
  BY <1>1, <1>4 DEF g, d

(* Received: what a junction gets of a point that is valid.                *)
LEMMA ReceivedIs ==
  ASSUME network.pipes \subseteq Pipes, network.ends = request.ends,
         NEW point \in Point, PointIsValid(point), SplitsAll(point.demands, point.at.position),
         NEW j
  PROVE  /\ GotPart(Received(j, point), point.demands, PartsFor(j, point.at))
         /\ PartsFor(j, point.at) \in 0 .. Whole
<1> DEFINE at == point.at
           ds == point.demands
           ends == network.ends[at.pipe]
<1>1. ds \in Seq(Demand) /\ at \in Attachment
  BY DEF Point
<1>2. at.type \in {"Junction", "Pipe"} /\ at.position \in Int
  BY <1>1 DEF PointIsValid, AttachmentIsValid, Attachment
<1>3. SplitsAll(ds, Whole)
  <2>1. \A i \in 1 .. Len(ds) : ds[i].amount \in Int
    <3>1. \A i \in 1 .. Len(ds) : ds[i] \in Demand
      BY <1>1
    <3>2. QED
      BY <3>1 DEF Demand
  <2>2. QED
    BY <2>1, SplitsWhole DEF SplitsAll
<1>4. Whole \in 0 .. Whole
  BY WholeAssumption
<1>5. ASSUME NEW to, Shares(at) = <<[to |-> to, parts |-> Whole]>>,
             PartsFor(j, at) = IF j = to THEN Whole ELSE 0
      PROVE  /\ GotPart(Received(j, point), ds, PartsFor(j, at))
             /\ PartsFor(j, at) \in 0 .. Whole
  <2> DEFINE share == [to |-> to, parts |-> Whole]
  <2>1. share.parts = Whole /\ share.to = to
    OBVIOUS
  <2>2. DOMAIN Shares(at) = {1} /\ Shares(at)[1] = share
    BY <1>5
  <2> HIDE DEF share
  <2>3. ShareIsValid(share, ds)
    BY <2>2 DEF PointIsValid
  <2>4. GotPart(PartOf(share, j, ds), ds, Parts(share, j)) /\ Parts(share, j) \in 0 .. Whole
    BY <1>1, <1>3, <1>4, <2>1, <2>3, PartIsGot
  <2>5. Received(j, point) = PartOf(share, j, ds) \o <<>>
    BY <2>2 DEF Received, PartOf
  <2>6. PartOf(share, j, ds) \o <<>> = PartOf(share, j, ds)
    <3>1. PartOf(share, j, ds) \in Seq(Demand)
      BY <2>4 DEF GotPart
    <3>2. QED
      BY <3>1, ConcatEmptySeq
  <2>7. Parts(share, j) = PartsFor(j, at)
    BY <1>5, <2>1 DEF Parts
  <2>8. QED
    BY <2>4, <2>5, <2>6, <2>7
<1>6. CASE at.type = "Junction"
  <2>1. Shares(at) = <<[to |-> at.junction, parts |-> Whole]>>
    BY <1>6 DEF Shares
  <2>2. PartsFor(j, at) = IF j = at.junction THEN Whole ELSE 0
    BY <1>6 DEF PartsFor
  <2>3. QED
    BY <1>5, <2>1, <2>2
<1>7. CASE at.type = "Pipe" /\ at.mode = "AssignedJunction"
  <2>1. Shares(at) = <<[to |-> at.assigned, parts |-> Whole]>>
    BY <1>7 DEF Shares
  <2>2. PartsFor(j, at) = IF j = at.assigned THEN Whole ELSE 0
    BY <1>7 DEF PartsFor
  <2>3. QED
    BY <1>5, <2>1, <2>2
<1>8. CASE at.type = "Pipe" /\ at.mode # "AssignedJunction"
  <2> DEFINE s == [to |-> ends.from, parts |-> Whole - at.position]
             t == [to |-> ends.to, parts |-> at.position]
  <2>1. Shares(at) = <<s, t>>
    BY <1>8 DEF Shares
  <2>2. s.parts = Whole - at.position /\ t.parts = at.position /\ s.to = ends.from /\ t.to = ends.to
    OBVIOUS
  <2> HIDE DEF s, t
  <2>3. DOMAIN Shares(at) = {1, 2} /\ Shares(at)[1] = s /\ Shares(at)[2] = t
    BY <2>1
  <2>4. at.position \in 0 .. Whole /\ Whole - at.position \in 0 .. Whole
    <3>1. at.position \in 0 .. Whole
      BY <1>8 DEF PointIsValid, AttachmentIsValid
    <3>2. QED
      BY <3>1, WholeAssumption
  <2>5. ShareIsValid(s, ds) /\ ShareIsValid(t, ds)
    BY <2>3 DEF PointIsValid
  <2>6. SplitsAll(ds, Whole - at.position)
    <3>1. \A i \in 1 .. Len(ds) : ds[i].amount \in Int
      <4>1. \A i \in 1 .. Len(ds) : ds[i] \in Demand
        BY <1>1
      <4>2. QED
        BY <4>1 DEF Demand
    <3>2. QED
      BY <1>2, <3>1, SplitsRest DEF SplitsAll
  <2>7. GotPart(PartOf(s, j, ds), ds, Parts(s, j)) /\ Parts(s, j) \in 0 .. Whole
    BY <1>1, <2>2, <2>4, <2>5, <2>6, PartIsGot
  <2>8. GotPart(PartOf(t, j, ds), ds, Parts(t, j)) /\ Parts(t, j) \in 0 .. Whole
    BY <1>1, <2>2, <2>4, <2>5, PartIsGot
  <2>9. GotPart(PartOf(s, j, ds) \o PartOf(t, j, ds), ds, Parts(s, j) + Parts(t, j))
    <3>1. Parts(s, j) \in Int /\ Parts(t, j) \in Int
      BY <2>7, <2>8
    <3>2. QED
      BY <1>1, <2>7, <2>8, <3>1, GotBoth
  <2>10. Received(j, point) = PartOf(s, j, ds) \o PartOf(t, j, ds)
    BY <2>3 DEF Received, PartOf
  <2>11. PartsFor(j, at) = Parts(s, j) + Parts(t, j)
    BY <1>8, <2>2 DEF PartsFor, Parts
  <2>12. PartsFor(j, at) \in 0 .. Whole
    BY <2>2, <2>4, <2>11, WholeAssumption DEF Parts
  <2>13. QED
    BY <2>9, <2>10, <2>11, <2>12
<1>9. QED
  BY <1>2, <1>6, <1>7, <1>8

-----------------------------------------------------------------------------
(* Compaction: one entry per kind of demand.                               *)

(* The first demand that matches.                                          *)
LEMMA LeastOf ==
  ASSUME NEW S \in SUBSET Nat, S # {}
  PROVE  Min(S) \in S
<1> DEFINE R == OpToRel(<, Nat)
<1>1. IsWellFoundedOn(R, Nat)
  BY NatLessThanWellFounded
<1>2. \A x, y \in Nat : <<x, y>> \in R <=> x < y
  BY DEF OpToRel
<1> HIDE DEF R
<1>3. PICK x \in S : \A y \in S : ~ (<<y, x>> \in R)
  BY <1>1, WFMin
<1>4. \A y \in S : x =< y
  <2> SUFFICES ASSUME NEW y \in S
               PROVE  x =< y
    OBVIOUS
  <2>1. x \in Nat /\ y \in Nat /\ ~(<<y, x>> \in R)
    BY <1>3
  <2>2. ~(y < x)
    BY <1>2, <2>1
  <2>3. QED
    BY <2>1, <2>2
<1>5. \E z \in S : \A y \in S : z =< y
  BY <1>4
<1>6. QED
  BY <1>5, Zenon DEF Min

(* A change at one place changes the total by as much.                     *)
LEMMA TotalChanges ==
  ASSUME NEW r \in Seq(Int), NEW s \in Seq(Int), Len(r) = Len(s), NEW m \in 1 .. Len(s),
         \A i \in 1 .. Len(s) : i # m => r[i] = s[i]
  PROVE  Total(r) = Total(s) + (r[m] - s[m])
<1> DEFINE d == [i \in 1 .. Len(s) |-> IF i = m THEN r[m] - s[m] ELSE 0]
<1>1. Len(s) \in Nat /\ \A i \in 1 .. Len(s) : r[i] \in Int /\ s[i] \in Int
  OBVIOUS
<1>2. d \in Seq(Int) /\ Len(d) = Len(s)
      /\ \A i \in 1 .. Len(s) : d[i] = IF i = m THEN r[m] - s[m] ELSE 0
  BY <1>1
<1> HIDE DEF d
<1>3. Total(d) = r[m] - s[m]
  <2>1. Total(d) = d[m]
    BY <1>2, TotalOfSingle
  <2>2. QED
    BY <1>2, <2>1
<1>4. \A i \in 1 .. Len(r) : r[i] = s[i] + d[i]
  <2> SUFFICES ASSUME NEW i \in 1 .. Len(s)
               PROVE  r[i] = s[i] + d[i]
    OBVIOUS
  <2>1. r[i] \in Int /\ s[i] \in Int
    BY <1>1
  <2>2. CASE i = m
    BY <1>2, <2>1, <2>2
  <2>3. CASE i # m
    BY <1>2, <2>1, <2>3
  <2>4. QED
    BY <2>2, <2>3
<1>5. Total(r) = Total(s) + Total(d)
  <2>1. Len(d) = Len(r)
    BY <1>2
  <2>2. QED
    BY <1>2, <1>4, <2>1, TotalAdds
<1>6. QED
  BY <1>3, <1>5

(* An amount that changes moves the sum by the difference.                 *)
LEMMA SumChanges ==
  ASSUME NEW c \in Seq(Demand), NEW m \in 1 .. Len(c), NEW x \in Int
  PROVE  LET e == [c EXCEPT ![m].amount = x]
         IN  /\ e \in Seq(Demand) /\ Len(e) = Len(c)
             /\ \A i \in 1 .. Len(c) : i # m => e[i] = c[i]
             /\ e[m].amount = x /\ e[m].category = c[m].category /\ e[m].mode = c[m].mode
             /\ e[m].pattern = c[m].pattern
             /\ \A key : SumOf(e, key) = SumOf(c, key)
                           + (IF Matches(c[m], key) THEN x - c[m].amount ELSE 0)
<1> DEFINE e == [c EXCEPT ![m].amount = x]
           d == [c[m] EXCEPT !.amount = x]
<1>1. c[m] \in Demand /\ c[m].amount \in Int
  <2>1. c[m] \in Demand
    OBVIOUS
  <2>2. QED
    BY <2>1 DEF Demand
<1>2. d \in Demand /\ d.amount = x /\ d.category = c[m].category /\ d.mode = c[m].mode
      /\ d.pattern = c[m].pattern
  BY <1>1, DemandIsRecord
<1>3. e = [c EXCEPT ![m] = d]
  <2>1. e = [i \in DOMAIN c |-> IF i = m THEN d ELSE c[i]]
    OBVIOUS
  <2>2. [c EXCEPT ![m] = d] = [i \in DOMAIN c |-> IF i = m THEN d ELSE c[i]]
    OBVIOUS
  <2>3. QED
    BY <2>1, <2>2
<1> HIDE DEF e, d
<1>4. e \in Seq(Demand) /\ Len(e) = Len(c) /\ \A i \in 1 .. Len(c) : e[i] = IF i = m THEN d ELSE c[i]
  <2>1. d \in Demand
    BY <1>2
  <2>2. QED
    BY <1>3, <2>1, ExceptSeq
<1>5. e[m] = d /\ \A i \in 1 .. Len(c) : i # m => e[i] = c[i]
  BY <1>4
<1>6. ASSUME NEW key
      PROVE  SumOf(e, key) = SumOf(c, key) + (IF Matches(c[m], key) THEN x - c[m].amount ELSE 0)
  <2> DEFINE r == Measures(e, key)
             s == Measures(c, key)
  <2>1. r \in Seq(Int) /\ Len(r) = Len(e) /\ SumOf(e, key) = Total(r)
        /\ \A i \in 1 .. Len(e) : r[i] = IF Matches(e[i], key) THEN e[i].amount ELSE 0
    BY <1>4, MeasuresOfList
  <2>2. s \in Seq(Int) /\ Len(s) = Len(c) /\ SumOf(c, key) = Total(s)
        /\ \A i \in 1 .. Len(c) : s[i] = IF Matches(c[i], key) THEN c[i].amount ELSE 0
    BY MeasuresOfList
  <2> HIDE DEF r, s
  <2>3. \A i \in 1 .. Len(s) : i # m => r[i] = s[i]
    BY <1>4, <1>5, <2>1, <2>2
  <2>4. Total(r) = Total(s) + (r[m] - s[m])
    BY <1>4, <2>1, <2>2, <2>3, TotalChanges
  <2>5. Matches(d, key) <=> Matches(c[m], key)
    BY <1>2, SameMatches
  <2>6. r[m] = IF Matches(c[m], key) THEN x ELSE 0
    BY <1>2, <1>4, <1>5, <2>1, <2>5
  <2>7. s[m] = IF Matches(c[m], key) THEN c[m].amount ELSE 0
    BY <2>2
  <2>8. r[m] - s[m] = IF Matches(c[m], key) THEN x - c[m].amount ELSE 0
    BY <1>1, <2>6, <2>7
  <2>9. QED
    BY <2>1, <2>2, <2>4, <2>8
<1>7. QED
  BY <1>2, <1>4, <1>5, <1>6 DEF e

(* The same category and pattern, as written.                              *)
Kind(d, e) == d.category = e.category /\ d.mode = e.mode /\ d.pattern = e.pattern

(* No two demands of a list match, from one on.                            *)
Distinct(c, own) == \A i, k \in own + 1 .. Len(c) : Matches(c[i], c[k]) => i = k

(* The demands after the junction's own, up to one.                        *)
Given(list, own, n) == SubSeq(list, own + 1, n)

(* The magnitudes given so far, of a kind.                                 *)
Weight(list, own, n, key) == SumOf(Magnitudes(Given(list, own, n)), key)

(* aggregateProjectedDemands: after n demands, c has been compacted.       *)
Merging(c, list, own, n) ==
    /\ c \in Seq(Demand) /\ own <= Len(c)
    /\ \A i \in 1 .. own : c[i] = list[i]
    /\ Distinct(c, own)
    /\ \A i \in own + 1 .. Len(c) : \E k \in own + 1 .. n : Kind(c[i], list[k])

(* While nothing overflows, the sums are those of what was added.          *)
Sums(c, list, own, n) ==
    /\ \A i \in own + 1 .. Len(c) : Finite(c[i].amount)
    /\ \A key : SumOf(c, key) = SumOf(SubSeq(list, 1, n), key)

(* No amount exceeds the magnitudes given so far.                          *)
Weighs(c, list, own, n) ==
    \A i \in own + 1 .. Len(c) : Magnitude(c[i].amount) <= Weight(list, own, n, c[i])

(* What overflows has its cause in the magnitudes that were added.         *)
Overflows(c, list, own) ==
    /\ \E i \in own + 1 .. Len(c) : ~Finite(c[i].amount)
    /\ \E k \in own + 1 .. Len(list) : Weight(list, own, Len(list), list[k]) > Limit

(* One more demand is given.                                               *)
LEMMA GivenNext ==
  ASSUME NEW list \in Seq(Demand), NEW own \in 0 .. Len(list), NEW n \in own + 1 .. Len(list)
  PROVE  /\ Given(list, own, n - 1) \in Seq(Demand)
         /\ \A key : Weight(list, own, n, key) = Weight(list, own, n - 1, key)
                       + (IF Matches(list[n], key) THEN Magnitude(list[n].amount) ELSE 0)
         /\ \A key : SumOf(SubSeq(list, 1, n), key) = SumOf(SubSeq(list, 1, n - 1), key)
                       + (IF Matches(list[n], key) THEN list[n].amount ELSE 0)
<1>1. own \in Nat /\ n \in Nat /\ Len(list) \in Nat /\ n \in 1 .. Len(list) /\ own + 1 \in 1 .. Len(list)
      /\ n - 1 \in Int /\ own + 1 \in Int /\ n \in own + 1 .. Len(list) /\ n \in 1 .. Len(list)
  OBVIOUS
<1> DEFINE g == Given(list, own, n - 1)
           d == list[n]
           h == SubSeq(list, 1, n - 1)
<1>2. g \in Seq(Demand) /\ h \in Seq(Demand)
  <2>1. \A i \in own + 1 .. n - 1 : list[i] \in Demand
    BY <1>1
  <2>2. \A i \in 1 .. n - 1 : list[i] \in Demand
    BY <1>1
  <2>3. QED
    BY <1>1, <2>1, <2>2, SubSeqProperties DEF Given
<1>3. d \in Demand /\ d.amount \in Int /\ Magnitude(d.amount) \in Int
  <2>1. d \in Demand
    BY <1>1
  <2>2. QED
    BY <2>1 DEF Demand, Magnitude
<1>4. Given(list, own, n) = g \o <<d>>
  BY <1>1, SubSeqRecursiveSecond DEF Given
<1>5. SubSeq(list, 1, n) = h \o <<d>>
  <2>1. 1 \in 1 .. Len(list) /\ n \in 1 .. Len(list)
    BY <1>1
  <2>2. QED
    BY <2>1, SubSeqRecursiveSecond
<1> HIDE DEF g, d, h
<1>6. <<d>> \in Seq(Demand)
  BY <1>3
<1>7. Magnitudes(<<d>>) = <<[d EXCEPT !.amount = Magnitude(d.amount)]>>
  <2>1. Magnitudes(<<d>>) \in Seq(Demand) /\ Len(Magnitudes(<<d>>)) = Len(<<d>>)
        /\ \A i \in 1 .. Len(<<d>>) :
              Magnitudes(<<d>>)[i] = [<<d>>[i] EXCEPT !.amount = Magnitude(<<d>>[i].amount)]
    BY <1>6, MagnitudesOfList
  <2>2. Len(<<d>>) = 1 /\ <<d>>[1] = d
    OBVIOUS
  <2>3. Magnitudes(<<d>>)[1] = [d EXCEPT !.amount = Magnitude(d.amount)]
    BY <2>1, <2>2
  <2>4. QED
    BY <2>1, <2>2, <2>3
<1>8. ASSUME NEW key
      PROVE  Weight(list, own, n, key) = Weight(list, own, n - 1, key)
                       + (IF Matches(d, key) THEN Magnitude(d.amount) ELSE 0)
  <2> DEFINE e == [d EXCEPT !.amount = Magnitude(d.amount)]
  <2>1. e \in Demand /\ e.amount = Magnitude(d.amount) /\ (Matches(e, key) <=> Matches(d, key))
    <3>1. e \in Demand /\ e.amount = Magnitude(d.amount) /\ e.category = d.category
          /\ e.mode = d.mode /\ e.pattern = d.pattern
      BY <1>3, DemandIsRecord
    <3> HIDE DEF e
    <3>2. QED
      BY <3>1, SameMatches
  <2>2. Magnitudes(g \o <<d>>) = Magnitudes(g) \o <<e>>
    BY <1>2, <1>6, <1>7, MagnitudesOfConcat
  <2> HIDE DEF e
  <2>3. Magnitudes(g) \in Seq(Demand) /\ <<e>> \in Seq(Demand)
    BY <1>2, <2>1, MagnitudesOfList
  <2>4. SumOf(Magnitudes(g) \o <<e>>, key) = SumOf(Magnitudes(g), key) + SumOf(<<e>>, key)
    BY <2>3, SumOfConcat
  <2>5. SumOf(<<e>>, key) = IF Matches(e, key) THEN e.amount ELSE 0
    BY <2>1, SumOfOne
  <2>6. QED
    BY <1>4, <2>1, <2>2, <2>4, <2>5 DEF Weight, g
<1>9. ASSUME NEW key
      PROVE  SumOf(SubSeq(list, 1, n), key) = SumOf(h, key) + (IF Matches(d, key) THEN d.amount ELSE 0)
  <2>1. SumOf(h \o <<d>>, key) = SumOf(h, key) + SumOf(<<d>>, key)
    BY <1>2, <1>6, SumOfConcat
  <2>2. SumOf(<<d>>, key) = IF Matches(d, key) THEN d.amount ELSE 0
    BY <1>3, SumOfOne
  <2>3. QED
    BY <1>5, <2>1, <2>2
<1>10. QED
  BY <1>2, <1>8, <1>9 DEF g, d, h

(* What is given, by index.                                                *)
LEMMA GivenIs ==
  ASSUME NEW list \in Seq(Demand), NEW own \in 0 .. Len(list), NEW n \in own .. Len(list)
  PROVE  Given(list, own, n) \in Seq(Demand) /\ \A key : Weight(list, own, n, key) \in Nat
<1>1. \A i \in own + 1 .. n : list[i] \in Demand
  OBVIOUS
<1>2. own + 1 \in Int /\ n \in Int
  OBVIOUS
<1>3. Given(list, own, n) \in Seq(Demand)
  BY <1>1, <1>2, SubSeqProperties DEF Given
<1>4. QED
  BY <1>3, SumOfMagnitudes DEF Weight

(* Weights never shrink.                                                   *)
LEMMA WeightGrows ==
  ASSUME NEW list \in Seq(Demand), NEW own \in 0 .. Len(list), NEW n \in own .. Len(list), NEW key
  PROVE  Weight(list, own, n, key) <= Weight(list, own, Len(list), key)
<1> DEFINE W(k) == Weight(list, own, k, key)
           T == {k \in Nat : n + k <= Len(list) => W(n) <= W(n + k)}
<1>1. Len(list) \in Nat /\ n \in Nat /\ own \in Nat /\ own <= n /\ n <= Len(list)
  OBVIOUS
<1>2. \A k \in own .. Len(list) : W(k) \in Nat
  BY GivenIs
<1>3. \A k \in own + 1 .. Len(list) : W(k - 1) <= W(k)
  <2> SUFFICES ASSUME NEW k \in own + 1 .. Len(list)
               PROVE  W(k - 1) <= W(k)
    OBVIOUS
  <2>1. W(k) = W(k - 1) + (IF Matches(list[k], key) THEN Magnitude(list[k].amount) ELSE 0)
    BY GivenNext
  <2>2. list[k] \in Demand
    BY <1>1
  <2>3. Magnitude(list[k].amount) \in Nat
    BY <2>2 DEF Magnitude, Demand
  <2>4. W(k - 1) \in Nat
    <3>1. k - 1 \in own .. Len(list)
      BY <1>1
    <3>2. QED
      BY <1>2, <3>1
  <2> HIDE DEF W
  <2>5. QED
    BY <2>1, <2>3, <2>4
<1> HIDE DEF W
<1>4. 0 \in T
  <2>1. W(n) \in Nat /\ n + 0 = n
    BY <1>1, <1>2
  <2>2. QED
    BY <2>1
<1>5. \A k \in Nat : k \in T => k + 1 \in T
  <2> SUFFICES ASSUME NEW k \in Nat, k \in T, n + (k + 1) <= Len(list)
               PROVE  W(n) <= W(n + (k + 1))
    OBVIOUS
  <2>1. n + k \in own .. Len(list) /\ n + (k + 1) \in own + 1 .. Len(list) /\ n \in own .. Len(list)
        /\ (n + (k + 1)) - 1 = n + k /\ n + (k + 1) \in own .. Len(list)
    BY <1>1
  <2>2. W(n) <= W(n + k)
    BY <1>1, <2>1
  <2>3. W(n + k) <= W(n + (k + 1))
    BY <1>3, <2>1
  <2>4. W(n) \in Nat /\ W(n + k) \in Nat /\ W(n + (k + 1)) \in Nat
    BY <1>2, <2>1
  <2>5. QED
    BY <2>2, <2>3, <2>4
<1>6. \A k \in Nat : k \in T
  <2> HIDE DEF T
  <2>1. QED
    BY <1>4, <1>5, SetInduction
<1>7. Len(list) - n \in Nat /\ n + (Len(list) - n) = Len(list)
  BY <1>1
<1>8. W(n) <= W(n + (Len(list) - n))
  BY <1>6, <1>7
<1>9. QED
  BY <1>7, <1>8 DEF W

(* Matching demands have one weight.                                       *)
LEMMA SameWeight ==
  ASSUME NEW list, NEW own, NEW n, NEW d, NEW e, Kind(d, e)
  PROVE  Weight(list, own, n, d) = Weight(list, own, n, e)
<1> DEFINE g == Magnitudes(Given(list, own, n))
<1>1. \A x : Matches(x, d) <=> Matches(x, e)
  BY SameMatches DEF Kind
<1>2. SumOf(g, d) = SumOf(g, e)
  <2> HIDE DEF g
  <2>1. [i \in DOMAIN g |-> IF Matches(g[i], d) THEN g[i].amount ELSE 0]
          = [i \in DOMAIN g |-> IF Matches(g[i], e) THEN g[i].amount ELSE 0]
    BY <1>1
  <2>2. QED
    BY <2>1 DEF SumOf
<1>3. QED
  BY <1>2 DEF Weight

(* A demand that matches nothing is appended.                              *)
LEMMA AppendStep ==
  ASSUME NEW list \in Seq(Demand), NEW own \in 0 .. Len(list), NEW n \in own + 1 .. Len(list),
         NEW c, Merging(c, list, own, n - 1), Finite(list[n].amount),
         \A i \in own + 1 .. Len(c) : ~Matches(c[i], list[n]),
         (Sums(c, list, own, n - 1) /\ Weighs(c, list, own, n - 1)) \/ Overflows(c, list, own)
  PROVE  LET e == Append(c, list[n])
         IN  /\ Merging(e, list, own, n)
             /\ (Sums(e, list, own, n) /\ Weighs(e, list, own, n)) \/ Overflows(e, list, own)
<1> DEFINE d == list[n]
           e == Append(c, d)
<1>1. c \in Seq(Demand) /\ own <= Len(c) /\ Len(c) \in Nat /\ Len(list) \in Nat
  BY DEF Merging
<1>2. d \in Demand /\ d.amount \in Int
  <2>1. n \in 1 .. Len(list)
    OBVIOUS
  <2>2. d \in Demand
    BY <2>1
  <2>3. QED
    BY <2>2 DEF Demand
<1> HIDE DEF d
<1>3. e \in Seq(Demand) /\ Len(e) = Len(c) + 1 /\ e[Len(c) + 1] = d
      /\ \A i \in 1 .. Len(c) : e[i] = c[i]
  BY <1>1, <1>2, AppendProperties
<1>4. e = c \o <<d>> /\ <<d>> \in Seq(Demand)
  BY <1>1, <1>2, AppendIsConcat
<1> HIDE DEF e
<1>5. \A i \in own + 1 .. Len(e) : (i \in own + 1 .. Len(c) /\ e[i] = c[i]) \/ (i = Len(c) + 1 /\ e[i] = d)
  BY <1>1, <1>3
<1>6. Distinct(e, own)
  <2> SUFFICES ASSUME NEW i \in own + 1 .. Len(e), NEW k \in own + 1 .. Len(e), Matches(e[i], e[k])
               PROVE  i = k
    BY DEF Distinct
  <2>1. Matches(e[k], e[i])
    BY MatchesIsEquivalence
  <2>2. CASE i \in own + 1 .. Len(c) /\ e[i] = c[i]
    <3>1. CASE k \in own + 1 .. Len(c) /\ e[k] = c[k]
      BY <2>2, <3>1 DEF Merging, Distinct
    <3>2. CASE k = Len(c) + 1 /\ e[k] = d
      BY <2>2, <3>2 DEF d
    <3>3. QED
      BY <1>5, <3>1, <3>2
  <2>3. CASE i = Len(c) + 1 /\ e[i] = d
    <3>1. CASE k \in own + 1 .. Len(c) /\ e[k] = c[k]
      BY <2>1, <2>3, <3>1 DEF d
    <3>2. CASE k = Len(c) + 1 /\ e[k] = d
      BY <2>3, <3>2
    <3>3. QED
      BY <1>5, <3>1, <3>2
  <2>4. QED
    BY <1>5, <2>2, <2>3
<1>7. \A i \in own + 1 .. Len(e) : \E k \in own + 1 .. n : Kind(e[i], list[k])
  <2> SUFFICES ASSUME NEW i \in own + 1 .. Len(e)
               PROVE  \E k \in own + 1 .. n : Kind(e[i], list[k])
    OBVIOUS
  <2>1. CASE i \in own + 1 .. Len(c) /\ e[i] = c[i]
    <3>1. PICK k \in own + 1 .. n - 1 : Kind(c[i], list[k])
      BY <2>1 DEF Merging
    <3>2. k \in own + 1 .. n
      OBVIOUS
    <3>3. QED
      BY <2>1, <3>1, <3>2
  <2>2. CASE e[i] = d
    <3>1. Kind(d, list[n]) /\ n \in own + 1 .. n
      BY DEF Kind, d
    <3>2. QED
      BY <2>2, <3>1
  <2>3. QED
    BY <1>5, <2>1, <2>2
<1>8. Merging(e, list, own, n)
  <2>1. \A i \in 1 .. own : e[i] = list[i]
    BY <1>1, <1>3 DEF Merging
  <2>2. own <= Len(e)
    BY <1>1, <1>3
  <2>3. QED
    BY <1>3, <1>6, <1>7, <2>1, <2>2 DEF Merging
<1>9. CASE Sums(c, list, own, n - 1) /\ Weighs(c, list, own, n - 1)
  <2>1. \A i \in own + 1 .. Len(e) : Finite(e[i].amount)
    BY <1>5, <1>9 DEF Sums, d
  <2>2. ASSUME NEW key
        PROVE  SumOf(e, key) = SumOf(SubSeq(list, 1, n), key)
    <3>1. SumOf(e, key) = SumOf(c, key) + SumOf(<<d>>, key)
      BY <1>1, <1>4, SumOfConcat
    <3>2. SumOf(<<d>>, key) = IF Matches(d, key) THEN d.amount ELSE 0
      BY <1>2, SumOfOne
    <3>3. SumOf(c, key) = SumOf(SubSeq(list, 1, n - 1), key)
      BY <1>9 DEF Sums
    <3>4. SumOf(SubSeq(list, 1, n), key) = SumOf(SubSeq(list, 1, n - 1), key)
                       + (IF Matches(d, key) THEN d.amount ELSE 0)
      BY GivenNext DEF d
    <3>5. QED
      BY <3>1, <3>2, <3>3, <3>4
  <2>3. \A key : /\ Weight(list, own, n - 1, key) \in Nat /\ Magnitude(d.amount) \in Nat
                 /\ Weight(list, own, n, key) = Weight(list, own, n - 1, key)
                       + (IF Matches(d, key) THEN Magnitude(d.amount) ELSE 0)
    <3>1. n - 1 \in own .. Len(list)
      BY <1>1
    <3>2. \A key : Weight(list, own, n - 1, key) \in Nat
      BY <3>1, GivenIs
    <3>3. Magnitude(d.amount) \in Nat
      BY <1>2 DEF Magnitude
    <3>4. QED
      BY <3>2, <3>3, GivenNext DEF d
  <2>4. \A i \in own + 1 .. Len(e) : Magnitude(e[i].amount) <= Weight(list, own, n, e[i])
    <3> SUFFICES ASSUME NEW i \in own + 1 .. Len(e)
                 PROVE  Magnitude(e[i].amount) <= Weight(list, own, n, e[i])
      OBVIOUS
    <3>1. CASE i \in own + 1 .. Len(c) /\ e[i] = c[i]
      <4>1. Magnitude(c[i].amount) <= Weight(list, own, n - 1, c[i])
        BY <1>9, <3>1 DEF Weighs
      <4>2. c[i] \in Demand
        BY <1>1, <3>1
      <4>3. Magnitude(c[i].amount) \in Nat
        BY <4>2 DEF Magnitude, Demand
      <4>4. QED
        BY <2>3, <3>1, <4>1, <4>3
    <3>2. CASE e[i] = d
      <4>1. Matches(d, d)
        BY MatchesIsEquivalence
      <4>2. QED
        BY <2>3, <3>2, <4>1
    <3>3. QED
      BY <1>5, <3>1, <3>2
  <2>5. QED
    BY <1>8, <2>1, <2>2, <2>4 DEF Sums, Weighs, e, d
<1>10. CASE Overflows(c, list, own)
  <2>1. PICK i \in own + 1 .. Len(c) : ~Finite(c[i].amount)
    BY <1>10 DEF Overflows
  <2>2. i \in own + 1 .. Len(e) /\ e[i] = c[i]
    BY <1>1, <1>3
  <2>3. Overflows(e, list, own)
    BY <1>10, <2>1, <2>2 DEF Overflows
  <2>4. QED
    BY <1>8, <2>3 DEF e, d
<1>11. QED
  BY <1>9, <1>10

(* A demand that matches an earlier one is added to it.                    *)
LEMMA AddStep ==
  ASSUME NEW list \in Seq(Demand), NEW own \in 0 .. Len(list), NEW n \in own + 1 .. Len(list),
         NEW c, Merging(c, list, own, n - 1), Finite(list[n].amount),
         NEW m \in own + 1 .. Len(c), Matches(c[m], list[n]),
         (Sums(c, list, own, n - 1) /\ Weighs(c, list, own, n - 1)) \/ Overflows(c, list, own)
  PROVE  LET e == [c EXCEPT ![m].amount = Plus(c[m].amount, list[n].amount)]
         IN  /\ Merging(e, list, own, n)
             /\ (Sums(e, list, own, n) /\ Weighs(e, list, own, n)) \/ Overflows(e, list, own)
<1> DEFINE d == list[n]
           a == c[m].amount
           x == Plus(a, d.amount)
           e == [c EXCEPT ![m].amount = x]
<1>1. c \in Seq(Demand) /\ own <= Len(c) /\ Len(c) \in Nat /\ Len(list) \in Nat /\ m \in 1 .. Len(c)
      /\ m \in own + 1 .. Len(c)
  BY DEF Merging
<1>2. d \in Demand /\ d.amount \in Int
  <2>1. n \in 1 .. Len(list)
    OBVIOUS
  <2>2. d \in Demand
    BY <2>1
  <2>3. QED
    BY <2>2 DEF Demand
<1>3. c[m] \in Demand /\ a \in Int
  <2>1. c[m] \in Demand
    BY <1>1
  <2>2. QED
    BY <2>1 DEF Demand
<1>4. Finite(d.amount) /\ Matches(c[m], d)
  OBVIOUS
<1> HIDE DEF d, a
<1>5. x = IF Finite(a) /\ Finite(a + d.amount) THEN a + d.amount ELSE Limit + 1
  BY <1>4 DEF Plus
<1>6. x \in Int /\ (~(Finite(a) /\ Finite(a + d.amount)) => ~Finite(x))
  BY <1>2, <1>3, <1>5, LimitAssumption DEF Finite
<1> HIDE DEF x
<1>7. /\ e \in Seq(Demand) /\ Len(e) = Len(c)
      /\ \A i \in 1 .. Len(c) : i # m => e[i] = c[i]
      /\ e[m].amount = x /\ Kind(e[m], c[m])
      /\ \A key : SumOf(e, key) = SumOf(c, key) + (IF Matches(c[m], key) THEN x - a ELSE 0)
  BY <1>1, <1>6, SumChanges DEF Kind, a
<1> HIDE DEF e
<1>8. \A i \in 1 .. Len(e) : Kind(e[i], c[i])
  BY <1>7 DEF Kind
<1>9. Merging(e, list, own, n)
  <2>1. \A i \in 1 .. own : e[i] = list[i]
    <3> SUFFICES ASSUME NEW i \in 1 .. own
                 PROVE  e[i] = list[i]
      OBVIOUS
    <3>1. i \in 1 .. Len(c) /\ i # m
      BY <1>1
    <3>2. QED
      BY <1>7, <3>1 DEF Merging
  <2>2. Distinct(e, own)
    <3> SUFFICES ASSUME NEW i \in own + 1 .. Len(e), NEW k \in own + 1 .. Len(e), Matches(e[i], e[k])
                 PROVE  i = k
      BY DEF Distinct
    <3>1. i \in own + 1 .. Len(c) /\ k \in own + 1 .. Len(c) /\ i \in 1 .. Len(e) /\ k \in 1 .. Len(e)
      BY <1>1, <1>7
    <3>2. Kind(e[i], c[i]) /\ Kind(e[k], c[k])
      BY <1>8, <3>1
    <3>3. Matches(c[i], c[k])
      BY <3>2 DEF Kind, Matches
    <3>4. QED
      BY <3>1, <3>3 DEF Merging, Distinct
  <2>3. \A i \in own + 1 .. Len(e) : \E k \in own + 1 .. n : Kind(e[i], list[k])
    <3> SUFFICES ASSUME NEW i \in own + 1 .. Len(e)
                 PROVE  \E k \in own + 1 .. n : Kind(e[i], list[k])
      OBVIOUS
    <3>1. i \in own + 1 .. Len(c) /\ i \in 1 .. Len(e)
      BY <1>1, <1>7
    <3>2. PICK k \in own + 1 .. n - 1 : Kind(c[i], list[k])
      BY <3>1 DEF Merging
    <3>3. k \in own + 1 .. n /\ Kind(e[i], c[i])
      BY <1>8, <3>1
    <3>4. Kind(e[i], list[k])
      BY <3>2, <3>3 DEF Kind
    <3>5. QED
      BY <3>3, <3>4
  <2>4. QED
    BY <1>1, <1>7, <2>1, <2>2, <2>3 DEF Merging
<1>10. \A key : /\ Weight(list, own, n - 1, key) \in Nat /\ Magnitude(d.amount) \in Nat
                /\ Weight(list, own, n, key) = Weight(list, own, n - 1, key)
                      + (IF Matches(d, key) THEN Magnitude(d.amount) ELSE 0)
  <2>1. n - 1 \in own .. Len(list)
    BY <1>1
  <2>2. \A key : Weight(list, own, n - 1, key) \in Nat
    BY <2>1, GivenIs
  <2>3. Magnitude(d.amount) \in Nat
    BY <1>2 DEF Magnitude
  <2>4. QED
    BY <2>2, <2>3, GivenNext DEF d
<1>11. Matches(d, c[m]) /\ \A key : Matches(c[m], key) <=> Matches(d, key)
  BY <1>4, MatchesIsEquivalence
<1>12. CASE Sums(c, list, own, n - 1) /\ Weighs(c, list, own, n - 1)
  <2>1. Finite(a) /\ Magnitude(a) <= Weight(list, own, n - 1, c[m])
    BY <1>1, <1>12 DEF Sums, Weighs, a
  <2>2. Magnitude(a) + Magnitude(d.amount) <= Weight(list, own, n, c[m])
    <3>1. Magnitude(a) \in Nat
      BY <1>3 DEF Magnitude
    <3>2. QED
      BY <1>10, <1>11, <2>1, <3>1
  <2>3. CASE Finite(a + d.amount)
    <3>1. x = a + d.amount
      BY <1>5, <2>1, <2>3
    <3>2. Sums(e, list, own, n)
      <4>1. \A i \in own + 1 .. Len(e) : Finite(e[i].amount)
        <5> SUFFICES ASSUME NEW i \in own + 1 .. Len(c)
                     PROVE  Finite(e[i].amount)
          BY <1>7
        <5>1. CASE i = m
          BY <1>7, <2>3, <3>1, <5>1
        <5>2. CASE i # m
          <6>1. e[i] = c[i]
            BY <1>1, <1>7, <5>2
          <6>2. QED
            BY <1>12, <6>1 DEF Sums
        <5>3. QED
          BY <5>1, <5>2
      <4>2. ASSUME NEW key
            PROVE  SumOf(e, key) = SumOf(SubSeq(list, 1, n), key)
        <5>1. SumOf(e, key) = SumOf(c, key) + (IF Matches(d, key) THEN d.amount ELSE 0)
          <6>1. x - a = d.amount
            BY <1>2, <1>3, <3>1
          <6>2. QED
            BY <1>7, <1>11, <6>1
        <5>2. SumOf(c, key) = SumOf(SubSeq(list, 1, n - 1), key)
          BY <1>12 DEF Sums
        <5>3. SumOf(SubSeq(list, 1, n), key) = SumOf(SubSeq(list, 1, n - 1), key)
                       + (IF Matches(d, key) THEN d.amount ELSE 0)
          BY GivenNext DEF d
        <5>4. QED
          BY <5>1, <5>2, <5>3
      <4>3. QED
        BY <4>1, <4>2 DEF Sums
    <3>3. \A i \in own + 1 .. Len(e) : Magnitude(e[i].amount) <= Weight(list, own, n, e[i])
      <4> SUFFICES ASSUME NEW i \in own + 1 .. Len(c)
                   PROVE  Magnitude(e[i].amount) <= Weight(list, own, n, e[i])
        BY <1>7
      <4>1. CASE i = m
        <5>1. Magnitude(x) <= Magnitude(a) + Magnitude(d.amount)
          BY <1>2, <1>3, <3>1 DEF Magnitude
        <5>2. Weight(list, own, n, e[m]) = Weight(list, own, n, c[m])
          BY <1>7, SameWeight
        <5>3. Magnitude(x) \in Int /\ Magnitude(a) \in Int /\ Magnitude(d.amount) \in Int
              /\ Weight(list, own, n, c[m]) \in Int
          BY <1>2, <1>3, <1>6, <1>10 DEF Magnitude
        <5>4. QED
          BY <1>7, <2>2, <4>1, <5>1, <5>2, <5>3
      <4>2. CASE i # m
        <5>1. e[i] = c[i]
          BY <1>1, <1>7, <4>2
        <5>2. Magnitude(c[i].amount) <= Weight(list, own, n - 1, c[i])
          BY <1>12 DEF Weighs
        <5>3. c[i] \in Demand
          BY <1>1
        <5>4. Magnitude(c[i].amount) \in Nat
          BY <5>3 DEF Magnitude, Demand
        <5>5. QED
          BY <1>10, <5>1, <5>2, <5>4
      <4>3. QED
        BY <4>1, <4>2
    <3>4. QED
      BY <1>9, <3>2, <3>3 DEF Weighs, e, x, a, d
  <2>4. CASE ~Finite(a + d.amount)
    <3>1. ~Finite(e[m].amount) /\ m \in own + 1 .. Len(e)
      BY <1>6, <1>7, <2>4
    <3>2. PICK k \in own + 1 .. n - 1 : Kind(c[m], list[k])
      BY DEF Merging
    <3>3. k \in own + 1 .. Len(list)
      BY <1>1
    <3>4. Weight(list, own, Len(list), list[k]) > Limit
      <4>1. Weight(list, own, Len(list), c[m]) = Weight(list, own, Len(list), list[k])
        BY <3>2, SameWeight
      <4>2. Weight(list, own, n, c[m]) <= Weight(list, own, Len(list), c[m])
        <5>1. n \in own .. Len(list)
          BY <1>1
        <5> DEFINE key == c[m]
        <5> HIDE DEF key
        <5>2. Weight(list, own, n, key) <= Weight(list, own, Len(list), key)
          BY <5>1, WeightGrows
        <5>3. QED
          BY <5>2 DEF key
      <4>3. Magnitude(a) + Magnitude(d.amount) > Limit
        <5>1. a + d.amount > Limit \/ a + d.amount < -Limit
          BY <1>2, <1>3, <2>4, LimitAssumption DEF Finite
        <5>2. Limit \in Nat
          BY LimitAssumption
        <5>3. Magnitude(a) >= a /\ Magnitude(a) >= -a /\ Magnitude(a) \in Int
          BY <1>3 DEF Magnitude
        <5>4. Magnitude(d.amount) >= d.amount /\ Magnitude(d.amount) >= -d.amount
              /\ Magnitude(d.amount) \in Int
          BY <1>2 DEF Magnitude
        <5>5. QED
          BY <1>2, <1>3, <5>1, <5>2, <5>3, <5>4
      <4>4. Len(list) \in own .. Len(list)
        BY <1>1
      <4>5. Weight(list, own, Len(list), c[m]) \in Nat /\ Weight(list, own, n, c[m]) \in Int
        <5>1. \A key : Weight(list, own, Len(list), key) \in Nat
          BY <4>4, GivenIs
        <5>2. n \in own .. Len(list)
          BY <1>1
        <5>3. \A key : Weight(list, own, n, key) \in Nat
          BY <5>2, GivenIs
        <5>4. QED
          BY <5>1, <5>3
      <4>6. Magnitude(a) \in Int /\ Magnitude(d.amount) \in Int /\ Limit \in Int
        BY <1>2, <1>3, LimitAssumption DEF Magnitude
      <4> DEFINE v == Weight(list, own, n, c[m])
                 w == Weight(list, own, Len(list), c[m])
                 y == Magnitude(a)
                 z == Magnitude(d.amount)
      <4>7. y + z <= v /\ v <= w /\ y + z > Limit /\ y \in Int /\ z \in Int
            /\ v \in Int /\ w \in Int /\ Limit \in Int
        BY <2>2, <4>2, <4>3, <4>5, <4>6
      <4>8. w > Limit
        <5> HIDE DEF v, w, y, z
        <5>1. QED
          BY <4>7
      <4>9. QED
        BY <4>1, <4>8
    <3>5. Overflows(e, list, own)
      BY <3>1, <3>3, <3>4 DEF Overflows
    <3>6. QED
      BY <1>9, <3>5 DEF e, x, a, d
  <2>5. QED
    BY <2>3, <2>4
<1>13. CASE Overflows(c, list, own)
  <2>1. PICK i \in own + 1 .. Len(c) : ~Finite(c[i].amount)
    BY <1>13 DEF Overflows
  <2>2. i \in own + 1 .. Len(e) /\ i \in 1 .. Len(c)
    BY <1>1, <1>7
  <2>3. ~Finite(e[i].amount)
    <3>1. CASE i = m
      BY <1>6, <1>7, <2>1, <3>1 DEF a
    <3>2. CASE i # m
      BY <1>7, <2>1, <2>2, <3>2
    <3>3. QED
      BY <3>1, <3>2
  <2>4. Overflows(e, list, own)
    BY <1>13, <2>2, <2>3 DEF Overflows
  <2>5. QED
    BY <1>9, <2>4 DEF e, x, a, d
<1>14. QED
  BY <1>12, <1>13

(* A demand is added to the list, or to the first that it matches.         *)
LEMMA MergedStep ==
  ASSUME NEW list \in Seq(Demand), NEW own \in 0 .. Len(list), NEW n \in own + 1 .. Len(list),
         NEW c, Merging(c, list, own, n - 1), Finite(list[n].amount),
         (Sums(c, list, own, n - 1) /\ Weighs(c, list, own, n - 1)) \/ Overflows(c, list, own)
  PROVE  LET e == Merged(c, list[n], own)
         IN  /\ Merging(e, list, own, n)
             /\ (Sums(e, list, own, n) /\ Weighs(e, list, own, n)) \/ Overflows(e, list, own)
<1> DEFINE d == list[n]
           same == {i \in own + 1 .. Len(c) : Matches(c[i], d)}
<1>1. Len(c) \in Nat
  <2>1. c \in Seq(Demand)
    BY DEF Merging
  <2>2. QED
    BY <2>1
<1>2. CASE same = {}
  <2>1. Merged(c, d, own) = Append(c, d)
    BY <1>2 DEF Merged
  <2>2. \A i \in own + 1 .. Len(c) : ~Matches(c[i], d)
    BY <1>2
  <2>3. QED
    BY <2>1, <2>2, AppendStep
<1>3. CASE same # {}
  <2>1. same \in SUBSET Nat
    BY <1>1
  <2> DEFINE m == Min(same)
  <2>2. m \in same
    <3> HIDE DEF same
    <3>1. QED
      BY <1>3, <2>1, LeastOf
  <2>3. m \in own + 1 .. Len(c) /\ Matches(c[m], d)
    BY <2>2
  <2>4. Merged(c, d, own) = [c EXCEPT ![m].amount = Plus(@, d.amount)]
    BY <1>3 DEF Merged
  <2> HIDE DEF m
  <2>5. m \in DOMAIN c
    <3>1. c \in Seq(Demand)
      BY DEF Merging
    <3>2. m \in 1 .. Len(c)
      BY <1>1, <2>3
    <3>3. QED
      BY <3>1, <3>2
  <2>6. [c EXCEPT ![m].amount = Plus(@, d.amount)] = [c EXCEPT ![m].amount = Plus(c[m].amount, d.amount)]
    OBVIOUS
  <2>7. QED
    BY <2>3, <2>4, <2>6, AddStep
<1>4. QED
  BY <1>2, <1>3

(* The recursive function of aggregateProjectedDemands.                    *)
IsDone(f, list, own, n) ==
    f = [k \in own .. n |-> IF k = own THEN SubSeq(list, 1, own)
                            ELSE Merged(f[k - 1], list[k], own)]

(* It exists.                                                              *)
LEMMA DoneExists ==
  ASSUME NEW list, NEW own \in Nat
  PROVE  \A n \in Nat : \E f : IsDone(f, list, own, own + n)
<1> DEFINE T == {n \in Nat : \E f : IsDone(f, list, own, own + n)}
<1>1. 0 \in T
  <2> DEFINE f == [k \in own .. own + 0 |-> SubSeq(list, 1, own)]
  <2>1. f = [k \in own .. own + 0 |-> IF k = own THEN SubSeq(list, 1, own)
                                      ELSE Merged(f[k - 1], list[k], own)]
    OBVIOUS
  <2> HIDE DEF f
  <2>2. IsDone(f, list, own, own + 0)
    BY <2>1 DEF IsDone
  <2>3. QED
    BY <2>2
<1>2. \A n \in Nat : n \in T => n + 1 \in T
  <2> SUFFICES ASSUME NEW n \in Nat, NEW f, IsDone(f, list, own, own + n)
               PROVE  \E g : IsDone(g, list, own, own + (n + 1))
    OBVIOUS
  <2> DEFINE e == own + (n + 1)
             last == Merged(f[e - 1], list[e], own)
             g == [k \in own .. e |-> IF k = e THEN last ELSE f[k]]
  <2>1. \A k \in own .. own + n : f[k] = IF k = own THEN SubSeq(list, 1, own)
                                         ELSE Merged(f[k - 1], list[k], own)
    BY DEF IsDone
  <2>2. e - 1 \in own .. own + n /\ e # own /\ e \in Int
    OBVIOUS
  <2>3. \A k \in own .. e : g[k] = IF k = own THEN SubSeq(list, 1, own)
                                   ELSE Merged(g[k - 1], list[k], own)
    <3> SUFFICES ASSUME NEW k \in own .. e
                 PROVE  g[k] = IF k = own THEN SubSeq(list, 1, own)
                               ELSE Merged(g[k - 1], list[k], own)
      OBVIOUS
    <3>1. CASE k = e
      <4>1. g[k] = last /\ g[k - 1] = f[e - 1] /\ k # own
        BY <2>2, <3>1
      <4>2. QED
        BY <3>1, <4>1
    <3>2. CASE k # e
      <4>1. k \in own .. own + n /\ g[k] = f[k] /\ (k # own => g[k - 1] = f[k - 1])
        BY <2>2, <3>2
      <4>2. QED
        BY <2>1, <4>1
    <3>3. QED
      BY <3>1, <3>2
  <2>4. IsDone(g, list, own, e)
    <3>1. g = [k \in own .. e |-> g[k]]
      OBVIOUS
    <3> HIDE DEF g, e
    <3>2. QED
      BY <2>3, <3>1 DEF IsDone
  <2>5. QED
    BY <2>4
<1> HIDE DEF T
<1>3. \A n \in Nat : n \in T
  BY <1>1, <1>2, SetInduction
<1>4. QED
  BY <1>3 DEF T

(* What is compacted: the junction's own demands, and one for each kind of *)
(* the others with what they add up to, or one that is too much.           *)
LEMMA CompactedIs ==
  ASSUME NEW list \in Seq(Demand), NEW own \in 0 .. Len(list),
         \A i \in own + 1 .. Len(list) : Finite(list[i].amount)
  PROVE  LET c == Compacted(list, own)
         IN  /\ Merging(c, list, own, Len(list))
             /\ Sums(c, list, own, Len(list)) \/ Overflows(c, list, own)
<1> DEFINE n == Len(list)
           f == CHOOSE g : IsDone(g, list, own, n)
<1>1. n \in Nat /\ own \in Nat /\ own <= n
  OBVIOUS
<1>2. IsDone(f, list, own, n)
  <2>1. n - own \in Nat /\ own + (n - own) = n
    BY <1>1
  <2>2. \E g : IsDone(g, list, own, own + (n - own))
    BY <1>1, <2>1, DoneExists
  <2>3. \E g : IsDone(g, list, own, n)
    BY <2>1, <2>2
  <2>4. QED
    BY <2>3
<1>3. Compacted(list, own) = IF n <= own + 1 THEN list ELSE f[n]
  BY DEF Compacted, IsDone
<1> HIDE DEF f
<1>4. \A k \in own .. n : f[k] = IF k = own THEN SubSeq(list, 1, own)
                                 ELSE Merged(f[k - 1], list[k], own)
  BY <1>2 DEF IsDone
<1> DEFINE Good(k) == /\ Merging(f[k], list, own, k)
                      /\ (Sums(f[k], list, own, k) /\ Weighs(f[k], list, own, k))
                         \/ Overflows(f[k], list, own)
<1>5. Good(own)
  <2> DEFINE c == SubSeq(list, 1, own)
  <2>0. own \in own .. n
    BY <1>1
  <2> HIDE DEF n
  <2>1. f[own] = c
    BY <1>4, <2>0
  <2>2. c \in Seq(Demand) /\ Len(c) = own /\ \A i \in 1 .. own : c[i] = list[i]
    <3>1. \A i \in 1 .. own : list[i] \in Demand
      BY <1>1
    <3>2. c \in Seq(Demand) /\ Len(c) = IF 1 <= own THEN own - 1 + 1 ELSE 0
      BY <1>1, <3>1, SubSeqProperties
    <3>3. \A i \in 1 .. own : c[i] = list[i]
      <4> SUFFICES ASSUME NEW i \in 1 .. own
                   PROVE  c[i] = list[i]
        OBVIOUS
      <4>1. i \in 1 .. (own - 1) + 1 /\ (1 + i) - 1 = i
        BY <1>1
      <4>2. QED
        BY <1>1, <4>1
    <3>4. QED
      BY <1>1, <3>2, <3>3
  <2> HIDE DEF c
  <2>3. \A i \in own + 1 .. Len(c) : FALSE
    BY <1>1, <2>2
  <2>4. Merging(c, list, own, own)
    BY <1>1, <2>2, <2>3 DEF Merging, Distinct
  <2>5. Sums(c, list, own, own) /\ Weighs(c, list, own, own)
    BY <2>3 DEF Sums, Weighs, c
  <2>6. QED
    BY <2>1, <2>4, <2>5
<1>6. ASSUME NEW k \in own + 1 .. n, Good(k - 1)
      PROVE  Good(k)
  <2>1. f[k] = Merged(f[k - 1], list[k], own)
    BY <1>1, <1>4
  <2>2. Finite(list[k].amount)
    OBVIOUS
  <2> DEFINE c == f[k - 1]
  <2>3. Merging(c, list, own, k - 1)
        /\ ((Sums(c, list, own, k - 1) /\ Weighs(c, list, own, k - 1)) \/ Overflows(c, list, own))
    BY <1>6
  <2> HIDE DEF c
  <2>4. LET e == Merged(c, list[k], own)
        IN  /\ Merging(e, list, own, k)
            /\ (Sums(e, list, own, k) /\ Weighs(e, list, own, k)) \/ Overflows(e, list, own)
    BY <2>2, <2>3, MergedStep
  <2>5. QED
    BY <2>1, <2>4 DEF c
<1>7. Good(n)
  <2> DEFINE T == {k \in Nat : own + k <= n => Good(own + k)}
  <2> HIDE DEF Good
  <2>1. 0 \in T
    BY <1>1, <1>5
  <2>2. \A k \in Nat : k \in T => k + 1 \in T
    <3> SUFFICES ASSUME NEW k \in Nat, k \in T, own + (k + 1) <= n
                 PROVE  Good(own + (k + 1))
      OBVIOUS
    <3>1. own + (k + 1) \in own + 1 .. n /\ (own + (k + 1)) - 1 = own + k /\ own + k <= n
      BY <1>1
    <3>2. Good((own + (k + 1)) - 1)
      BY <3>1
    <3>3. QED
      BY <1>6, <3>1, <3>2
  <2>3. \A k \in Nat : k \in T
    <3> HIDE DEF T
    <3>1. QED
      BY <2>1, <2>2, SetInduction
  <2>4. n - own \in Nat /\ own + (n - own) = n
    BY <1>1
  <2>5. n - own \in T
    <3> HIDE DEF T
    <3>1. QED
      BY <2>3, <2>4
  <2>7. own + (n - own) <= n
    BY <1>1
  <2>8. Good(own + (n - own))
    BY <2>5, <2>7
  <2>6. QED
    BY <2>4, <2>8
<1>8. CASE n <= own + 1
  <2>1. Compacted(list, own) = list
    BY <1>3, <1>8
  <2>2. \A i, k \in own + 1 .. n : i = k
    BY <1>1, <1>8
  <2>3. Merging(list, list, own, n)
    <3>1. \A i \in own + 1 .. n : Kind(list[i], list[i])
      BY DEF Kind
    <3>2. QED
      BY <1>1, <2>2, <3>1 DEF Merging, Distinct
  <2>4. SubSeq(list, 1, n) = list
    BY SubSeqFull
  <2>5. Sums(list, list, own, n)
    BY <2>4 DEF Sums
  <2>6. QED
    BY <2>1, <2>3, <2>5
<1>9. CASE ~(n <= own + 1)
  BY <1>3, <1>7, <1>9
<1>10. QED
  BY <1>8, <1>9

-----------------------------------------------------------------------------
(* The points that are enabled, and what they are worth.                   *)

(* What the active points of a list are worth.                             *)
Worth(point, g) == IF IsActive(point) THEN g[point] ELSE 0

(* The values of a list of points, idle ones counting nothing.             *)
Values(points, g) == [k \in DOMAIN points |-> Worth(points[k], g)]

(* The values of a list of points.                                         *)
LEMMA ValuesOfList ==
  ASSUME NEW g \in [Point -> Int], NEW points \in Seq(Point)
  PROVE  /\ Values(points, g) \in Seq(Int) /\ Len(Values(points, g)) = Len(points)
         /\ \A k \in 1 .. Len(points) : Values(points, g)[k] = Worth(points[k], g)
         /\ \A p \in Point : Worth(p, g) \in Int
<1>1. Len(points) \in Nat /\ DOMAIN points = 1 .. Len(points)
      /\ \A k \in 1 .. Len(points) : points[k] \in Point
  OBVIOUS
<1>2. \A p \in Point : Worth(p, g) \in Int
  BY DEF Worth
<1>3. Values(points, g) = [k \in 1 .. Len(points) |-> Worth(points[k], g)]
  BY <1>1 DEF Values
<1>4. QED
  BY <1>1, <1>2, <1>3

(* One more point.                                                         *)
LEMMA ValuesOfAppend ==
  ASSUME NEW g \in [Point -> Int], NEW points \in Seq(Point), NEW p \in Point
  PROVE  Total(Values(Append(points, p), g)) = Total(Values(points, g)) + Worth(p, g)
<1> DEFINE l == Append(points, p)
           v == Values(points, g)
           w == Worth(p, g)
           r == Values(l, g)
<1>1. l \in Seq(Point) /\ Len(l) = Len(points) + 1 /\ l[Len(points) + 1] = p
      /\ \A k \in 1 .. Len(points) : l[k] = points[k]
  BY AppendProperties
<1>2. Len(points) \in Nat
  OBVIOUS
<1>3. v \in Seq(Int) /\ Len(v) = Len(points)
      /\ \A k \in 1 .. Len(points) : v[k] = Worth(points[k], g)
  BY ValuesOfList
<1>4. w \in Int
  BY ValuesOfList
<1> HIDE DEF l
<1>5. r \in Seq(Int) /\ Len(r) = Len(l) /\ \A k \in 1 .. Len(l) : r[k] = Worth(l[k], g)
  BY <1>1, ValuesOfList
<1> HIDE DEF v, r
<1>6. r[Len(points) + 1] = w /\ \A k \in 1 .. Len(points) : r[k] = v[k]
  BY <1>1, <1>2, <1>3, <1>5
<1> HIDE DEF w
<1> DEFINE a == Append(v, w)
<1>7. a \in Seq(Int) /\ Len(a) = Len(v) + 1 /\ a[Len(v) + 1] = w
      /\ \A k \in 1 .. Len(v) : a[k] = v[k]
  BY <1>3, <1>4, AppendProperties
<1>8. a = v \o <<w>>
  BY <1>3, <1>4, AppendIsConcat
<1> HIDE DEF a
<1>9. r = a
  <2>1. Len(r) = Len(a)
    BY <1>1, <1>3, <1>5, <1>7
  <2>2. \A k \in 1 .. Len(r) : r[k] = a[k]
    <3> SUFFICES ASSUME NEW k \in 1 .. Len(points) + 1
                 PROVE  r[k] = a[k]
      BY <1>1, <1>5
    <3>1. CASE k = Len(points) + 1
      BY <1>3, <1>6, <1>7, <3>1
    <3>2. CASE k # Len(points) + 1
      <4>1. k \in 1 .. Len(points)
        BY <1>2, <3>2
      <4>2. QED
        BY <1>3, <1>6, <1>7, <4>1
    <3>3. QED
      BY <3>1, <3>2
  <2>3. QED
    BY <1>5, <1>7, <2>1, <2>2, SeqEqual
<1>10. Total(v \o <<w>>) = Total(v) + Total(<<w>>)
  <2>1. <<w>> \in Seq(Int)
    BY <1>4
  <2>2. QED
    BY <1>3, <2>1, TotalOfConcat
<1>11. Total(<<w>>) = w
  BY <1>4, TotalOfOne
<1>12. QED
  BY <1>8, <1>9, <1>10, <1>11 DEF r, l, v, w

(* The recursive function of enabledEntities.                              *)
IsKept(f, s, n) ==
    f = [k \in 0 .. n |-> IF k = 0 THEN <<>>
                          ELSE IF s[k].enabled THEN Append(f[k - 1], s[k]) ELSE f[k - 1]]

(* It exists.                                                              *)
LEMMA KeptExists ==
  ASSUME NEW s
  PROVE  \A n \in Nat : \E f : IsKept(f, s, n)
<1> DEFINE T == {n \in Nat : \E f : IsKept(f, s, n)}
<1>1. 0 \in T
  <2>1. IsKept([k \in 0 .. 0 |-> <<>>], s, 0)
    BY DEF IsKept
  <2>2. QED
    BY <2>1
<1>2. \A n \in Nat : n \in T => n + 1 \in T
  <2> SUFFICES ASSUME NEW n \in Nat, NEW f, IsKept(f, s, n)
               PROVE  \E g : IsKept(g, s, n + 1)
    OBVIOUS
  <2> DEFINE e == n + 1
             last == IF s[e].enabled THEN Append(f[e - 1], s[e]) ELSE f[e - 1]
             g == [k \in 0 .. n + 1 |-> IF k = e THEN last ELSE f[k]]
  <2>1. \A k \in 0 .. n : f[k] = IF k = 0 THEN <<>> ELSE IF s[k].enabled THEN Append(f[k - 1], s[k])
                                 ELSE f[k - 1]
    BY DEF IsKept
  <2>2. \A k \in 0 .. n + 1 : g[k] = IF k = 0 THEN <<>>
                                     ELSE IF s[k].enabled THEN Append(g[k - 1], s[k]) ELSE g[k - 1]
    <3> SUFFICES ASSUME NEW k \in 0 .. n + 1
                 PROVE  g[k] = IF k = 0 THEN <<>>
                               ELSE IF s[k].enabled THEN Append(g[k - 1], s[k]) ELSE g[k - 1]
      OBVIOUS
    <3>1. CASE k = e
      <4>1. g[k] = last /\ g[k - 1] = f[e - 1] /\ k # 0
        BY <3>1
      <4>2. QED
        BY <3>1, <4>1
    <3>2. CASE k # e
      <4>1. k \in 0 .. n /\ g[k] = f[k] /\ (k # 0 => g[k - 1] = f[k - 1])
        BY <3>2
      <4>2. QED
        BY <2>1, <4>1
    <3>3. QED
      BY <3>1, <3>2
  <2>3. IsKept(g, s, n + 1)
    BY <2>2 DEF IsKept
  <2>4. QED
    BY <2>3
<1> HIDE DEF T
<1>3. \A n \in Nat : n \in T
  BY <1>1, <1>2, SetInduction
<1>4. QED
  BY <1>3 DEF T

(* What is kept are the enabled points, and they are worth as much.        *)
LEMMA EnabledPointsAre ==
  ASSUME NEW s \in Seq(Point)
  PROVE  LET e == EnabledPoints(s)
         IN  /\ e \in Seq(Point)
             /\ \A i \in 1 .. Len(e) : e[i].enabled /\ \E k \in 1 .. Len(s) : e[i] = s[k]
             /\ \A k \in 1 .. Len(s) : s[k].enabled => \E i \in 1 .. Len(e) : e[i] = s[k]
             /\ \A g \in [Point -> Int] : Total(Values(e, g)) = Total(Values(s, g))
<1> DEFINE n == Len(s)
           f == CHOOSE h : IsKept(h, s, n)
<1>1. n \in Nat /\ \A k \in 1 .. n : s[k] \in Point
  OBVIOUS
<1>2. IsKept(f, s, n)
  BY <1>1, KeptExists
<1>3. EnabledPoints(s) = f[n]
  BY DEF EnabledPoints, IsKept
<1> HIDE DEF f, n
<1>4. \A k \in 0 .. n : f[k] = IF k = 0 THEN <<>> ELSE IF s[k].enabled THEN Append(f[k - 1], s[k])
                               ELSE f[k - 1]
  BY <1>2 DEF IsKept
<1> DEFINE Known(e, m) == /\ e \in Seq(Point)
                          /\ \A i \in 1 .. Len(e) : e[i].enabled /\ \E k \in 1 .. m : e[i] = s[k]
                          /\ \A k \in 1 .. m : s[k].enabled => \E i \in 1 .. Len(e) : e[i] = s[k]
           Worthy(e, m) == \A g \in [Point -> Int] :
                              Total(Values(e, g)) = Total(UpTo(Values(s, g), m))
           T == {k \in Nat : k <= n => Known(f[k], k) /\ Worthy(f[k], k)}
<1>5. 0 \in T
  <2>1. f[0] = <<>>
    BY <1>1, <1>4
  <2>2. <<>> \in Seq(Point) /\ Len(<<>>) = 0
    BY EmptySeq
  <2>3. Known(<<>>, 0)
    BY <2>2
  <2>4. Worthy(<<>>, 0)
    <3> SUFFICES ASSUME NEW g \in [Point -> Int]
                 PROVE  Total(Values(<<>>, g)) = Total(UpTo(Values(s, g), 0))
      OBVIOUS
    <3> DEFINE v == Values(<<>>, g)
    <3>1. v \in Seq(Int) /\ Len(v) = 0
      BY <2>2, ValuesOfList
    <3> HIDE DEF v
    <3>2. v = <<>>
      BY <3>1
    <3>3. Values(s, g) \in Seq(Int)
      BY ValuesOfList
    <3>4. Total(UpTo(Values(s, g), 0)) = 0
      BY <3>3, TotalUpTo
    <3>5. QED
      BY <3>2, <3>4, TotalOfNothing DEF v
  <2>5. Known(f[0], 0) /\ Worthy(f[0], 0)
    <3> HIDE DEF Known, Worthy
    <3>1. QED
      BY <2>1, <2>3, <2>4
  <2>6. QED
    BY <2>5
<1>6. \A k \in Nat : k \in T => k + 1 \in T
  <2> SUFFICES ASSUME NEW k \in Nat, k \in T, k + 1 <= n
               PROVE  Known(f[k + 1], k + 1) /\ Worthy(f[k + 1], k + 1)
    OBVIOUS
  <2> DEFINE e == f[k]
             p == s[k + 1]
  <2>1. Known(e, k) /\ Worthy(e, k) /\ k + 1 \in 0 .. n /\ k + 1 \in 1 .. n /\ (k + 1) - 1 = k
    BY <1>1
  <2>2. f[k + 1] = IF p.enabled THEN Append(e, p) ELSE e
    BY <1>4, <2>1
  <2>3. p \in Point /\ e \in Seq(Point) /\ Len(e) \in Nat
    BY <1>1, <2>1
  <2>4. ASSUME NEW g \in [Point -> Int]
        PROVE  Total(UpTo(Values(s, g), k + 1)) = Total(Values(e, g)) + Worth(p, g)
    <3>1. Values(s, g) \in Seq(Int) /\ Len(Values(s, g)) = Len(s)
          /\ \A i \in 1 .. Len(s) : Values(s, g)[i] = Worth(s[i], g)
      BY ValuesOfList
    <3>2. k + 1 \in 1 .. Len(Values(s, g)) /\ k + 1 \in 1 .. Len(s)
      BY <2>1, <3>1 DEF n
    <3>3. Total(UpTo(Values(s, g), k + 1)) = Total(UpTo(Values(s, g), (k + 1) - 1)) + Values(s, g)[k + 1]
      BY <3>1, <3>2, TotalUpTo
    <3>4. Total(UpTo(Values(s, g), k)) = Total(Values(e, g))
      BY <2>1
    <3>5. Values(s, g)[k + 1] = Worth(p, g)
      BY <3>1, <3>2
    <3>6. QED
      BY <2>1, <3>3, <3>4, <3>5
  <2> HIDE DEF e, p, f
  <2>5. CASE p.enabled
    <3> DEFINE q == Append(e, p)
    <3>1. q \in Seq(Point) /\ Len(q) = Len(e) + 1 /\ q[Len(e) + 1] = p
          /\ \A i \in 1 .. Len(e) : q[i] = e[i]
      BY <2>3, AppendProperties
    <3>2. \A g \in [Point -> Int] : Total(Values(q, g)) = Total(Values(e, g)) + Worth(p, g)
      BY <2>3, ValuesOfAppend
    <3> HIDE DEF q
    <3>3. \A i \in 1 .. Len(q) : q[i].enabled /\ \E m \in 1 .. k + 1 : q[i] = s[m]
      <4> SUFFICES ASSUME NEW i \in 1 .. Len(q)
                   PROVE  q[i].enabled /\ \E m \in 1 .. k + 1 : q[i] = s[m]
        OBVIOUS
      <4>1. CASE i = Len(e) + 1
        <5>1. q[i] = s[k + 1] /\ k + 1 \in 1 .. k + 1
          BY <3>1, <4>1 DEF p
        <5>2. q[i].enabled
          BY <2>5, <3>1, <4>1
        <5>3. QED
          BY <5>1, <5>2
      <4>2. CASE i # Len(e) + 1
        <5>1. i \in 1 .. Len(e) /\ q[i] = e[i]
          BY <2>3, <3>1, <4>2
        <5>2. PICK m \in 1 .. k : e[i] = s[m]
          BY <2>1, <5>1
        <5>3. m \in 1 .. k + 1 /\ e[i].enabled
          BY <2>1, <5>1
        <5>4. QED
          BY <5>1, <5>2, <5>3
      <4>3. QED
        BY <4>1, <4>2
    <3>4. \A m \in 1 .. k + 1 : s[m].enabled => \E i \in 1 .. Len(q) : q[i] = s[m]
      <4> SUFFICES ASSUME NEW m \in 1 .. k + 1, s[m].enabled
                   PROVE  \E i \in 1 .. Len(q) : q[i] = s[m]
        OBVIOUS
      <4>1. CASE m = k + 1
        <5>1. q[Len(e) + 1] = s[m] /\ Len(e) + 1 \in 1 .. Len(q)
          BY <2>3, <3>1, <4>1 DEF p
        <5>2. QED
          BY <5>1
      <4>2. CASE m # k + 1
        <5>1. m \in 1 .. k
          BY <4>2
        <5>2. PICK i \in 1 .. Len(e) : e[i] = s[m]
          BY <2>1, <5>1
        <5>3. i \in 1 .. Len(q) /\ q[i] = e[i]
          BY <2>3, <3>1
        <5>4. QED
          BY <5>2, <5>3
      <4>3. QED
        BY <4>1, <4>2
    <3>5. Known(q, k + 1)
      BY <3>1, <3>3, <3>4
    <3>6. Worthy(q, k + 1)
      BY <2>4, <3>2
    <3>7. QED
      BY <2>2, <2>5, <3>5, <3>6 DEF q
  <2>6. CASE ~p.enabled
    <3>1. \A g \in [Point -> Int] : Worth(p, g) = 0
      BY <2>6 DEF Worth, IsActive
    <3>2. Worthy(e, k + 1)
      <4> SUFFICES ASSUME NEW g \in [Point -> Int]
                   PROVE  Total(Values(e, g)) = Total(UpTo(Values(s, g), k + 1))
        OBVIOUS
      <4>1. Total(UpTo(Values(s, g), k + 1)) = Total(Values(e, g)) + 0
        BY <2>4, <3>1
      <4>2. Total(Values(e, g)) \in Int
        <5>1. Values(e, g) \in Seq(Int)
          BY <2>3, ValuesOfList
        <5>2. QED
          BY <5>1, TotalIsInt
      <4>3. QED
        BY <4>1, <4>2
    <3>3. Known(e, k + 1)
      <4>1. \A i \in 1 .. Len(e) : e[i].enabled /\ \E m \in 1 .. k + 1 : e[i] = s[m]
        BY <2>1
      <4>2. \A m \in 1 .. k + 1 : s[m].enabled => m \in 1 .. k
        BY <2>6 DEF p
      <4>3. QED
        BY <2>1, <2>3, <4>1, <4>2
    <3>4. QED
      BY <2>2, <2>6, <3>2, <3>3
  <2>7. QED
    BY <2>5, <2>6
<1>7. n \in T
  <2> HIDE DEF T
  <2>1. \A k \in Nat : k \in T
    BY <1>5, <1>6, SetInduction
  <2>2. QED
    BY <1>1, <2>1
<1>8. Known(f[n], n) /\ Worthy(f[n], n)
  BY <1>1, <1>7
<1>9. \A g \in [Point -> Int] : UpTo(Values(s, g), n) = Values(s, g)
  <2> SUFFICES ASSUME NEW g \in [Point -> Int]
               PROVE  UpTo(Values(s, g), n) = Values(s, g)
    OBVIOUS
  <2>1. Values(s, g) \in Seq(Int) /\ Len(Values(s, g)) = n
    BY ValuesOfList DEF n
  <2>2. QED
    BY <2>1, TotalUpTo
<1>10. \A g \in [Point -> Int] : Total(Values(f[n], g)) = Total(Values(s, g))
  <2> SUFFICES ASSUME NEW g \in [Point -> Int]
               PROVE  Total(Values(f[n], g)) = Total(Values(s, g))
    OBVIOUS
  <2>1. Total(Values(f[n], g)) = Total(UpTo(Values(s, g), n))
    BY <1>8
  <2>2. UpTo(Values(s, g), n) = Values(s, g)
    BY <1>9
  <2>3. QED
    BY <2>1, <2>2
<1>11. Known(f[n], n)
  BY <1>8
<1>12. QED
  BY <1>3, <1>10, <1>11 DEF n

-----------------------------------------------------------------------------
(* The inductive invariant.                                                *)

(* What a point is worth: of a kind of demand at a junction (in parts),    *)
(* anywhere, and anywhere without signs.                                   *)
Gives(j, key) ==
    [point \in Point |-> IF PartsFor(j, point.at) \in 0 .. Whole
                     THEN SumOf(point.demands, key) * PartsFor(j, point.at) ELSE 0]

(* Anywhere.                                                               *)
Asked(key) == [point \in Point |-> SumOf(point.demands, key)]

(* Anywhere, without signs.                                                *)
Sized(key) == [point \in Point |-> SumOf(Magnitudes(point.demands), key)]

(* A demand is of the kind of one of an active point.                      *)
Requested(d) == \E k \in ActivePoints : ComesFrom(d, request.points[k].demands)

(* The network on its way.                                                 *)
Network ==
    [nodes : SUBSET Nodes, pipes : SUBSET Pipes, enabled : SUBSET Uuids,
     ends : [Pipes -> [from : Uuids, to : Uuids]],
     roughness : [Pipes -> {"Direct", "Library", "Unknown", "Resolved"}],
     demands : [Junctions -> Seq(Demand)], points : Seq(Point),
     selections : [nodes : Selection, links : Selection]]

(* Types; the ends of pipes and what is enabled never change.              *)
TypeInv ==
    /\ pc \in {"resolve", "validate", "enable", "project", "revalidate", "reports",
               "prepared", "failed"}
    /\ request \in Requests
    /\ network \in Network
    /\ index \in Nat \ {0}
    /\ network.ends = request.ends
    /\ network.enabled = request.enabled

(* Nothing is left out yet.                                                *)
Untouched ==
    pc \in {"resolve", "validate", "enable"} =>
        /\ index = 1
        /\ network.nodes = request.nodes
        /\ network.pipes = request.pipes
        /\ network.demands = request.demands
        /\ network.points = request.points
        /\ network.selections = request.selections
        /\ pc = "resolve" => network.roughness = request.roughness

(* resolveMaterialLibraryRoughness has found the roughness of what is      *)
(* enabled.                                                                *)
Resolved ==
    pc \notin {"resolve", "failed"} =>
        \A x \in request.pipes \intersect request.enabled :
            network.roughness[x] \in {"Direct", "Resolved"}

(* The request passed validation.                                          *)
Validated == pc \notin {"resolve", "validate", "failed"} => NetworkIsValid(request)

(* enabledEntities has been applied to nodes and pipes.                    *)
Enabled ==
    pc \in {"project", "revalidate", "reports", "prepared"} =>
        /\ network.nodes = request.nodes \intersect request.enabled
        /\ network.pipes = request.pipes \intersect request.enabled
        /\ pc # "prepared" => network.selections = request.selections

(* A junction's list while the points are projected: its own demands, and  *)
(* after them what the first n points give.                                *)
Projected(own, list, points, j, n) ==
    /\ Len(own) <= Len(list)
    /\ \A i \in 1 .. Len(own) : list[i] = own[i]
    /\ \A i \in Len(own) + 1 .. Len(list) : Requested(list[i])
    /\ \A key : Whole * SumOf(list, key)
                  = Whole * SumOf(own, key) + Total(UpTo(Values(points, Gives(j, key)), n))
    /\ \A key : Weight(list, Len(own), Len(list), key)
                  <= Total(UpTo(Values(points, Sized(key)), n))

(* buildHydraulicNodeDemandProjection, after index - 1 demand points.      *)
Projecting ==
    pc = "project" =>
        /\ network.points = EnabledPoints(request.points)
        /\ index <= Len(network.points) + 1
        /\ \A k \in 1 .. index - 1 : IsActive(network.points[k]) =>
              \A j \in EnabledJunctions : PartsFor(j, network.points[k].at) \in 0 .. Whole
        /\ \A j \in EnabledJunctions :
              Projected(request.demands[j], network.demands[j], network.points, j, index - 1)
        /\ \A key : JunctionsTotal(network.demands, key)
                      = JunctionsTotal(request.demands, key)
                        + Total(UpTo(Values(network.points, Asked(key)), index - 1))

(* A junction's list when it is compacted.                                 *)
Settled(own, list, j) ==
    /\ Len(own) <= Len(list)
    /\ \A i \in 1 .. Len(own) : list[i] = own[i]
    /\ Distinct(list, Len(own))
    /\ \A i \in Len(own) + 1 .. Len(list) : Requested(list[i])
    /\ \A key : Whole * SumOf(list, key)
                  = Whole * SumOf(own, key) + Total(Values(request.points, Gives(j, key)))

(* The projection is complete.                                             *)
Compacting ==
    pc \in {"revalidate", "reports", "prepared"} =>
        /\ network.points = <<>>
        /\ \A k \in ActivePoints : \A j \in EnabledJunctions :
              PartsFor(j, request.points[k].at) \in 0 .. Whole
        /\ \A j \in EnabledJunctions : Settled(request.demands[j], network.demands[j], j)
        /\ \A key : JunctionsTotal(network.demands, key)
                      = JunctionsTotal(request.demands, key)
                        + Total(Values(request.points, Asked(key)))

(* The projected network passed validation.                                *)
Revalidated == pc \in {"reports", "prepared"} => NetworkIsValid(network)

(* removeDisabledReportSelections has been applied.                        *)
Reported ==
    pc = "prepared" =>
        /\ NothingDisabled(network.selections.nodes, request.nodes)
        /\ NothingDisabled(network.selections.links, request.pipes)

(* The inductive invariant.                                                *)
IInv ==
    /\ TypeInv
    /\ Untouched
    /\ Resolved
    /\ Validated
    /\ Enabled
    /\ Projecting
    /\ Compacting
    /\ Revalidated
    /\ Reported
    /\ OnlyEnabledPartsFail

-----------------------------------------------------------------------------
(* Sums over the junctions.                                                *)

(* SetToSeq lists a finite set once.                                       *)
LEMMA OrderIs ==
  ASSUME NEW S, IsFiniteSet(S)
  PROVE  LET o == SetToSeq(S)
         IN  /\ o \in Seq(S) /\ Len(o) \in Nat /\ DOMAIN o = 1 .. Len(o)
             /\ \A i \in 1 .. Len(o) : o[i] \in S
             /\ \A i, k \in 1 .. Len(o) : o[i] = o[k] => i = k
             /\ \A x \in S : \E i \in 1 .. Len(o) : o[i] = x
<1> DEFINE n == Cardinality(S)
           o == CHOOSE f \in [1 .. n -> S] : IsInjective(f)
<1>1. n \in Nat /\ ExistsBijection(1 .. n, S)
  BY FS_CardinalityType
<1>2. PICK g : g \in Injection(1 .. n, S)
  BY <1>1 DEF ExistsBijection, Bijection
<1>3. g \in [1 .. n -> S] /\ IsInjective(g)
  BY <1>2 DEF Injection
<1>4. o \in [1 .. n -> S] /\ IsInjective(o)
  BY <1>3
<1>5. SetToSeq(S) = o
  BY DEF SetToSeq
<1> HIDE DEF o
<1>6. o \in Injection(1 .. n, S)
  BY <1>4 DEF Injection
<1>7. o \in Surjection(1 .. n, S)
  <2>1. Cardinality(1 .. n) = n
    BY <1>1, FS_Interval
  <2>2. QED
    BY <1>6, <2>1, FS_Injection
<1> HIDE DEF n
<1>8. o \in Seq(S) /\ Len(o) = n /\ DOMAIN o = 1 .. n
  BY <1>1, <1>4
<1>9. \A i, k \in 1 .. n : o[i] = o[k] => i = k
  BY <1>4 DEF IsInjective
<1>10. \A x \in S : \E i \in 1 .. n : o[i] = x
  BY <1>7 DEF Surjection
<1>11. \A i \in 1 .. n : o[i] \in S
  BY <1>4
<1>12. QED
  BY <1>1, <1>5, <1>8, <1>9, <1>10, <1>11

(* The elements of a sequence that are x count v.                          *)
Counts(o, x, v) == [i \in 1 .. Len(o) |-> IF o[i] = x THEN v ELSE 0]

(* Of distinct elements, one counts.                                       *)
LEMMA TotalOfCounts ==
  ASSUME NEW S, NEW o \in Seq(S), NEW x, NEW v \in Int,
         \E i \in 1 .. Len(o) : o[i] = x, \A i, k \in 1 .. Len(o) : o[i] = o[k] => i = k
  PROVE  Counts(o, x, v) \in Seq(Int) /\ Len(Counts(o, x, v)) = Len(o) /\ Total(Counts(o, x, v)) = v
<1> DEFINE c == Counts(o, x, v)
<1>1. Len(o) \in Nat
  OBVIOUS
<1>2. c \in Seq(Int) /\ Len(c) = Len(o) /\ \A i \in 1 .. Len(o) : c[i] = IF o[i] = x THEN v ELSE 0
  BY <1>1 DEF Counts
<1>3. PICK a \in 1 .. Len(o) : o[a] = x
  OBVIOUS
<1> HIDE DEF c
<1>4. \A i \in 1 .. Len(c) : i # a => c[i] = 0
  BY <1>2, <1>3
<1>5. Total(c) = c[a]
  BY <1>2, <1>3, <1>4, TotalOfSingle
<1>6. QED
  BY <1>2, <1>3, <1>5 DEF c

(* The parts of a point, junction by junction.                             *)
JunctionParts(at) == [i \in DOMAIN SetToSeq(EnabledJunctions) |-> PartsFor(SetToSeq(EnabledJunctions)[i], at)]

(* SetToSeq is defined for the enabled junctions.                          *)
LEMMA EnabledJunctionsAreFinite == IsFiniteSet(EnabledJunctions)
<1>1. EnabledJunctions \in SUBSET Junctions
  BY DEF EnabledJunctions
<1>2. QED
  BY <1>1, JunctionsAssumption, FS_Subset

(* The parts of a valid point go to enabled junctions, and to them only.   *)
LEMMA PartsAreWhole ==
  ASSUME JunctionsHere = EnabledJunctions, network.ends = request.ends,
         NEW point \in Point, PointIsValid(point)
  PROVE  Total(JunctionParts(point.at)) = Whole
<1> DEFINE at == point.at
           o == SetToSeq(EnabledJunctions)
           ends == request.ends[at.pipe]
           c == JunctionParts(at)
<1>1. /\ o \in Seq(EnabledJunctions) /\ Len(o) \in Nat /\ DOMAIN o = 1 .. Len(o)
      /\ \A i, k \in 1 .. Len(o) : o[i] = o[k] => i = k
      /\ \A x \in EnabledJunctions : \E i \in 1 .. Len(o) : o[i] = x
  BY EnabledJunctionsAreFinite, OrderIs
<1>2. at \in Attachment
  BY DEF Point
<1>3. at.type \in {"Junction", "Pipe"} /\ at.position \in Int
  BY <1>2 DEF PointIsValid, AttachmentIsValid, Attachment
<1>4. c = [i \in 1 .. Len(o) |-> PartsFor(o[i], at)]
  BY <1>1 DEF JunctionParts
<1>5. Whole \in Int /\ Whole # 0
  BY WholeAssumption
<1> HIDE DEF o, c
<1>6. ASSUME NEW to, Shares(at) = <<[to |-> to, parts |-> Whole]>>,
             \A j : PartsFor(j, at) = IF j = to THEN Whole ELSE 0
      PROVE  Total(c) = Whole
  <2>1. DOMAIN Shares(at) = {1} /\ Shares(at)[1] = [to |-> to, parts |-> Whole]
    BY <1>6
  <2>2. to \in EnabledJunctions
    BY <1>5, <2>1 DEF PointIsValid, ShareIsValid
  <2>3. c = Counts(o, to, Whole)
    BY <1>4, <1>6 DEF Counts
  <2>4. \E i \in 1 .. Len(o) : o[i] = to
    BY <1>1, <2>2
  <2>5. QED
    BY <1>1, <1>5, <2>3, <2>4, TotalOfCounts
<1>7. CASE at.type = "Junction"
  <2>1. Shares(at) = <<[to |-> at.junction, parts |-> Whole]>>
    BY <1>7 DEF Shares
  <2>2. \A j : PartsFor(j, at) = IF j = at.junction THEN Whole ELSE 0
    BY <1>7 DEF PartsFor
  <2>3. QED
    BY <1>6, <2>1, <2>2 DEF c
<1>8. CASE at.type = "Pipe" /\ at.mode = "AssignedJunction"
  <2>1. Shares(at) = <<[to |-> at.assigned, parts |-> Whole]>>
    BY <1>8 DEF Shares
  <2>2. \A j : PartsFor(j, at) = IF j = at.assigned THEN Whole ELSE 0
    BY <1>8 DEF PartsFor
  <2>3. QED
    BY <1>6, <2>1, <2>2 DEF c
<1>9. CASE at.type = "Pipe" /\ at.mode # "AssignedJunction"
  <2> DEFINE s == Counts(o, ends.from, Whole - at.position)
             t == Counts(o, ends.to, at.position)
  <2>1. ends.from \in EnabledJunctions /\ ends.to \in EnabledJunctions
    BY <1>9 DEF PointIsValid, AttachmentIsValid
  <2>2. Whole - at.position \in Int /\ at.position \in Int /\ (Whole - at.position) + at.position = Whole
    BY <1>3, <1>5
  <2>3. s \in Seq(Int) /\ Len(s) = Len(o) /\ Total(s) = Whole - at.position
    BY <1>1, <2>1, <2>2, TotalOfCounts
  <2>4. t \in Seq(Int) /\ Len(t) = Len(o) /\ Total(t) = at.position
    BY <1>1, <2>1, <2>2, TotalOfCounts
  <2>5. \A i \in 1 .. Len(o) : c[i] = s[i] + t[i]
    BY <1>4, <1>9 DEF PartsFor, Counts
  <2>6. \A i \in 1 .. Len(o) : c[i] \in Int
    <3>1. \A i \in 1 .. Len(o) : s[i] \in Int /\ t[i] \in Int
      BY <2>3, <2>4
    <3>2. QED
      BY <2>5, <3>1
  <2>7. c \in Seq(Int) /\ Len(c) = Len(o)
    BY <1>1, <1>4, <2>6
  <2> HIDE DEF s, t
  <2>8. Total(c) = Total(s) + Total(t)
    BY <2>3, <2>4, <2>5, <2>7, TotalAdds
  <2>9. QED
    BY <2>2, <2>3, <2>4, <2>8 DEF c
<1>10. QED
  BY <1>3, <1>7, <1>8, <1>9

(* JunctionsTotal, as a list of sums.                                      *)
JunctionSums(demands, key) ==
    [i \in DOMAIN SetToSeq(EnabledJunctions) |-> SumOf(demands[SetToSeq(EnabledJunctions)[i]], key)]

(* JunctionsTotal is the total of the sums.                                *)
LEMMA JunctionSumsAre ==
  ASSUME NEW demands \in [Junctions -> Seq(Demand)], NEW key
  PROVE  LET o == SetToSeq(EnabledJunctions)
         IN  /\ JunctionsTotal(demands, key) = Total(JunctionSums(demands, key))
             /\ JunctionSums(demands, key) \in Seq(Int) /\ Len(JunctionSums(demands, key)) = Len(o)
             /\ \A i \in 1 .. Len(o) : JunctionSums(demands, key)[i] = SumOf(demands[o[i]], key)
             /\ JunctionsTotal(demands, key) \in Int
<1> DEFINE o == SetToSeq(EnabledJunctions)
           c == JunctionSums(demands, key)
<1>1. /\ Len(o) \in Nat /\ DOMAIN o = 1 .. Len(o) /\ \A i \in 1 .. Len(o) : o[i] \in EnabledJunctions
  BY EnabledJunctionsAreFinite, OrderIs
<1>2. JunctionsTotal(demands, key) = Total(c)
  BY DEF JunctionsTotal, JunctionSums
<1>3. c = [i \in 1 .. Len(o) |-> SumOf(demands[o[i]], key)]
  BY <1>1 DEF JunctionSums
<1> HIDE DEF o, c
<1>4. \A i \in 1 .. Len(o) : SumOf(demands[o[i]], key) \in Int
  <2> SUFFICES ASSUME NEW i \in 1 .. Len(o)
               PROVE  SumOf(demands[o[i]], key) \in Int
    OBVIOUS
  <2>1. demands[o[i]] \in Seq(Demand)
    BY <1>1 DEF EnabledJunctions
  <2>2. QED
    BY <2>1, MeasuresOfList
<1>5. c \in Seq(Int) /\ Len(c) = Len(o) /\ \A i \in 1 .. Len(o) : c[i] = SumOf(demands[o[i]], key)
  BY <1>1, <1>3, <1>4
<1>6. Total(c) \in Int
  BY <1>5, TotalIsInt
<1>7. QED
  BY <1>2, <1>5, <1>6 DEF c, o

(* JunctionsTotal depends on the sums only.                                *)
LEMMA JunctionsTotalStays ==
  ASSUME NEW old \in [Junctions -> Seq(Demand)], NEW new \in [Junctions -> Seq(Demand)], NEW key,
         \A j \in EnabledJunctions : SumOf(new[j], key) = SumOf(old[j], key)
  PROVE  JunctionsTotal(new, key) = JunctionsTotal(old, key)
<1> DEFINE o == SetToSeq(EnabledJunctions)
<1>1. Len(o) \in Nat /\ DOMAIN o = 1 .. Len(o) /\ \A i \in 1 .. Len(o) : o[i] \in EnabledJunctions
  BY EnabledJunctionsAreFinite, OrderIs
<1>2. [i \in DOMAIN o |-> SumOf(new[o[i]], key)] = [i \in DOMAIN o |-> SumOf(old[o[i]], key)]
  BY <1>1
<1>3. QED
  BY <1>2 DEF JunctionsTotal

(* A valid point adds its demands to the total, whatever the shares.       *)
LEMMA JunctionsTotalGrows ==
  ASSUME JunctionsHere = EnabledJunctions, network.ends = request.ends,
         NEW point \in Point, PointIsValid(point), NEW key,
         NEW old \in [Junctions -> Seq(Demand)], NEW new \in [Junctions -> Seq(Demand)],
         \A j \in EnabledJunctions :
             /\ PartsFor(j, point.at) \in Int
             /\ Whole * SumOf(new[j], key)
                  = Whole * SumOf(old[j], key) + PartsFor(j, point.at) * SumOf(point.demands, key)
  PROVE  JunctionsTotal(new, key) = JunctionsTotal(old, key) + SumOf(point.demands, key)
<1> DEFINE o == SetToSeq(EnabledJunctions)
           parts == JunctionParts(point.at)
           x == SumOf(point.demands, key)
           a == JunctionSums(old, key)
           b == JunctionSums(new, key)
           d == [i \in 1 .. Len(o) |-> b[i] - a[i]]
<1>1. Len(o) \in Nat /\ DOMAIN o = 1 .. Len(o) /\ \A i \in 1 .. Len(o) : o[i] \in EnabledJunctions
  BY EnabledJunctionsAreFinite, OrderIs
<1>2. Total(parts) = Whole
  BY PartsAreWhole
<1>3. parts = [i \in 1 .. Len(o) |-> PartsFor(o[i], point.at)]
  BY <1>1 DEF JunctionParts
<1>4. x \in Int
  <2>1. point.demands \in Seq(Demand)
    BY DEF Point
  <2>2. QED
    BY <2>1, MeasuresOfList
<1>5. /\ JunctionsTotal(old, key) = Total(a)
      /\ a \in Seq(Int) /\ Len(a) = Len(o) /\ \A i \in 1 .. Len(o) : a[i] = SumOf(old[o[i]], key)
  BY JunctionSumsAre
<1>6. /\ JunctionsTotal(new, key) = Total(b)
      /\ b \in Seq(Int) /\ Len(b) = Len(o) /\ \A i \in 1 .. Len(o) : b[i] = SumOf(new[o[i]], key)
  BY JunctionSumsAre
<1> HIDE DEF o, parts, x, a, b
<1>7. \A i \in 1 .. Len(o) : a[i] \in Int /\ b[i] \in Int
  BY <1>5, <1>6
<1>8. parts \in Seq(Int) /\ Len(parts) = Len(o) /\ \A i \in 1 .. Len(o) : parts[i] = PartsFor(o[i], point.at)
  BY <1>1, <1>3
<1>9. d \in Seq(Int) /\ Len(d) = Len(o) /\ \A i \in 1 .. Len(o) : d[i] = b[i] - a[i]
  BY <1>1, <1>7
<1> HIDE DEF d
<1>10. \A i \in 1 .. Len(o) : Whole * d[i] = x * parts[i]
  <2> SUFFICES ASSUME NEW i \in 1 .. Len(o)
               PROVE  Whole * d[i] = x * parts[i]
    OBVIOUS
  <2>1. a[i] \in Int /\ b[i] \in Int /\ parts[i] \in Int /\ Whole \in Int
    BY <1>1, <1>7, <1>8, WholeAssumption
  <2>2. Whole * b[i] = Whole * a[i] + parts[i] * x
    BY <1>1, <1>5, <1>6, <1>8 DEF x
  <2>3. d[i] = b[i] - a[i]
    BY <1>9
  <2> DEFINE ai == a[i]
             bi == b[i]
             pi == parts[i]
             di == d[i]
  <2> HIDE DEF ai, bi, pi, di
  <2>4. Whole * bi = Whole * ai + pi * x /\ di = bi - ai /\ ai \in Int /\ bi \in Int /\ pi \in Int
    BY <2>1, <2>2, <2>3 DEF ai, bi, pi, di
  <2>5. Whole * (bi - ai) = Whole * bi - Whole * ai
    BY <2>1, <2>4
  <2>6. pi * x = x * pi /\ Whole * bi \in Int /\ Whole * ai \in Int /\ pi * x \in Int
    BY <1>4, <2>1, <2>4
  <2>7. Whole * di = x * pi
    BY <2>4, <2>5, <2>6
  <2>8. QED
    BY <2>7 DEF di, pi
<1>11. Whole * Total(d) = x * Total(parts)
  <2>1. Whole \in Int /\ x \in Int /\ d \in Seq(Int) /\ parts \in Seq(Int) /\ Len(parts) = Len(d)
    BY <1>4, <1>8, <1>9, WholeAssumption
  <2>2. \A i \in 1 .. Len(d) : Whole * d[i] = x * parts[i]
    BY <1>9, <1>10
  <2>3. QED
    BY <2>1, <2>2, TotalScales
<1>12. Total(d) = x
  <2>1. Total(d) \in Int
    BY <1>9, TotalIsInt
  <2> DEFINE y == Total(d)
  <2> HIDE DEF y
  <2>2. Whole * y = x * Whole /\ y \in Int
    BY <1>2, <1>11, <2>1 DEF y
  <2>3. Whole * y <= Whole * x /\ Whole * x < Whole * y + Whole
    <3>1. Whole * x = x * Whole /\ Whole * x \in Int
      BY <1>4, WholeAssumption
    <3> DEFINE z == Whole * x
    <3> HIDE DEF z
    <3>2. Whole * y = z /\ z \in Int
      BY <2>2, <3>1 DEF z
    <3>3. z <= z /\ z < z + Whole
      BY <3>2, WholeAssumption
    <3>4. QED
      BY <3>2, <3>3 DEF z
  <2>4. y = x
    BY <1>4, <2>2, <2>3, WholeAssumption, Squeezed
  <2>5. QED
    BY <2>4 DEF y
<1>13. Total(b) = Total(a) + Total(d)
  <2>1. \A i \in 1 .. Len(o) : b[i] = a[i] + d[i]
    BY <1>7, <1>9
  <2>2. QED
    BY <1>5, <1>6, <1>9, <2>1, TotalAdds
<1>14. QED
  BY <1>5, <1>6, <1>12, <1>13 DEF x

-----------------------------------------------------------------------------
(* The request, and the points projected so far.                           *)

(* The types of a request.                                                 *)
LEMMA RequestIs ==
  ASSUME request \in Requests
  PROVE  /\ request \in Request
         /\ request.nodes \in SUBSET Nodes /\ request.pipes \in SUBSET Pipes
         /\ request.roughness \in [Pipes -> {"Direct", "Library", "Unknown"}]
         /\ request.demands \in [Junctions -> Seq(Demand)]
         /\ request.points \in Seq(Point)
         /\ request.selections.nodes \in Selection /\ request.selections.links \in Selection
<1>1. request \in Request
  BY RequestsAssumption
<1>2. QED
  BY <1>1 DEF Request

(* The units make the shares of a point whole.                             *)
LEMMA RequestSplits ==
  ASSUME request \in Requests, NEW k \in 1 .. Len(request.points)
  PROVE  /\ request.points[k] \in Point
         /\ SplitsAll(request.points[k].demands, request.points[k].at.position)
<1>1. request.points \in Seq(Point)
  BY RequestIs
<1>2. request.points[k] \in Point /\ k \in DOMAIN request.points
  BY <1>1
<1> DEFINE point == request.points[k]
<1>3. point.demands \in Seq(Demand)
  BY <1>2 DEF Point
<1>4. DOMAIN point.demands = 1 .. Len(point.demands)
  BY <1>3
<1>5. \A i \in DOMAIN point.demands :
         Whole * ((point.demands[i].amount * point.at.position) \div Whole)
           = point.demands[i].amount * point.at.position
  BY <1>2, UnitsAssumption
<1>6. QED
  BY <1>2, <1>4, <1>5 DEF SplitsAll, Splits

(* The types of the worths.                                                *)
LEMMA WorthsAre ==
  ASSUME NEW j, NEW key
  PROVE  /\ Gives(j, key) \in [Point -> Int]
         /\ Asked(key) \in [Point -> Int]
         /\ Sized(key) \in [Point -> Int]
         /\ \A point \in Point : SumOf(Magnitudes(point.demands), key) \in Nat
<1>1. \A point \in Point : SumOf(point.demands, key) \in Int /\ SumOf(Magnitudes(point.demands), key) \in Nat
  <2> SUFFICES ASSUME NEW point \in Point
               PROVE  SumOf(point.demands, key) \in Int /\ SumOf(Magnitudes(point.demands), key) \in Nat
    OBVIOUS
  <2>1. point.demands \in Seq(Demand)
    BY DEF Point
  <2>2. QED
    BY <2>1, MeasuresOfList, SumOfMagnitudes
<1>2. \A point \in Point : (IF PartsFor(j, point.at) \in 0 .. Whole
                            THEN SumOf(point.demands, key) * PartsFor(j, point.at) ELSE 0) \in Int
  <2> SUFFICES ASSUME NEW point \in Point, PartsFor(j, point.at) \in 0 .. Whole
               PROVE  SumOf(point.demands, key) * PartsFor(j, point.at) \in Int
    OBVIOUS
  <2>1. PartsFor(j, point.at) \in Int
    BY WholeAssumption
  <2>2. SumOf(point.demands, key) \in Int
    BY <1>1
  <2>3. QED
    BY <2>1, <2>2
<1>3. Gives(j, key) \in [Point -> Int]
  BY <1>2 DEF Gives
<1>4. Asked(key) \in [Point -> Int]
  BY <1>1 DEF Asked
<1>5. Sized(key) \in [Point -> Int]
  <2>1. \A point \in Point : SumOf(Magnitudes(point.demands), key) \in Int
    BY <1>1
  <2>2. QED
    BY <2>1 DEF Sized
<1>6. QED
  BY <1>1, <1>3, <1>4, <1>5

(* One more point is projected.                                            *)
LEMMA WorthUpTo ==
  ASSUME NEW g \in [Point -> Int], NEW points \in Seq(Point), NEW n \in 1 .. Len(points)
  PROVE  Total(UpTo(Values(points, g), n)) = Total(UpTo(Values(points, g), n - 1)) + Worth(points[n], g)
<1>1. Values(points, g) \in Seq(Int) /\ Len(Values(points, g)) = Len(points)
      /\ Values(points, g)[n] = Worth(points[n], g)
  BY ValuesOfList
<1>2. QED
  BY <1>1, TotalUpTo

(* Sums of worths are integers.                                            *)
LEMMA SumsUpTo ==
  ASSUME NEW g \in [Point -> Int], NEW points \in Seq(Point), NEW n \in Int
  PROVE  Total(UpTo(Values(points, g), n)) \in Int
<1>1. Values(points, g) \in Seq(Int)
  BY ValuesOfList
<1>2. UpTo(Values(points, g), n) \in Seq(Int)
  BY <1>1, TotalUpTo
<1>3. QED
  BY <1>2, TotalIsInt

(* All points are projected.                                               *)
LEMMA AllOfThem ==
  ASSUME NEW g \in [Point -> Int], NEW points \in Seq(Point)
  PROVE  Total(UpTo(Values(points, g), Len(points))) = Total(Values(points, g))
<1>1. Values(points, g) \in Seq(Int) /\ Len(Values(points, g)) = Len(points)
  BY ValuesOfList
<1>2. QED
  BY <1>1, TotalUpTo

(* ProjectPoint passes a point that is disabled or without demands.        *)
LEMMA ProjectedStays ==
  ASSUME NEW j, NEW own, NEW list, NEW points \in Seq(Point), NEW n \in 1 .. Len(points),
         Projected(own, list, points, j, n - 1), ~IsActive(points[n])
  PROVE  Projected(own, list, points, j, n)
<1>1. ASSUME NEW g \in [Point -> Int]
      PROVE  Total(UpTo(Values(points, g), n)) = Total(UpTo(Values(points, g), n - 1))
  <2>1. Worth(points[n], g) = 0
    BY DEF Worth
  <2>2. Total(UpTo(Values(points, g), n)) = Total(UpTo(Values(points, g), n - 1)) + 0
    BY <2>1, WorthUpTo
  <2>3. Total(UpTo(Values(points, g), n - 1)) \in Int
    BY SumsUpTo
  <2>4. QED
    BY <2>2, <2>3
<1>2. ASSUME NEW key
      PROVE  /\ Total(UpTo(Values(points, Gives(j, key)), n)) = Total(UpTo(Values(points, Gives(j, key)), n - 1))
             /\ Total(UpTo(Values(points, Sized(key)), n)) = Total(UpTo(Values(points, Sized(key)), n - 1))
  <2>1. Gives(j, key) \in [Point -> Int] /\ Sized(key) \in [Point -> Int]
    BY WorthsAre
  <2>2. QED
    BY <1>1, <2>1
<1>3. QED
  BY <1>2 DEF Projected

(* A list has grown by so many parts of some demands.                      *)
Grown(new, old, parts, ds) ==
    \A key : Whole * SumOf(new, key) = Whole * SumOf(old, key) + parts * SumOf(ds, key)

(* ProjectPoint appends what the junction gets of a valid point.           *)
LEMMA ProjectedGrows ==
  ASSUME request \in Requests, network.pipes \subseteq Pipes, network.ends = request.ends,
         NEW points \in Seq(Point), NEW n \in 1 .. Len(points),
         NEW k \in ActivePoints, request.points[k] = points[n], IsActive(points[n]), PointIsValid(points[n]),
         NEW j, NEW own \in Seq(Demand), NEW list \in Seq(Demand),
         Projected(own, list, points, j, n - 1)
  PROVE  /\ list \o Received(j, points[n]) \in Seq(Demand)
         /\ Projected(own, list \o Received(j, points[n]), points, j, n)
         /\ PartsFor(j, points[n].at) \in 0 .. Whole
         /\ Grown(list \o Received(j, points[n]), list, PartsFor(j, points[n].at), points[n].demands)
<1> DEFINE point == points[n]
           ds == point.demands
           got == Received(j, point)
           parts == PartsFor(j, point.at)
           l == list \o got
           o == Len(own)
<1>1. point \in Point /\ n \in Int
  OBVIOUS
<1>2. ds \in Seq(Demand)
  BY <1>1 DEF Point
<1>3. SplitsAll(ds, point.at.position)
  <2>1. k \in 1 .. Len(request.points)
    <3>1. request.points \in Seq(Point)
      BY RequestIs
    <3>2. QED
      BY <3>1 DEF ActivePoints
  <2>2. QED
    BY <2>1, RequestSplits
<1>4. GotPart(got, ds, parts) /\ parts \in 0 .. Whole
  BY <1>1, <1>3, ReceivedIs
<1>5. /\ got \in Seq(Demand)
      /\ \A i \in 1 .. Len(got) : ComesFrom(got[i], ds)
      /\ \A key : Whole * SumOf(got, key) = parts * SumOf(ds, key)
  BY <1>4 DEF GotPart
<1>6. /\ l \in Seq(Demand) /\ Len(l) = Len(list) + Len(got)
      /\ \A i \in 1 .. Len(list) + Len(got) : l[i] = IF i <= Len(list) THEN list[i] ELSE got[i - Len(list)]
  BY <1>5, ConcatProperties
<1>7. Len(list) \in Nat /\ Len(got) \in Nat /\ o \in Nat
  BY <1>5
<1>8. /\ o <= Len(list)
      /\ \A i \in 1 .. o : list[i] = own[i]
      /\ \A i \in o + 1 .. Len(list) : Requested(list[i])
  BY DEF Projected
<1>9. parts \in Int /\ Whole \in Int
  BY <1>4, WholeAssumption
<1>10. ASSUME NEW key
       PROVE  /\ SumOf(l, key) = SumOf(list, key) + SumOf(got, key)
              /\ SumOf(list, key) \in Int /\ SumOf(got, key) \in Int /\ SumOf(ds, key) \in Int
              /\ SumOf(own, key) \in Int
  BY <1>2, <1>5, SumOfConcat, MeasuresOfList
<1> HIDE DEF point, ds, got, parts, l
<1>11. ASSUME NEW key
       PROVE  Whole * SumOf(l, key) = Whole * SumOf(list, key) + parts * SumOf(ds, key)
  <2> DEFINE a == SumOf(list, key)
             b == SumOf(got, key)
             x == SumOf(ds, key)
             y == parts * x
  <2>1. SumOf(l, key) = a + b /\ a \in Int /\ b \in Int /\ x \in Int
    BY <1>10
  <2>2. Whole * b = y
    BY <1>5
  <2> HIDE DEF a, b, x, y
  <2>3. Whole * (a + b) = Whole * a + Whole * b
    BY <1>9, <2>1, Distribute
  <2>4. QED
    BY <2>1, <2>2, <2>3 DEF a, y, x
<1>12. ASSUME NEW key
       PROVE  Whole * SumOf(l, key)
                = Whole * SumOf(own, key) + Total(UpTo(Values(points, Gives(j, key)), n))
  <2> DEFINE g == Gives(j, key)
             before == Total(UpTo(Values(points, g), n - 1))
             after == Total(UpTo(Values(points, g), n))
             x == SumOf(ds, key)
  <2>1. g \in [Point -> Int]
    BY WorthsAre
  <2>2. g[point] = x * parts
    BY <1>1, <1>4 DEF Gives, parts, ds
  <2>3. Worth(point, g) = x * parts
    BY <2>2 DEF Worth, point
  <2>4. after = before + Worth(point, g) /\ before \in Int
    <3> HIDE DEF g
    <3>1. after = before + Worth(point, g)
      BY <2>1, WorthUpTo DEF point
    <3>2. n - 1 \in Int
      BY <1>1
    <3>3. before \in Int
      BY <2>1, <3>2, SumsUpTo
    <3>4. QED
      BY <3>1, <3>3
  <2>5. Whole * SumOf(list, key) = Whole * SumOf(own, key) + before
    BY DEF Projected
  <2>6. Whole * SumOf(l, key) = Whole * SumOf(list, key) + parts * x
    BY <1>11
  <2>7. x \in Int /\ SumOf(own, key) \in Int
    BY <1>10
  <2>8. parts * x = x * parts /\ parts * x \in Int /\ Whole * SumOf(own, key) \in Int
    BY <1>9, <2>7
  <2> DEFINE u == parts * x
             w == Whole * SumOf(own, key)
             z == Whole * SumOf(list, key)
  <2>9. after = before + u /\ z = w + before /\ Whole * SumOf(l, key) = z + u /\ u \in Int /\ w \in Int
    BY <2>3, <2>4, <2>5, <2>6, <2>8
  <2> HIDE DEF u, w, z, before, after
  <2>10. Whole * SumOf(l, key) = w + after
    BY <2>4, <2>9
  <2>11. QED
    BY <2>10 DEF w, after
<1>13. ASSUME NEW key
       PROVE  Weight(l, o, Len(l), key) <= Total(UpTo(Values(points, Sized(key)), n))
  <2> DEFINE g == Sized(key)
             before == Total(UpTo(Values(points, g), n - 1))
             after == Total(UpTo(Values(points, g), n))
             h == SubSeq(list, o + 1, Len(list))
  <2>1. g \in [Point -> Int]
    BY WorthsAre
  <2>2. g[point] = SumOf(Magnitudes(ds), key)
    BY <1>1 DEF Sized, ds, point
  <2>3. Worth(point, g) = SumOf(Magnitudes(ds), key)
    BY <2>2 DEF Worth, point
  <2>4. after = before + Worth(point, g) /\ before \in Int
    <3> HIDE DEF g
    <3>1. after = before + Worth(point, g)
      BY <2>1, WorthUpTo DEF point
    <3>2. n - 1 \in Int
      BY <1>1
    <3>3. before \in Int
      BY <2>1, <3>2, SumsUpTo
    <3>4. QED
      BY <3>1, <3>3
  <2>5. Weight(list, o, Len(list), key) <= before
    BY DEF Projected
  <2>6. Given(l, o, Len(l)) = h \o got
    <3>1. h \in Seq(Demand) /\ Len(h) = Len(list) - o /\ \A i \in 1 .. Len(list) - o : h[i] = list[o + i]
      <4>1. h \in Seq(Demand) /\ Len(h) = Len(list) - o
        BY <1>7, <1>8
      <4>2. \A i \in 1 .. Len(list) - o : h[i] = list[o + i]
        BY <1>7, <1>8
      <4>3. QED
        BY <4>1, <4>2
    <3> HIDE DEF h
    <3>2. /\ h \o got \in Seq(Demand) /\ Len(h \o got) = Len(h) + Len(got)
          /\ \A i \in 1 .. Len(h) + Len(got) : (h \o got)[i] = IF i <= Len(h) THEN h[i] ELSE got[i - Len(h)]
      BY <1>5, <3>1, ConcatProperties
    <3> DEFINE s == SubSeq(l, o + 1, Len(l))
    <3>3. s \in Seq(Demand) /\ Len(s) = Len(l) - o
      BY <1>6, <1>7, <1>8
    <3>4. \A i \in 1 .. Len(l) - o : s[i] = l[o + i]
      BY <1>6, <1>7, <1>8
    <3> HIDE DEF s
    <3> DEFINE t == h \o got
    <3> HIDE DEF t
    <3>5. t \in Seq(Demand) /\ Len(t) = Len(s)
      BY <1>6, <1>7, <3>1, <3>2, <3>3 DEF t
    <3>6. \A i \in 1 .. Len(s) : s[i] = t[i]
      <4> SUFFICES ASSUME NEW i \in 1 .. Len(s)
                   PROVE  s[i] = t[i]
        OBVIOUS
      <4>1. s[i] = l[o + i] /\ o + i \in 1 .. Len(list) + Len(got) /\ i \in 1 .. Len(h) + Len(got)
        BY <1>6, <1>7, <1>8, <3>1, <3>3, <3>4
      <4>2. CASE o + i <= Len(list)
        <5>1. i <= Len(h) /\ i \in 1 .. Len(list) - o
          BY <1>7, <3>1, <4>1, <4>2
        <5>2. s[i] = list[o + i] /\ t[i] = h[i] /\ h[i] = list[o + i]
          BY <1>6, <3>1, <3>2, <4>1, <4>2, <5>1 DEF t
        <5>3. QED
          BY <5>2
      <4>3. CASE ~(o + i <= Len(list))
        <5>1. ~(i <= Len(h)) /\ o + i - Len(list) = i - Len(h)
          BY <1>7, <3>1, <4>1, <4>3
        <5>2. s[i] = got[o + i - Len(list)]
          <6>1. l[o + i] = got[o + i - Len(list)]
            BY <1>6, <4>1, <4>3
          <6>2. QED
            BY <4>1, <6>1
        <5>3. t[i] = got[i - Len(h)]
          BY <3>2, <4>1, <5>1 DEF t
        <5>4. QED
          BY <5>1, <5>2, <5>3
      <4>4. QED
        BY <4>2, <4>3
    <3>7. s = t
      BY <3>3, <3>5, <3>6, SeqEqual
    <3>8. QED
      BY <3>7 DEF s, t, Given
  <2>7. h \in Seq(Demand)
    BY <1>7, <1>8
  <2>8. Weight(list, o, Len(list), key) = SumOf(Magnitudes(h), key)
    BY DEF Weight, Given
  <2> HIDE DEF h, before, after, g
  <2>9. SumOf(Magnitudes(h \o got), key) = SumOf(Magnitudes(h), key) + SumOf(Magnitudes(got), key)
    <3>1. Magnitudes(h \o got) = Magnitudes(h) \o Magnitudes(got)
      BY <1>5, <2>7, MagnitudesOfConcat
    <3>2. Magnitudes(h) \in Seq(Demand) /\ Magnitudes(got) \in Seq(Demand)
      BY <1>5, <2>7, MagnitudesOfList
    <3>3. QED
      BY <3>1, <3>2, SumOfConcat
  <2>10. SumOf(Magnitudes(got), key) <= SumOf(Magnitudes(ds), key)
    BY <1>2, <1>4, GotAtMost DEF ds
  <2>11. SumOf(Magnitudes(got), key) \in Nat /\ SumOf(Magnitudes(ds), key) \in Nat
         /\ SumOf(Magnitudes(h), key) \in Nat
    BY <1>2, <1>5, <2>7, SumOfMagnitudes DEF ds
  <2>12. Weight(l, o, Len(l), key) = SumOf(Magnitudes(h \o got), key)
    BY <2>6 DEF Weight
  <2> DEFINE u == SumOf(Magnitudes(got), key)
             w == SumOf(Magnitudes(ds), key)
             z == SumOf(Magnitudes(h), key)
  <2>13. /\ Weight(l, o, Len(l), key) = z + u /\ u <= w /\ z <= before /\ after = before + w
         /\ u \in Int /\ w \in Int /\ z \in Int /\ before \in Int
    BY <2>3, <2>4, <2>5, <2>8, <2>9, <2>10, <2>11, <2>12
  <2> HIDE DEF u, w, z
  <2>14. Weight(l, o, Len(l), key) <= after
    BY <2>13
  <2>15. QED
    BY <2>14 DEF after, g
<1>14. \A i \in 1 .. o : l[i] = own[i]
  BY <1>6, <1>7, <1>8
<1>15. \A i \in o + 1 .. Len(l) : Requested(l[i])
  <2> SUFFICES ASSUME NEW i \in o + 1 .. Len(l)
               PROVE  Requested(l[i])
    OBVIOUS
  <2>1. i \in 1 .. Len(list) + Len(got)
    BY <1>6, <1>7
  <2>2. CASE i <= Len(list)
    <3>1. l[i] = list[i] /\ i \in o + 1 .. Len(list)
      BY <1>6, <1>7, <2>1, <2>2
    <3>2. QED
      BY <1>8, <3>1
  <2>3. CASE ~(i <= Len(list))
    <3>1. l[i] = got[i - Len(list)] /\ i - Len(list) \in 1 .. Len(got)
      BY <1>6, <1>7, <2>1, <2>3
    <3>2. ComesFrom(l[i], request.points[k].demands)
      BY <1>5, <3>1 DEF ds, point
    <3>3. QED
      BY <3>2 DEF Requested
  <2>4. QED
    BY <2>2, <2>3
<1>16. Projected(own, l, points, j, n)
  <2>1. o <= Len(l)
    BY <1>6, <1>7, <1>8
  <2>2. QED
    BY <1>12, <1>13, <1>14, <1>15, <2>1 DEF Projected
<1>17. Grown(l, list, parts, ds)
  BY <1>11 DEF Grown
<1>18. QED
  BY <1>4, <1>6, <1>16, <1>17 DEF l, got, parts, point, ds

(* The active points, by index.                                            *)
LEMMA ActivePointIs ==
  ASSUME request \in Requests, NEW k
  PROVE  k \in ActivePoints <=> k \in 1 .. Len(request.points) /\ IsActive(request.points[k])
<1>1. request.points \in Seq(Point)
  BY RequestIs
<1>2. DOMAIN request.points = 1 .. Len(request.points)
  BY <1>1
<1>3. QED
  BY <1>2 DEF ActivePoints

(* The totals of the properties, as totals of what points are worth.       *)
LEMMA PointsAreWorth ==
  ASSUME request \in Requests, NEW key
  PROVE  /\ PointsTotal(key) = Total(Values(request.points, Asked(key)))
         /\ PointsMagnitude(key) = Total(Values(request.points, Sized(key)))
         /\ \A j : (\A k \in ActivePoints : PartsFor(j, request.points[k].at) \in 0 .. Whole) =>
               Total([k \in DOMAIN request.points |->
                        IF k \in ActivePoints
                        THEN SumOf(request.points[k].demands, key) * PartsFor(j, request.points[k].at)
                        ELSE 0])
                 = Total(Values(request.points, Gives(j, key)))
<1> DEFINE points == request.points
<1>1. points \in Seq(Point)
  BY RequestIs
<1>2. \A k \in DOMAIN points : points[k] \in Point /\ (k \in ActivePoints <=> IsActive(points[k]))
  BY <1>1 DEF ActivePoints
<1>3. PointsTotal(key) = Total(Values(points, Asked(key)))
  <2>1. \A k \in DOMAIN points : (IF k \in ActivePoints THEN SumOf(points[k].demands, key) ELSE 0)
                                   = Worth(points[k], Asked(key))
    BY <1>2 DEF Worth, Asked
  <2>2. [k \in DOMAIN points |-> IF k \in ActivePoints THEN SumOf(points[k].demands, key) ELSE 0]
          = Values(points, Asked(key))
    BY <2>1 DEF Values
  <2>3. QED
    BY <2>2 DEF PointsTotal
<1>4. PointsMagnitude(key) = Total(Values(points, Sized(key)))
  <2>1. \A k \in DOMAIN points : (IF k \in ActivePoints THEN SumOf(Magnitudes(points[k].demands), key) ELSE 0)
                                   = Worth(points[k], Sized(key))
    BY <1>2 DEF Worth, Sized
  <2>2. [k \in DOMAIN points |-> IF k \in ActivePoints THEN SumOf(Magnitudes(points[k].demands), key) ELSE 0]
          = Values(points, Sized(key))
    BY <2>1 DEF Values
  <2>3. QED
    BY <2>2 DEF PointsMagnitude
<1>5. ASSUME NEW j, \A k \in ActivePoints : PartsFor(j, points[k].at) \in 0 .. Whole
      PROVE  Total([k \in DOMAIN points |->
                      IF k \in ActivePoints
                      THEN SumOf(points[k].demands, key) * PartsFor(j, points[k].at) ELSE 0])
               = Total(Values(points, Gives(j, key)))
  <2>1. \A k \in DOMAIN points :
           (IF k \in ActivePoints THEN SumOf(points[k].demands, key) * PartsFor(j, points[k].at) ELSE 0)
             = Worth(points[k], Gives(j, key))
    BY <1>2, <1>5 DEF Worth, Gives
  <2>2. [k \in DOMAIN points |->
           IF k \in ActivePoints THEN SumOf(points[k].demands, key) * PartsFor(j, points[k].at) ELSE 0]
          = Values(points, Gives(j, key))
    BY <2>1 DEF Values
  <2>3. QED
    BY <2>2
<1>6. QED
  BY <1>3, <1>4, <1>5

(* The demands of active points are among the keys.                        *)
LEMMA RequestedKeys ==
  ASSUME request \in Requests, NEW k \in ActivePoints, NEW i \in 1 .. Len(request.points[k].demands)
  PROVE  request.points[k].demands[i] \in Keys
<1>1. request.points[k] \in Point
  BY ActivePointIs, RequestSplits
<1>2. request.points[k].demands \in Seq(Demand)
  BY <1>1 DEF Point
<1>3. i \in DOMAIN request.points[k].demands
  BY <1>2
<1> DEFINE S == {request.points[k].demands[m] : m \in DOMAIN request.points[k].demands}
           A == {{request.demands[j][m] : m \in DOMAIN request.demands[j]} : j \in EnabledJunctions}
           B == {{request.points[x].demands[m] : m \in DOMAIN request.points[x].demands} :
                   x \in ActivePoints}
<1>4. request.points[k].demands[i] \in S
  BY <1>3
<1>5. S \in B
  OBVIOUS
<1>6. Keys = UNION (A \union B)
  BY DEF Keys
<1> HIDE DEF A, B, S
<1>7. QED
  BY <1>4, <1>5, <1>6

(* Aggregate, at a junction: the outcome keeps all sums, or it overflows.  *)
LEMMA CompactedSettles ==
  ASSUME request \in Requests, NEW j, NEW own \in Seq(Demand), NEW list \in Seq(Demand),
         LET points == EnabledPoints(request.points) IN Projected(own, list, points, j, Len(points))
  PROVE  LET c == Compacted(list, Len(own))
         IN  /\ c \in Seq(Demand) /\ Len(own) <= Len(c) /\ \A i \in 1 .. Len(own) : c[i] = own[i]
             /\ \/ Settled(own, c, j) /\ \A key : SumOf(c, key) = SumOf(list, key)
                \/ /\ \E i \in Len(own) + 1 .. Len(c) : ~Finite(c[i].amount)
                   /\ \E key \in Keys : PointsMagnitude(key) > Limit
<1> DEFINE points == EnabledPoints(request.points)
           o == Len(own)
           n == Len(list)
           c == Compacted(list, o)
<1>1. request.points \in Seq(Point)
  BY RequestIs
<1>2. points \in Seq(Point) /\ \A g \in [Point -> Int] : Total(Values(points, g)) = Total(Values(request.points, g))
  BY <1>1, EnabledPointsAre
<1> HIDE DEF points
<1>3. ASSUME NEW g \in [Point -> Int]
      PROVE  Total(UpTo(Values(points, g), Len(points))) = Total(Values(request.points, g))
  BY <1>2, AllOfThem
<1>4. /\ o <= n
      /\ \A i \in 1 .. o : list[i] = own[i]
      /\ \A i \in o + 1 .. n : Requested(list[i])
      /\ \A key : Whole * SumOf(list, key)
                    = Whole * SumOf(own, key) + Total(UpTo(Values(points, Gives(j, key)), Len(points)))
      /\ \A key : Weight(list, o, n, key) <= Total(UpTo(Values(points, Sized(key)), Len(points)))
  BY DEF Projected, points
<1>5. o \in Nat /\ n \in Nat /\ o \in 0 .. n
  BY <1>4
<1>6. \A i \in o + 1 .. n : Finite(list[i].amount)
  BY <1>4 DEF Requested, ComesFrom
<1>7. Merging(c, list, o, n) /\ (Sums(c, list, o, n) \/ Overflows(c, list, o))
  BY <1>5, <1>6, CompactedIs
<1>8. /\ c \in Seq(Demand) /\ o <= Len(c)
      /\ \A i \in 1 .. o : c[i] = list[i]
      /\ Distinct(c, o)
      /\ \A i \in o + 1 .. Len(c) : \E k \in o + 1 .. n : Kind(c[i], list[k])
  BY <1>7 DEF Merging
<1> HIDE DEF c, o, n
<1>9. \A i \in 1 .. o : c[i] = own[i]
  BY <1>4, <1>8
<1>10. CASE Sums(c, list, o, n)
  <2>1. \A i \in o + 1 .. Len(c) : Finite(c[i].amount)
    BY <1>10 DEF Sums
  <2>2. ASSUME NEW key
        PROVE  SumOf(c, key) = SumOf(list, key)
    <3>1. SubSeq(list, 1, n) = list
      BY SubSeqFull DEF n
    <3>2. SumOf(c, key) = SumOf(SubSeq(list, 1, n), key)
      BY <1>10 DEF Sums
    <3>3. QED
      BY <3>1, <3>2
  <2>3. \A i \in o + 1 .. Len(c) : Requested(c[i])
    <3> SUFFICES ASSUME NEW i \in o + 1 .. Len(c)
                 PROVE  Requested(c[i])
      OBVIOUS
    <3>1. PICK k \in o + 1 .. n : Kind(c[i], list[k])
      BY <1>8
    <3>2. PICK m \in ActivePoints : ComesFrom(list[k], request.points[m].demands)
      BY <1>4 DEF Requested
    <3>3. ComesFrom(c[i], request.points[m].demands)
      BY <2>1, <3>1, <3>2 DEF ComesFrom, Kind
    <3>4. QED
      BY <3>3 DEF Requested
  <2>4. ASSUME NEW key
        PROVE  Whole * SumOf(c, key) = Whole * SumOf(own, key) + Total(Values(request.points, Gives(j, key)))
    <3>1. Gives(j, key) \in [Point -> Int]
      BY WorthsAre
    <3>2. Total(UpTo(Values(points, Gives(j, key)), Len(points))) = Total(Values(request.points, Gives(j, key)))
      BY <1>3, <3>1
    <3>3. QED
      BY <1>4, <2>2, <3>2
  <2>5. Settled(own, c, j)
    BY <1>8, <1>9, <2>3, <2>4 DEF Settled, o
  <2>6. QED
    BY <1>8, <1>9, <2>2, <2>5 DEF c, o
<1>11. CASE Overflows(c, list, o)
  <2>1. /\ \E i \in o + 1 .. Len(c) : ~Finite(c[i].amount)
        /\ \E k \in o + 1 .. n : Weight(list, o, n, list[k]) > Limit
    BY <1>11 DEF Overflows, n
  <2>2. PICK k \in o + 1 .. n : Weight(list, o, n, list[k]) > Limit
    BY <2>1
  <2>3. PICK m \in ActivePoints : ComesFrom(list[k], request.points[m].demands)
    BY <1>4 DEF Requested
  <2>4. PICK i \in 1 .. Len(request.points[m].demands) : Kind(list[k], request.points[m].demands[i])
    BY <2>3 DEF ComesFrom, Kind
  <2> DEFINE key == request.points[m].demands[i]
  <2>5. key \in Keys
    BY RequestedKeys
  <2>6. Weight(list, o, n, list[k]) = Weight(list, o, n, key)
    BY <2>4, SameWeight
  <2> HIDE DEF key
  <2>7. Sized(key) \in [Point -> Int]
    BY WorthsAre
  <2>8. Total(UpTo(Values(points, Sized(key)), Len(points))) = Total(Values(request.points, Sized(key)))
    BY <1>3, <2>7
  <2>9. PointsMagnitude(key) = Total(Values(request.points, Sized(key)))
    BY PointsAreWorth
  <2>10. Weight(list, o, n, key) <= PointsMagnitude(key)
    BY <1>4, <2>8, <2>9
  <2>11. PointsMagnitude(key) \in Int /\ Weight(list, o, n, key) \in Int
    <3>1. Values(request.points, Sized(key)) \in Seq(Int)
      BY <1>1, <2>7, ValuesOfList
    <3>2. n \in o .. Len(list)
      BY <1>5 DEF n
    <3>3. Weight(list, o, n, key) \in Nat
      BY <1>5, <3>2, GivenIs DEF n
    <3>4. QED
      BY <2>9, <3>1, <3>3, TotalIsInt
  <2>12. PointsMagnitude(key) > Limit
    <3>1. Weight(list, o, n, key) > Limit
      BY <2>2, <2>6
    <3>2. QED
      BY <2>10, <2>11, <3>1, LimitAssumption
  <2>13. \E x \in Keys : PointsMagnitude(x) > Limit
    BY <2>5, <2>12
  <2>14. QED
    BY <1>8, <1>9, <2>1, <2>13 DEF c, o
<1>12. QED
  BY <1>7, <1>10, <1>11

-----------------------------------------------------------------------------
(* One lemma per action.                                                   *)

(* The types of a network.                                                 *)
LEMMA NetworkFields ==
  ASSUME network \in Network
  PROVE  /\ network.nodes \in SUBSET Nodes /\ network.pipes \in SUBSET Pipes
         /\ network.roughness \in [Pipes -> {"Direct", "Library", "Unknown", "Resolved"}]
         /\ network.demands \in [Junctions -> Seq(Demand)]
         /\ network.points \in Seq(Point)
         /\ network.selections \in [nodes : Selection, links : Selection]
         /\ network.ends \in [Pipes -> [from : Uuids, to : Uuids]]
         /\ network.enabled \in SUBSET Uuids
BY DEF Network

(* What depends on the request alone does not change.                      *)
LEMMA SameRequest ==
  ASSUME request' = request
  PROVE  /\ EnabledJunctions' = EnabledJunctions /\ ActivePoints' = ActivePoints /\ Keys' = Keys
         /\ (PipeFails' <=> PipeFails) /\ (DemandFails' <=> DemandFails)
         /\ (PointFails' <=> PointFails) /\ (SumFails' <=> SumFails)
<1>1. EnabledJunctions' = EnabledJunctions
  BY DEF EnabledJunctions
<1>2. ActivePoints' = ActivePoints
  BY DEF ActivePoints
<1>3. Keys' = Keys
  BY <1>1, <1>2 DEF Keys
<1>4. PipeFails' <=> PipeFails
  BY DEF PipeFails
<1>5. DemandFails' <=> DemandFails
  BY <1>1 DEF DemandFails
<1>6. PointFails' <=> PointFails
  BY <1>1, <1>2 DEF PointFails
<1>7. SumFails' <=> SumFails
  <2>1. ASSUME NEW key
        PROVE  PointsMagnitude(key)' = PointsMagnitude(key)
    BY <1>2 DEF PointsMagnitude
  <2>2. QED
    BY <1>3, <2>1 DEF SumFails
<1>8. QED
  BY <1>1, <1>2, <1>3, <1>4, <1>5, <1>6, <1>7

(* A step that fails.                                                      *)
LEMMA FailStep ==
  ASSUME IInv, request' = request, network' = network, index' = index, pc' = "failed",
         PipeFails \/ DemandFails \/ PointFails \/ SumFails
  PROVE  IInv'
<1>1. TypeInv'
  BY DEF IInv, TypeInv
<1>2. OnlyEnabledPartsFail'
  BY SameRequest DEF OnlyEnabledPartsFail
<1>3. Untouched' /\ Resolved' /\ Validated' /\ Enabled'
  BY DEF Untouched, Resolved, Validated, Enabled
<1>4. Projecting' /\ Compacting' /\ Revalidated' /\ Reported'
  BY DEF Projecting, Compacting, Revalidated, Reported
<1>5. QED
  BY <1>1, <1>2, <1>3, <1>4 DEF IInv

(* resolveMaterialLibraryRoughness.                                        *)
LEMMA ResolveRoughnessKeeps ==
  ASSUME IInv, ResolveRoughness
  PROVE  IInv'
<1>1. pc = "resolve" /\ request' = request /\ index' = index
  BY DEF ResolveRoughness
<1>2. /\ network \in Network /\ request \in Requests /\ index \in Nat \ {0}
      /\ network.ends = request.ends /\ network.enabled = request.enabled
  BY DEF IInv, TypeInv
<1>3. /\ index = 1 /\ network.nodes = request.nodes /\ network.pipes = request.pipes
      /\ network.demands = request.demands /\ network.points = request.points
      /\ network.selections = request.selections /\ network.roughness = request.roughness
  BY <1>1 DEF IInv, Untouched
<1>4. EnabledPipes = request.pipes \intersect request.enabled
  BY <1>2, <1>3 DEF EnabledPipes
<1>5. CASE /\ \E x \in EnabledPipes : network.roughness[x] = "Unknown"
           /\ Fail("material")
           /\ UNCHANGED network
  <2>1. PipeFails
    BY <1>3, <1>4, <1>5 DEF PipeFails
  <2>2. QED
    BY <1>1, <1>5, <2>1, FailStep DEF Fail
<1>6. CASE /\ \A x \in EnabledPipes : network.roughness[x] # "Unknown"
           /\ pc' = "validate"
           /\ network' = [network EXCEPT !.roughness = [x \in DOMAIN @ |->
                 IF x \in EnabledPipes /\ @[x] = "Library" THEN "Resolved" ELSE @[x]]]
           /\ UNCHANGED failures
  <2> DEFINE R == {"Direct", "Library", "Unknown", "Resolved"}
             found == [x \in Pipes |-> IF x \in EnabledPipes /\ network.roughness[x] = "Library"
                                       THEN "Resolved" ELSE network.roughness[x]]
  <2>1. network.roughness \in [Pipes -> R] /\ request.roughness \in [Pipes -> {"Direct", "Library", "Unknown"}]
        /\ request.pipes \in SUBSET Pipes
    BY <1>2, NetworkFields, RequestIs
  <2>2. network' = [network EXCEPT !.roughness = found]
    BY <1>6, <2>1
  <2>3. found \in [Pipes -> R]
    BY <2>1
  <2>4. \A x \in request.pipes \intersect request.enabled : found[x] \in {"Direct", "Resolved"}
    <3> SUFFICES ASSUME NEW x \in request.pipes \intersect request.enabled
                 PROVE  found[x] \in {"Direct", "Resolved"}
      OBVIOUS
    <3>1. x \in Pipes /\ x \in EnabledPipes /\ network.roughness[x] # "Unknown"
          /\ network.roughness[x] \in {"Direct", "Library", "Unknown"}
      BY <1>3, <1>4, <1>6, <2>1
    <3>2. QED
      BY <3>1
  <2> HIDE DEF found
  <2>5. /\ network' \in Network
        /\ network'.nodes = network.nodes /\ network'.pipes = network.pipes
        /\ network'.enabled = network.enabled /\ network'.ends = network.ends
        /\ network'.demands = network.demands /\ network'.points = network.points
        /\ network'.selections = network.selections /\ network'.roughness = found
    BY <1>2, <2>2, <2>3 DEF Network
  <2>6. TypeInv'
    BY <1>1, <1>2, <1>6, <2>5 DEF TypeInv
  <2>7. Untouched'
    BY <1>1, <1>3, <1>6, <2>5 DEF Untouched
  <2>8. Resolved'
    BY <1>1, <1>6, <2>4, <2>5 DEF Resolved
  <2>9. Validated' /\ Enabled' /\ Revalidated' /\ Reported' /\ OnlyEnabledPartsFail'
    BY <1>6 DEF Validated, Enabled, Revalidated, Reported, OnlyEnabledPartsFail
  <2>10. Projecting' /\ Compacting'
    BY <1>6 DEF Projecting, Compacting
  <2>11. QED
    BY <2>6, <2>7, <2>8, <2>9, <2>10 DEF IInv
<1>7. QED
  BY <1>5, <1>6 DEF ResolveRoughness

(* validateEpanetNetwork of the request.                                   *)
LEMMA ValidateKeeps ==
  ASSUME IInv, Validate
  PROVE  IInv'
<1>1. pc = "validate" /\ request' = request /\ index' = index /\ network' = network
  BY DEF Validate
<1>2. /\ network \in Network /\ request \in Requests
      /\ network.ends = request.ends /\ network.enabled = request.enabled
  BY DEF IInv, TypeInv
<1>3. /\ network.nodes = request.nodes /\ network.pipes = request.pipes
      /\ network.demands = request.demands
  BY <1>1 DEF IInv, Untouched
<1>4. NetworkIsValid(network) <=> NetworkIsValid(request)
  BY <1>2, <1>3 DEF NetworkIsValid
<1>5. CASE NetworkIsValid(network) /\ pc' = "enable"
  <2>1. TypeInv' /\ Untouched' /\ Resolved'
    BY <1>1, <1>5 DEF IInv, TypeInv, Untouched, Resolved
  <2>2. Validated'
    <3>1. NetworkIsValid(request)'
      BY <1>1, <1>4, <1>5 DEF NetworkIsValid
    <3>2. QED
      BY <3>1 DEF Validated
  <2>3. Enabled' /\ Revalidated' /\ Reported' /\ OnlyEnabledPartsFail'
    BY <1>5 DEF Enabled, Revalidated, Reported, OnlyEnabledPartsFail
  <2>4. Projecting' /\ Compacting'
    BY <1>5 DEF Projecting, Compacting
  <2>5. QED
    BY <2>1, <2>2, <2>3, <2>4 DEF IInv
<1>6. CASE ~NetworkIsValid(network) /\ Fail("network")
  <2>1. ~NetworkIsValid(request)
    BY <1>4, <1>6
  <2>2. PipeFails \/ DemandFails
    BY <2>1 DEF NetworkIsValid, PipeFails, DemandFails, EnabledJunctions
  <2>3. QED
    BY <1>1, <1>6, <2>2, FailStep DEF Fail
<1>7. QED
  BY <1>5, <1>6 DEF Validate

(* Before the first point a junction has its own demands.                  *)
LEMMA NothingProjected ==
  ASSUME NEW own \in Seq(Demand), NEW points \in Seq(Point), NEW j
  PROVE  Projected(own, own, points, j, 0)
<1>1. Len(own) \in Nat
  OBVIOUS
<1>2. ASSUME NEW g \in [Point -> Int]
      PROVE  Total(UpTo(Values(points, g), 0)) = 0
  <2>1. Values(points, g) \in Seq(Int)
    BY ValuesOfList
  <2>2. QED
    BY <2>1, TotalUpTo
<1>3. ASSUME NEW key
      PROVE  Whole * SumOf(own, key) = Whole * SumOf(own, key) + Total(UpTo(Values(points, Gives(j, key)), 0))
  <2>1. Total(UpTo(Values(points, Gives(j, key)), 0)) = 0
    BY <1>2, WorthsAre
  <2>2. SumOf(own, key) \in Int /\ Whole \in Int
    BY MeasuresOfList, WholeAssumption
  <2>3. Whole * SumOf(own, key) \in Int
    BY <2>2
  <2>4. QED
    BY <2>1, <2>3
<1>4. ASSUME NEW key
      PROVE  Weight(own, Len(own), Len(own), key) <= Total(UpTo(Values(points, Sized(key)), 0))
  <2>1. Total(UpTo(Values(points, Sized(key)), 0)) = 0
    BY <1>2, WorthsAre
  <2>2. Given(own, Len(own), Len(own)) = <<>>
    BY <1>1 DEF Given
  <2>3. Magnitudes(<<>>) = <<>>
    <3>1. <<>> \in Seq(Demand) /\ Len(<<>>) = 0
      BY EmptySeq
    <3>2. Magnitudes(<<>>) \in Seq(Demand) /\ Len(Magnitudes(<<>>)) = 0
      BY <3>1, MagnitudesOfList
    <3>3. QED
      BY <3>2
  <2>4. Weight(own, Len(own), Len(own), key) = 0
    BY <2>2, <2>3, SumOfNothing DEF Weight
  <2>5. QED
    BY <2>1, <2>4
<1>5. \A i \in Len(own) + 1 .. Len(own) : FALSE
  BY <1>1
<1>6. QED
  BY <1>1, <1>3, <1>4, <1>5 DEF Projected

(* enabledEntities.                                                        *)
LEMMA KeepWhatIsEnabledKeeps ==
  ASSUME IInv, KeepWhatIsEnabled
  PROVE  IInv'
<1>1. pc = "enable" /\ pc' = "project" /\ request' = request /\ index' = index /\ network' = KeepEnabled(network)
  BY DEF KeepWhatIsEnabled
<1>2. /\ network \in Network /\ request \in Requests /\ index \in Nat \ {0}
      /\ network.ends = request.ends /\ network.enabled = request.enabled
  BY DEF IInv, TypeInv
<1>3. /\ index = 1 /\ network.nodes = request.nodes /\ network.pipes = request.pipes
      /\ network.demands = request.demands /\ network.points = request.points
      /\ network.selections = request.selections
  BY <1>1 DEF IInv, Untouched
<1> DEFINE points == EnabledPoints(request.points)
<1>4. request.points \in Seq(Point) /\ request.demands \in [Junctions -> Seq(Demand)]
  BY <1>2, RequestIs
<1>5. points \in Seq(Point)
  BY <1>4, EnabledPointsAre
<1>6. network' = [network EXCEPT !.nodes = request.nodes \intersect request.enabled,
                                 !.pipes = request.pipes \intersect request.enabled, !.points = points]
  BY <1>1, <1>2, <1>3 DEF KeepEnabled
<1> HIDE DEF points
<1>7. /\ network' \in Network
      /\ network'.nodes = request.nodes \intersect request.enabled
      /\ network'.pipes = request.pipes \intersect request.enabled
      /\ network'.points = points
      /\ network'.enabled = network.enabled /\ network'.ends = network.ends
      /\ network'.demands = network.demands /\ network'.roughness = network.roughness
      /\ network'.selections = network.selections
  <2>1. request.nodes \intersect request.enabled \in SUBSET Nodes
        /\ request.pipes \intersect request.enabled \in SUBSET Pipes
    BY <1>2, <1>3, NetworkFields
  <2>2. QED
    BY <1>2, <1>5, <1>6, <2>1 DEF Network
<1>8. TypeInv'
  BY <1>1, <1>2, <1>7 DEF TypeInv
<1>9. Resolved' /\ Enabled'
  BY <1>1, <1>3, <1>7 DEF IInv, Resolved, Enabled
<1>10. Validated'
  <2>1. NetworkIsValid(request)
    BY <1>1 DEF IInv, Validated
  <2>2. NetworkIsValid(request)'
    BY <1>1, <2>1 DEF NetworkIsValid
  <2>3. QED
    BY <2>2 DEF Validated
<1>11. Untouched' /\ Compacting' /\ Revalidated' /\ Reported' /\ OnlyEnabledPartsFail'
  BY <1>1 DEF Untouched, Compacting, Revalidated, Reported, OnlyEnabledPartsFail
<1>12. Projecting'
  <2>1. network'.points = points /\ points = EnabledPoints(request'.points)
    BY <1>1, <1>7 DEF points
  <2>2. index' = 1 /\ Len(points) \in Nat
    BY <1>1, <1>3, <1>5
  <2>3. \A k \in 1 .. index' - 1 : FALSE
    BY <2>2
  <2>4. ASSUME NEW j \in EnabledJunctions'
        PROVE  Projected(request.demands[j], network.demands[j], network.points, j, index - 1)'
    <3>1. j \in Junctions
      BY <1>1 DEF EnabledJunctions
    <3>2. PICK own \in Seq(Demand) : own = request'.demands[j] /\ own = network'.demands[j]
      BY <1>1, <1>3, <1>4, <1>7, <3>1
    <3>3. PICK l \in Seq(Point) : l = network'.points
      BY <1>5, <1>7
    <3>4. Projected(own, own, l, j, 0)'
      <4>1. Projected(own, own, l, j, 0)
        BY NothingProjected
      <4>2. ASSUME NEW key
            PROVE  Gives(j, key)' = Gives(j, key)
        BY <1>1 DEF Gives, PartsFor
      <4>3. \A i \in Len(own) + 1 .. Len(own) : FALSE
        OBVIOUS
      <4>4. QED
        BY <4>1, <4>2, <4>3 DEF Projected
    <3>5. index' - 1 = 0
      BY <2>2
    <3>6. QED
      BY <3>2, <3>3, <3>4, <3>5 DEF Projected
  <2>5. ASSUME NEW key
        PROVE  (JunctionsTotal(network.demands, key)
                  = JunctionsTotal(request.demands, key)
                    + Total(UpTo(Values(network.points, Asked(key)), index - 1)))'
    <3>1. index' - 1 = 0
      BY <2>2
    <3>2. Total(UpTo(Values(points, Asked(key)), 0)) = 0
      <4>1. Values(points, Asked(key)) \in Seq(Int)
        BY <1>5, WorthsAre, ValuesOfList
      <4>2. QED
        BY <4>1, TotalUpTo
    <3>3. JunctionsTotal(request.demands, key) \in Int
      BY <1>4, JunctionSumsAre
    <3>4. JunctionsTotal(network.demands, key)' = JunctionsTotal(request.demands, key)
          /\ JunctionsTotal(request.demands, key)' = JunctionsTotal(request.demands, key)
      BY <1>1, <1>3, <1>7, SameRequest DEF JunctionsTotal
    <3>5. QED
      BY <2>1, <3>1, <3>2, <3>3, <3>4
  <2>6. QED
    BY <2>1, <2>2, <2>3, <2>4, <2>5 DEF Projecting
<1>13. QED
  BY <1>8, <1>9, <1>10, <1>11, <1>12 DEF IInv

(* Nothing changes a compacted list any more.                              *)
LEMMA SettledStays ==
  ASSUME request' = request, network'.demands = network.demands, network'.points = network.points, Compacting,
         pc \in {"revalidate", "reports", "prepared"}
  PROVE  Compacting'
<1>1. /\ network.points = <<>>
      /\ \A k \in ActivePoints : \A j \in EnabledJunctions :
            PartsFor(j, request.points[k].at) \in 0 .. Whole
      /\ \A j \in EnabledJunctions : Settled(request.demands[j], network.demands[j], j)
      /\ \A key : JunctionsTotal(network.demands, key)
                    = JunctionsTotal(request.demands, key) + Total(Values(request.points, Asked(key)))
  BY DEF Compacting
<1>2. EnabledJunctions' = EnabledJunctions /\ ActivePoints' = ActivePoints
  BY SameRequest
<1>3. \A k \in ActivePoints' : \A j \in EnabledJunctions' : (PartsFor(j, request.points[k].at) \in 0 .. Whole)'
  <2> SUFFICES ASSUME NEW k \in ActivePoints', NEW j \in EnabledJunctions'
               PROVE  (PartsFor(j, request.points[k].at) \in 0 .. Whole)'
    OBVIOUS
  <2>1. PartsFor(j, request.points[k].at) \in 0 .. Whole
    BY <1>1, <1>2
  <2>2. PartsFor(j, request.points[k].at)' = PartsFor(j, request.points[k].at)
    BY DEF PartsFor
  <2>3. QED
    BY <2>1, <2>2
<1>4. ASSUME NEW j \in EnabledJunctions'
      PROVE  Settled(request.demands[j], network.demands[j], j)'
  <2>1. Settled(request.demands[j], network.demands[j], j)
    BY <1>1, <1>2, <1>4
  <2>2. ASSUME NEW key
        PROVE  Gives(j, key)' = Gives(j, key)
    BY DEF Gives, PartsFor
  <2>3. QED
    BY <1>2, <2>1, <2>2 DEF Settled, Requested
<1>5. ASSUME NEW key
      PROVE  (JunctionsTotal(network.demands, key)
                = JunctionsTotal(request.demands, key) + Total(Values(request.points, Asked(key))))'
  <2>1. JunctionsTotal(network.demands, key)' = JunctionsTotal(network.demands, key)
        /\ JunctionsTotal(request.demands, key)' = JunctionsTotal(request.demands, key)
    BY <1>2 DEF JunctionsTotal
  <2>2. QED
    BY <1>1, <2>1
<1>6. QED
  BY <1>1, <1>3, <1>4, <1>5 DEF Compacting

(* validateEpanetNetwork of the projected network.                         *)
LEMMA RevalidateKeeps ==
  ASSUME IInv, Revalidate
  PROVE  IInv'
<1>1. pc = "revalidate" /\ request' = request /\ index' = index /\ network' = network
  BY DEF Revalidate
<1>2. /\ network \in Network /\ request \in Requests
      /\ network.ends = request.ends /\ network.enabled = request.enabled
  BY DEF IInv, TypeInv
<1>3. /\ network.nodes = request.nodes \intersect request.enabled
      /\ network.pipes = request.pipes \intersect request.enabled
  BY <1>1 DEF IInv, Enabled
<1>4. NetworkIsValid(request)
  BY <1>1 DEF IInv, Validated
<1>5. CASE NetworkIsValid(network) /\ pc' = "reports"
  <2>1. TypeInv' /\ Resolved' /\ Enabled'
    BY <1>1, <1>5 DEF IInv, TypeInv, Resolved, Enabled
  <2>2. Validated' /\ Revalidated'
    <3>1. NetworkIsValid(request)' /\ NetworkIsValid(network)'
      BY <1>1, <1>4, <1>5 DEF NetworkIsValid
    <3>2. QED
      BY <3>1 DEF Validated, Revalidated
  <2>3. Untouched' /\ Projecting' /\ Reported' /\ OnlyEnabledPartsFail'
    BY <1>5 DEF Untouched, Projecting, Reported, OnlyEnabledPartsFail
  <2>4. Compacting'
    BY <1>1, SettledStays DEF IInv
  <2>5. QED
    BY <2>1, <2>2, <2>3, <2>4 DEF IInv
<1>6. CASE ~NetworkIsValid(network) /\ Fail("projected network")
  <2>1. \A x \in network.pipes \intersect network.enabled :
           {network.ends[x].from, network.ends[x].to} \subseteq network.nodes \intersect network.enabled
    BY <1>2, <1>3, <1>4 DEF NetworkIsValid
  <2>2. PICK j \in network.nodes \intersect network.enabled \intersect Junctions :
           \E i \in DOMAIN network.demands[j] : ~DemandIsValid(network.demands[j][i])
    BY <1>6, <2>1 DEF NetworkIsValid
  <2>3. j \in EnabledJunctions
    BY <1>3, <2>2 DEF EnabledJunctions
  <2> DEFINE own == request.demands[j]
             list == network.demands[j]
  <2>4. own \in Seq(Demand) /\ list \in Seq(Demand)
    BY <1>2, <2>2, RequestIs, NetworkFields
  <2>5. PICK i \in 1 .. Len(list) : ~DemandIsValid(list[i])
    BY <2>2, <2>4
  <2>6. /\ Len(own) <= Len(list)
        /\ \A k \in 1 .. Len(own) : list[k] = own[k]
        /\ \A k \in Len(own) + 1 .. Len(list) : Requested(list[k])
    BY <1>1, <2>3 DEF IInv, Compacting, Settled
  <2>7. \A k \in 1 .. Len(own) : DemandIsValid(own[k])
    BY <1>4, <2>3, <2>4 DEF NetworkIsValid, EnabledJunctions
  <2> HIDE DEF own, list
  <2>8. i \in Len(own) + 1 .. Len(list)
    <3>1. i \notin 1 .. Len(own)
      BY <2>5, <2>6, <2>7
    <3>2. QED
      BY <2>4, <3>1
  <2>9. PICK k \in ActivePoints : ComesFrom(list[i], request.points[k].demands)
    BY <2>6, <2>8 DEF Requested
  <2>10. request.points[k] \in Point
    BY <1>2, ActivePointIs, RequestSplits
  <2> DEFINE ds == request.points[k].demands
  <2>11. ds \in Seq(Demand)
    BY <2>10 DEF Point
  <2>12. PICK m \in 1 .. Len(ds) : list[i].mode = ds[m].mode /\ list[i].pattern = ds[m].pattern
    BY <2>9 DEF ComesFrom
  <2>13. Finite(list[i].amount)
    BY <2>9 DEF ComesFrom
  <2>14. ~DemandIsValid(ds[m]) /\ m \in DOMAIN ds
    BY <2>5, <2>11, <2>12, <2>13 DEF DemandIsValid
  <2>15. PointFails
    BY <2>14 DEF PointFails
  <2>16. QED
    BY <1>1, <1>6, <2>15, FailStep DEF Fail
<1>7. QED
  BY <1>5, <1>6 DEF Revalidate

(* removeDisabledReportSelections, for one selection.                      *)
LEMMA TrimmedIs ==
  ASSUME NEW selection \in Selection, NEW all, NEW on
  PROVE  LET t == Trimmed(selection, all, all \intersect on)
         IN  /\ t \in Selection
             /\ t.mode = "Selected" => t.of # {} /\ t.of \intersect (all \ on) = {}
<1> DEFINE of == (selection.of \ all) \union (selection.of \intersect (all \intersect on))
           t == Trimmed(selection, all, all \intersect on)
<1>1. selection.mode \in {"None", "All", "Selected"} /\ selection.of \in SUBSET Uuids
  BY DEF Selection
<1>2. CASE selection.mode # "Selected"
  <2>1. t = selection
    BY <1>2 DEF Trimmed
  <2>2. QED
    BY <1>2, <2>1
<1>3. CASE selection.mode = "Selected"
  <2>1. t = [mode |-> IF of = {} THEN "None" ELSE "Selected", of |-> of]
    BY <1>3 DEF Trimmed
  <2>2. of \in SUBSET Uuids /\ of \intersect (all \ on) = {}
    BY <1>1
  <2> HIDE DEF of, t
  <2>3. t.of = of /\ t.mode = (IF of = {} THEN "None" ELSE "Selected") /\ t \in Selection
    BY <2>1, <2>2 DEF Selection
  <2>4. t.mode = "Selected" => of # {}
    BY <2>3
  <2>5. QED
    BY <2>2, <2>3, <2>4 DEF t
<1>4. QED
  BY <1>2, <1>3

(* Both selections, with the lists they are about.                         *)
LEMMA BothSelections ==
  ASSUME NEW S, NEW b \in [nodes : S, links : S], NEW x \in S, NEW y \in S
  PROVE  [b EXCEPT !.nodes = x, !.links = y] = [nodes |-> x, links |-> y]
<1> DEFINE c == [b EXCEPT !.nodes = x, !.links = y]
           d == [nodes |-> x, links |-> y]
<1>1. c \in [nodes : S, links : S] /\ d \in [nodes : S, links : S]
  OBVIOUS
<1>2. c.nodes = x /\ c.links = y
  OBVIOUS
<1>3. d.nodes = x /\ d.links = y
  OBVIOUS
<1> HIDE DEF c, d
<1>4. c = d
  BY <1>1, <1>2, <1>3
<1>5. QED
  BY <1>4 DEF c, d

(* removeDisabledReportSelections.                                         *)
LEMMA TrimSelectionsKeeps ==
  ASSUME IInv, TrimSelections
  PROVE  IInv'
<1>1. pc = "reports" /\ pc' = "prepared" /\ request' = request /\ index' = index
  BY DEF TrimSelections
<1>2. /\ network \in Network /\ request \in Requests /\ index \in Nat \ {0}
      /\ network.ends = request.ends /\ network.enabled = request.enabled
  BY DEF IInv, TypeInv
<1>3. /\ network.nodes = request.nodes \intersect request.enabled
      /\ network.pipes = request.pipes \intersect request.enabled
  BY <1>1 DEF IInv, Enabled
<1> DEFINE before == network.selections
           nodes == Trimmed(before.nodes, request.nodes, network.nodes)
           links == Trimmed(before.links, request.pipes, network.pipes)
           after == [nodes |-> nodes, links |-> links]
<1>4. before \in [nodes : Selection, links : Selection]
  BY <1>2, NetworkFields
<1>5. before.nodes \in Selection /\ before.links \in Selection
  BY <1>4
<1> HIDE DEF before
<1>6. /\ nodes \in Selection
      /\ nodes.mode = "Selected" => nodes.of # {} /\ nodes.of \intersect (request.nodes \ request.enabled) = {}
  <2>1. PICK s, all, on : s \in Selection /\ s = before.nodes /\ all = request.nodes /\ on = request.enabled
    BY <1>5
  <2> DEFINE t == Trimmed(s, all, all \intersect on)
  <2>2. t \in Selection /\ (t.mode = "Selected" => t.of # {} /\ t.of \intersect (all \ on) = {})
    <3>1. t \in Selection
      BY <2>1, TrimmedIs
    <3>2. s \in Selection
      BY <2>1
    <3>3. t.mode = "Selected" => t.of # {} /\ t.of \intersect (all \ on) = {}
      BY <3>2, TrimmedIs
    <3>4. QED
      BY <3>1, <3>3
  <2>3. t = nodes
    BY <1>3, <2>1
  <2> HIDE DEF t, nodes
  <2>4. QED
    BY <2>1, <2>2, <2>3
<1>7. /\ links \in Selection
      /\ links.mode = "Selected" => links.of # {} /\ links.of \intersect (request.pipes \ request.enabled) = {}
  <2>1. PICK s, all, on : s \in Selection /\ s = before.links /\ all = request.pipes /\ on = request.enabled
    BY <1>5
  <2> DEFINE t == Trimmed(s, all, all \intersect on)
  <2>2. t \in Selection /\ (t.mode = "Selected" => t.of # {} /\ t.of \intersect (all \ on) = {})
    <3>1. t \in Selection
      BY <2>1, TrimmedIs
    <3>2. s \in Selection
      BY <2>1
    <3>3. t.mode = "Selected" => t.of # {} /\ t.of \intersect (all \ on) = {}
      BY <3>2, TrimmedIs
    <3>4. QED
      BY <3>1, <3>3
  <2>3. t = links
    BY <1>3, <2>1
  <2> HIDE DEF t, links
  <2>4. QED
    BY <2>1, <2>2, <2>3
<1>8. network' = [network EXCEPT !.selections.nodes = nodes, !.selections.links = links]
  BY DEF TrimSelections, before
<1> HIDE DEF nodes, links
<1>9. network' = [network EXCEPT !.selections = after]
  <2>1. [before EXCEPT !.nodes = nodes, !.links = links] = after
    BY <1>4, <1>6, <1>7, BothSelections
  <2>2. network' = [network EXCEPT !.selections = [before EXCEPT !.nodes = nodes, !.links = links]]
    BY <1>2, <1>8 DEF before, Network
  <2>3. QED
    BY <2>1, <2>2
<1>10. after \in [nodes : Selection, links : Selection] /\ after.nodes = nodes /\ after.links = links
  BY <1>6, <1>7
<1> HIDE DEF after
<1>11. /\ network' \in Network
       /\ network'.nodes = network.nodes /\ network'.pipes = network.pipes
       /\ network'.enabled = network.enabled /\ network'.ends = network.ends
       /\ network'.demands = network.demands /\ network'.points = network.points
       /\ network'.selections = after /\ network'.roughness = network.roughness
  BY <1>2, <1>9, <1>10 DEF Network
<1>12. TypeInv' /\ Resolved' /\ Enabled'
  BY <1>1, <1>2, <1>11 DEF IInv, TypeInv, Resolved, Enabled
<1>13. Validated' /\ Revalidated'
  <2>1. NetworkIsValid(request) /\ NetworkIsValid(network)
    BY <1>1 DEF IInv, Validated, Revalidated
  <2>2. NetworkIsValid(request)' /\ NetworkIsValid(network)'
    BY <1>1, <1>11, <2>1 DEF NetworkIsValid
  <2>3. QED
    BY <2>2 DEF Validated, Revalidated
<1>14. Untouched' /\ Projecting' /\ OnlyEnabledPartsFail'
  BY <1>1 DEF Untouched, Projecting, OnlyEnabledPartsFail
<1>15. Compacting'
  BY <1>1, <1>11, SettledStays DEF IInv
<1>16. Reported'
  BY <1>1, <1>6, <1>7, <1>10, <1>11 DEF Reported, NothingDisabled
<1>17. QED
  BY <1>12, <1>13, <1>14, <1>15, <1>16 DEF IInv

(* A point that is not valid has its cause in the request.                 *)
LEMMA PointCause ==
  ASSUME request \in Requests, network.ends = request.ends,
         network.pipes = request.pipes \intersect request.enabled, JunctionsHere = EnabledJunctions,
         NEW k \in ActivePoints, ~PointIsValid(request.points[k])
  PROVE  PointFails
<1> DEFINE point == request.points[k]
           at == point.at
           ds == point.demands
           ends == {request.ends[at.pipe].from, request.ends[at.pipe].to}
<1>1. point \in Point
  BY ActivePointIs, RequestSplits
<1>2. at \in Attachment
  BY <1>1 DEF Point
<1>3. ds \in Seq(Demand)
  BY <1>1 DEF Point
<1>4. at.type \in {"None", "Junction", "Pipe"}
  BY <1>2 DEF Attachment
<1>5. SUFFICES ASSUME \A i \in DOMAIN ds : DemandIsValid(ds[i]), at.type # "None",
                      at.type = "Junction" => at.junction \in EnabledJunctions,
                      at.type = "Pipe" => /\ at.pipe \in request.pipes \intersect request.enabled
                                          /\ at.position \in 0 .. Whole
                                          /\ IF at.mode = "AssignedJunction"
                                             THEN at.assigned \in ends \intersect EnabledJunctions
                                             ELSE ends \subseteq EnabledJunctions
               PROVE  FALSE
  BY DEF PointFails
<1>6. \A i \in DOMAIN ds : Finite(ds[i].amount)
  BY <1>5 DEF DemandIsValid
<1>7. AttachmentIsValid(at)
  BY <1>4, <1>5 DEF AttachmentIsValid
<1>8. CASE at.type = "Junction"
  <2>1. Shares(at) = <<[to |-> at.junction, parts |-> Whole]>>
    BY <1>8 DEF Shares
  <2>2. \A i \in DOMAIN Shares(at) : Shares(at)[i].to \in JunctionsHere
    BY <1>5, <1>8, <2>1
  <2>3. QED
    BY <1>6, <1>7, <2>2 DEF PointIsValid, ShareIsValid
<1>9. CASE at.type = "Pipe" /\ at.mode = "AssignedJunction"
  <2>1. Shares(at) = <<[to |-> at.assigned, parts |-> Whole]>>
    BY <1>9 DEF Shares
  <2>2. \A i \in DOMAIN Shares(at) : Shares(at)[i].to \in JunctionsHere
    BY <1>5, <1>9, <2>1
  <2>3. QED
    BY <1>6, <1>7, <2>2 DEF PointIsValid, ShareIsValid
<1>10. CASE at.type = "Pipe" /\ at.mode # "AssignedJunction"
  <2>1. Shares(at) = <<[to |-> network.ends[at.pipe].from, parts |-> Whole - at.position],
                       [to |-> network.ends[at.pipe].to, parts |-> at.position]>>
    BY <1>10 DEF Shares
  <2>2. \A i \in DOMAIN Shares(at) : Shares(at)[i].to \in JunctionsHere
    BY <1>5, <1>10, <2>1
  <2>3. QED
    BY <1>6, <1>7, <2>2 DEF PointIsValid, ShareIsValid
<1>11. QED
  BY <1>4, <1>5, <1>8, <1>9, <1>10

(* A formula about the request and constants is about the next request.    *)
LEMMA ProjectedAgain ==
  ASSUME request' = request, NEW own, NEW list, NEW points, NEW j, NEW n
  PROVE  Projected(own, list, points, j, n)' <=> Projected(own, list, points, j, n)
<1>1. ASSUME NEW key
      PROVE  Gives(j, key)' = Gives(j, key)
  BY DEF Gives, PartsFor
<1>2. ASSUME NEW d
      PROVE  Requested(d)' <=> Requested(d)
  BY SameRequest DEF Requested
<1>3. QED
  BY <1>1, <1>2 DEF Projected

(* What the steps of ProjectPoint have in common.                          *)
LEMMA ProjectingIs ==
  ASSUME IInv, pc = "project", index \in DOMAIN network.points
  PROVE  /\ network \in Network /\ request \in Requests /\ index \in 1 .. Len(network.points)
         /\ network.ends = request.ends /\ network.enabled = request.enabled
         /\ network.pipes \in SUBSET Pipes /\ network.points \in Seq(Point)
         /\ network.points[index] \in Point
         /\ JunctionsHere = EnabledJunctions
         /\ network.pipes = request.pipes \intersect request.enabled
         /\ \E k \in 1 .. Len(request.points) : request.points[k] = network.points[index]
         /\ network.points = EnabledPoints(request.points)
<1>1. /\ network \in Network /\ request \in Requests
      /\ network.ends = request.ends /\ network.enabled = request.enabled
  BY DEF IInv, TypeInv
<1>2. network.pipes \in SUBSET Pipes /\ network.points \in Seq(Point)
  BY <1>1, NetworkFields
<1>3. index \in 1 .. Len(network.points)
  BY <1>2
<1>4. network.points[index] \in Point
  BY <1>2, <1>3
<1>5. JunctionsHere = EnabledJunctions /\ network.pipes = request.pipes \intersect request.enabled
  BY DEF IInv, Enabled, JunctionsHere, EnabledJunctions
<1>6. network.points = EnabledPoints(request.points)
  BY DEF IInv, Projecting
<1>7. request.points \in Seq(Point)
  BY <1>1, RequestIs
<1>8. PICK s : s = request.points
  OBVIOUS
<1>9. s \in Seq(Point) /\ network.points = EnabledPoints(s)
  BY <1>6, <1>7, <1>8
<1>10. \A i \in 1 .. Len(EnabledPoints(s)) : \E k \in 1 .. Len(s) : EnabledPoints(s)[i] = s[k]
  BY <1>9, EnabledPointsAre
<1>11. PICK k \in 1 .. Len(s) : EnabledPoints(s)[index] = s[k]
  BY <1>3, <1>9, <1>10
<1>12. \E m \in 1 .. Len(request.points) : request.points[m] = network.points[index]
  BY <1>8, <1>9, <1>11
<1>13. QED
  BY <1>1, <1>2, <1>3, <1>4, <1>5, <1>6, <1>12

(* What Projecting says of the step, in constants of it.                   *)
LEMMA ProjectingStep ==
  ASSUME IInv, pc = "project", index \in DOMAIN network.points,
         request' = request, pc' = pc, index' = index + 1,
         network' \in Network, network'.ends = network.ends, network'.enabled = network.enabled,
         network'.nodes = network.nodes, network'.pipes = network.pipes,
         network'.roughness = network.roughness, network'.selections = network.selections,
         network'.points = network.points,
         IsActive(network.points[index]) =>
             \A j \in EnabledJunctions : PartsFor(j, network.points[index].at) \in 0 .. Whole,
         \A j \in EnabledJunctions :
             Projected(request.demands[j], network'.demands[j], network.points, j, index),
         \A key : JunctionsTotal(network'.demands, key)
                    = JunctionsTotal(request.demands, key)
                      + Total(UpTo(Values(network.points, Asked(key)), index))
  PROVE  IInv'
<1>1. /\ network \in Network /\ request \in Requests /\ index \in 1 .. Len(network.points)
      /\ network.points = EnabledPoints(request.points) /\ network.points \in Seq(Point)
  BY ProjectingIs
<1>2. index \in Nat \ {0} /\ Len(network.points) \in Nat /\ index' - 1 = index /\ index' \in Nat \ {0}
  <2>1. Len(network.points) \in Nat
    BY <1>1
  <2>2. index \in Nat \ {0}
    BY <1>1, <2>1
  <2>3. index' - 1 = index /\ index' \in Nat \ {0}
    BY <2>2
  <2>4. QED
    BY <2>1, <2>2, <2>3
<1>3. TypeInv' /\ Resolved' /\ Enabled'
  <2>1. TypeInv'
    BY <1>2 DEF IInv, TypeInv
  <2>2. Resolved' /\ Enabled'
    BY DEF IInv, Resolved, Enabled
  <2>3. QED
    BY <2>1, <2>2
<1>4. Validated'
  <2>1. NetworkIsValid(request)
    BY DEF IInv, Validated
  <2>2. NetworkIsValid(request)'
    BY <2>1 DEF NetworkIsValid
  <2>3. QED
    BY <2>2 DEF Validated
<1>5. Untouched' /\ Compacting' /\ Revalidated' /\ Reported' /\ OnlyEnabledPartsFail'
  BY DEF Untouched, Compacting, Revalidated, Reported, OnlyEnabledPartsFail
<1>6. Projecting'
  <2>1. network'.points = EnabledPoints(request'.points) /\ index' <= Len(network'.points) + 1
    BY <1>1, <1>2
  <2>2. ASSUME NEW m \in 1 .. index' - 1, IsActive(network'.points[m]), NEW j \in EnabledJunctions'
        PROVE  (PartsFor(j, network.points[m].at) \in 0 .. Whole)'
    <3>1. PartsFor(j, network.points[m].at)' = PartsFor(j, network.points[m].at)
      BY DEF PartsFor
    <3>2. m \in 1 .. index /\ j \in EnabledJunctions /\ IsActive(network.points[m])
      BY <1>2, <2>2, SameRequest
    <3>3. CASE m = index
      BY <3>1, <3>2, <3>3
    <3>4. CASE m # index
      <4>1. m \in 1 .. index - 1
        BY <1>2, <3>2, <3>4
      <4>2. PartsFor(j, network.points[m].at) \in 0 .. Whole
        BY <3>2, <4>1 DEF IInv, Projecting
      <4>3. QED
        BY <3>1, <4>2
    <3>5. QED
      BY <3>3, <3>4
  <2>3. ASSUME NEW j \in EnabledJunctions'
        PROVE  Projected(request.demands[j], network.demands[j], network.points, j, index - 1)'
    <3>1. j \in EnabledJunctions
      BY <2>3, SameRequest
    <3>2. PICK own, list, points, n : own = request.demands[j] /\ list = network'.demands[j]
                                      /\ points = network.points /\ n = index
      OBVIOUS
    <3>3. Projected(own, list, points, j, n)
      BY <3>1, <3>2
    <3>4. Projected(own, list, points, j, n)'
      BY <3>3, ProjectedAgain
    <3>5. QED
      BY <1>2, <3>2, <3>4 DEF Projected
  <2>4. ASSUME NEW key
        PROVE  (JunctionsTotal(network.demands, key)
                  = JunctionsTotal(request.demands, key)
                    + Total(UpTo(Values(network.points, Asked(key)), index - 1)))'
    <3>1. JunctionsTotal(network.demands, key)' = JunctionsTotal(network'.demands, key)
          /\ JunctionsTotal(request.demands, key)' = JunctionsTotal(request.demands, key)
      BY SameRequest DEF JunctionsTotal
    <3>2. QED
      BY <1>2, <3>1
  <2>5. QED
    BY <2>1, <2>2, <2>3, <2>4 DEF Projecting
<1>7. QED
  BY <1>3, <1>4, <1>5, <1>6 DEF IInv

(* Nothing changes but the turn.                                           *)
LEMMA IdlePointKeeps ==
  ASSUME IInv, pc = "project", index \in DOMAIN network.points, ~IsActive(network.points[index]),
         request' = request, pc' = pc, index' = index + 1, network' = network
  PROVE  IInv'
<1>1. /\ network \in Network /\ request \in Requests /\ index \in 1 .. Len(network.points)
      /\ network.points \in Seq(Point)
  BY ProjectingIs
<1>2. ASSUME NEW j \in EnabledJunctions
      PROVE  Projected(request.demands[j], network'.demands[j], network.points, j, index)
  <2>1. Projected(request.demands[j], network.demands[j], network.points, j, index - 1)
    BY DEF IInv, Projecting
  <2>2. QED
    BY <1>1, <2>1, ProjectedStays
<1>3. ASSUME NEW key
      PROVE  JunctionsTotal(network'.demands, key)
               = JunctionsTotal(request.demands, key) + Total(UpTo(Values(network.points, Asked(key)), index))
  <2>1. JunctionsTotal(network.demands, key)
          = JunctionsTotal(request.demands, key) + Total(UpTo(Values(network.points, Asked(key)), index - 1))
    BY DEF IInv, Projecting
  <2>2. PICK points \in Seq(Point), n \in Int : n \in 1 .. Len(points) /\ points = network.points /\ n = index
    BY <1>1
  <2>3. Asked(key) \in [Point -> Int]
    BY WorthsAre
  <2> DEFINE before == Total(UpTo(Values(points, Asked(key)), n - 1))
             after == Total(UpTo(Values(points, Asked(key)), n))
  <2>4. after = before + Worth(points[n], Asked(key))
    BY <2>2, <2>3, WorthUpTo
  <2>5. Worth(points[n], Asked(key)) = 0
    BY <2>2 DEF Worth
  <2>6. n - 1 \in Int
    BY <1>1, <2>2
  <2>7. before \in Int
    BY <2>3, <2>6, SumsUpTo
  <2>8. before = after
    <3> HIDE DEF before, after
    <3>1. QED
      BY <2>4, <2>5, <2>7
  <2>9. QED
    BY <2>1, <2>2, <2>8
<1>4. QED
  BY <1>1, <1>2, <1>3, ProjectingStep

(* The demands of a valid point go to the junctions.                       *)
LEMMA ActivePointKeeps ==
  ASSUME IInv, pc = "project", index \in DOMAIN network.points, IsActive(network.points[index]),
         PointIsValid(network.points[index]),
         request' = request, pc' = pc, index' = index + 1,
         network' = [network EXCEPT !.demands =
                       [j \in Junctions |-> @[j] \o Received(j, network.points[index])]]
  PROVE  IInv'
<1> DEFINE old == network.demands
           P == network.points
           point == P[index]
           new == [j \in Junctions |-> old[j] \o Received(j, point)]
<1>1. /\ network \in Network /\ request \in Requests /\ index \in 1 .. Len(P)
      /\ network.ends = request.ends /\ network.enabled = request.enabled
      /\ network.pipes \in SUBSET Pipes /\ P \in Seq(Point) /\ point \in Point
      /\ JunctionsHere = EnabledJunctions
  BY ProjectingIs
<1>2. PICK k \in 1 .. Len(request.points) : request.points[k] = point
  BY ProjectingIs
<1>3. k \in ActivePoints /\ SplitsAll(point.demands, point.at.position)
  BY <1>1, <1>2, ActivePointIs, RequestSplits
<1>4. old \in [Junctions -> Seq(Demand)] /\ request.demands \in [Junctions -> Seq(Demand)]
  BY <1>1, NetworkFields, RequestIs
<1>5. \A j \in Junctions : Received(j, point) \in Seq(Demand) /\ PartsFor(j, point.at) \in 0 .. Whole
  <2> SUFFICES ASSUME NEW j \in Junctions
               PROVE  Received(j, point) \in Seq(Demand) /\ PartsFor(j, point.at) \in 0 .. Whole
    OBVIOUS
  <2>1. PICK x \in Point : x = point
    BY <1>1
  <2>2. PointIsValid(x) /\ SplitsAll(x.demands, x.at.position)
    BY <1>3, <2>1
  <2>3. GotPart(Received(j, x), x.demands, PartsFor(j, x.at)) /\ PartsFor(j, x.at) \in 0 .. Whole
    BY <1>1, <2>2, ReceivedIs
  <2>4. QED
    BY <2>1, <2>3 DEF GotPart
<1>6. new \in [Junctions -> Seq(Demand)]
  <2>1. \A j \in Junctions : old[j] \o Received(j, point) \in Seq(Demand)
    <3> SUFFICES ASSUME NEW j \in Junctions
                 PROVE  old[j] \o Received(j, point) \in Seq(Demand)
      OBVIOUS
    <3>1. old[j] \in Seq(Demand) /\ Received(j, point) \in Seq(Demand)
      BY <1>4, <1>5
    <3>2. QED
      BY <3>1, ConcatProperties
  <2>2. QED
    BY <2>1
<1>7. network' = [network EXCEPT !.demands = new]
  OBVIOUS
<1>8. \A j \in Junctions : new[j] = old[j] \o Received(j, point)
  OBVIOUS
<1> HIDE DEF new
<1>9. /\ network' \in Network /\ network'.demands = new
      /\ network'.nodes = network.nodes /\ network'.pipes = network.pipes
      /\ network'.enabled = network.enabled /\ network'.ends = network.ends
      /\ network'.points = network.points
      /\ network'.selections = network.selections /\ network'.roughness = network.roughness
  BY <1>1, <1>6, <1>7 DEF Network
<1>10. ASSUME NEW j \in EnabledJunctions
       PROVE  /\ Projected(request.demands[j], new[j], P, j, index)
              /\ \A key : Whole * SumOf(new[j], key)
                            = Whole * SumOf(old[j], key) + PartsFor(j, point.at) * SumOf(point.demands, key)
  <2>1. j \in Junctions
    BY DEF EnabledJunctions
  <2>2. PICK own \in Seq(Demand), list \in Seq(Demand), points \in Seq(Point) :
            own = request.demands[j] /\ list = old[j] /\ points = P
    BY <1>1, <1>4, <2>1
  <2>3. PICK n \in 1 .. Len(points) : n = index
    BY <1>1, <2>2
  <2>4. Projected(own, list, points, j, n - 1)
    BY <2>2, <2>3 DEF IInv, Projecting
  <2>5. /\ request.points[k] = points[n] /\ IsActive(points[n]) /\ PointIsValid(points[n])
        /\ points[n] = point
    BY <1>2, <2>2, <2>3
  <2>6. /\ Projected(own, list \o Received(j, points[n]), points, j, n)
        /\ Grown(list \o Received(j, points[n]), list, PartsFor(j, points[n].at), points[n].demands)
    <3>1. network.pipes \subseteq Pipes /\ network.ends = request.ends /\ request \in Requests /\ k \in ActivePoints
      BY <1>1, <1>3
    <3> HIDE DEF old, P, point
    <3>2. Projected(own, list \o Received(j, points[n]), points, j, n)
      BY <2>4, <2>5, <3>1, ProjectedGrows
    <3>3. Grown(list \o Received(j, points[n]), list, PartsFor(j, points[n].at), points[n].demands)
      BY <2>4, <2>5, <3>1, ProjectedGrows
    <3>4. QED
      BY <3>2, <3>3
  <2>7. new[j] = list \o Received(j, points[n])
    BY <1>8, <2>1, <2>2, <2>5
  <2>8. Grown(new[j], old[j], PartsFor(j, point.at), point.demands)
    BY <2>2, <2>5, <2>6, <2>7
  <2>9. QED
    BY <2>2, <2>3, <2>6, <2>7, <2>8 DEF Grown
<1>11. ASSUME NEW key
       PROVE  JunctionsTotal(new, key)
                = JunctionsTotal(request.demands, key) + Total(UpTo(Values(P, Asked(key)), index))
  <2>1. JunctionsTotal(old, key)
          = JunctionsTotal(request.demands, key) + Total(UpTo(Values(P, Asked(key)), index - 1))
    BY DEF IInv, Projecting
  <2>2. PICK points \in Seq(Point), n \in Int, a \in [Junctions -> Seq(Demand)],
             b \in [Junctions -> Seq(Demand)] : n \in 1 .. Len(points) /\ points = P /\ n = index /\ a = old /\ b = new
    BY <1>1, <1>4, <1>6
  <2>3. Asked(key) \in [Point -> Int]
    BY WorthsAre
  <2>4. points[n] = point /\ points[n] \in Point
    BY <1>1, <2>2
  <2>5. JunctionsTotal(b, key) = JunctionsTotal(a, key) + SumOf(points[n].demands, key)
    <3>1. PICK x \in Point : x = points[n]
      BY <2>4
    <3>2. PointIsValid(x)
      BY <2>4, <3>1
    <3>3. \A j \in EnabledJunctions :
             /\ PartsFor(j, x.at) \in Int
             /\ Whole * SumOf(b[j], key) = Whole * SumOf(a[j], key) + PartsFor(j, x.at) * SumOf(x.demands, key)
      <4> SUFFICES ASSUME NEW j \in EnabledJunctions
                   PROVE  /\ PartsFor(j, x.at) \in Int
                          /\ Whole * SumOf(b[j], key)
                               = Whole * SumOf(a[j], key) + PartsFor(j, x.at) * SumOf(x.demands, key)
        OBVIOUS
      <4>1. PartsFor(j, x.at) \in 0 .. Whole
        BY <1>5, <2>4, <3>1 DEF EnabledJunctions
      <4>2. PartsFor(j, x.at) \in Int
        BY <4>1, WholeAssumption
      <4>3. Whole * SumOf(new[j], key)
              = Whole * SumOf(old[j], key) + PartsFor(j, point.at) * SumOf(point.demands, key)
        BY <1>10
      <4>4. QED
        BY <2>2, <2>4, <3>1, <4>2, <4>3
    <3>4. JunctionsTotal(b, key) = JunctionsTotal(a, key) + SumOf(x.demands, key)
      BY <1>1, <3>2, <3>3, JunctionsTotalGrows
    <3>5. QED
      BY <3>1, <3>4
  <2> DEFINE before == Total(UpTo(Values(points, Asked(key)), n - 1))
             after == Total(UpTo(Values(points, Asked(key)), n))
             x == SumOf(points[n].demands, key)
  <2>6. after = before + Worth(points[n], Asked(key))
    BY <2>2, <2>3, WorthUpTo
  <2>7. Worth(points[n], Asked(key)) = x
    BY <2>4 DEF Worth, Asked
  <2>8. n - 1 \in Int
    BY <1>1, <2>2
  <2>9. before \in Int
    BY <2>3, <2>8, SumsUpTo
  <2>10. JunctionsTotal(request.demands, key) \in Int /\ x \in Int
    <3>1. points[n].demands \in Seq(Demand)
      BY <2>4 DEF Point
    <3>2. JunctionsTotal(request.demands, key) \in Int
      BY <1>4, JunctionSumsAre
    <3>3. QED
      BY <3>1, <3>2, MeasuresOfList
  <2> HIDE DEF before, after, x
  <2>11. JunctionsTotal(a, key) = JunctionsTotal(request.demands, key) + before
    BY <2>1, <2>2 DEF before
  <2>12. JunctionsTotal(b, key) = JunctionsTotal(request.demands, key) + after
    <3>1. JunctionsTotal(b, key) = JunctionsTotal(a, key) + x
      BY <2>5 DEF x
    <3>2. QED
      BY <2>6, <2>7, <2>9, <2>10, <2>11, <3>1
  <2>13. QED
    BY <2>2, <2>12 DEF after
<1>12. \A j \in EnabledJunctions : PartsFor(j, point.at) \in 0 .. Whole
  BY <1>5 DEF EnabledJunctions
<1>13. QED
  BY <1>9, <1>10, <1>11, <1>12, ProjectingStep

(* One demand point of buildHydraulicNodeDemandProjection.                 *)
LEMMA ProjectPointKeeps ==
  ASSUME IInv, ProjectPoint
  PROVE  IInv'
<1> DEFINE point == network.points[index]
<1>1. pc = "project" /\ index \in DOMAIN network.points /\ request' = request
  BY DEF ProjectPoint
<1>2. /\ network \in Network /\ request \in Requests
      /\ network.ends = request.ends
      /\ JunctionsHere = EnabledJunctions
      /\ network.pipes = request.pipes \intersect request.enabled
  BY <1>1, ProjectingIs
<1>3. CASE /\ point.enabled /\ point.demands # <<>> /\ ~PointIsValid(point)
           /\ Fail("demand point")
           /\ UNCHANGED <<network, index>>
  <2>1. PICK k \in 1 .. Len(request.points) : request.points[k] = point
    BY <1>1, ProjectingIs
  <2>2. k \in ActivePoints
    BY <1>2, <1>3, <2>1, ActivePointIs DEF IsActive
  <2>3. ~PointIsValid(request.points[k])
    BY <1>3, <2>1
  <2>4. PointFails
    BY <1>2, <2>2, <2>3, PointCause
  <2>5. QED
    BY <1>1, <1>3, <2>4, FailStep DEF Fail
<1>4. CASE /\ point.enabled /\ point.demands # <<>> => PointIsValid(point)
           /\ index' = index + 1
           /\ network' = IF ~point.enabled \/ point.demands = <<>> THEN network
                         ELSE [network EXCEPT !.demands =
                                 [j \in Junctions |-> @[j] \o Received(j, point)]]
           /\ UNCHANGED <<pc, failures>>
  <2>1. CASE IsActive(point)
    <3>1. PointIsValid(point)
      BY <1>4, <2>1 DEF IsActive
    <3>2. network' = [network EXCEPT !.demands = [j \in Junctions |-> @[j] \o Received(j, point)]]
      BY <1>4, <2>1 DEF IsActive
    <3>3. QED
      BY <1>1, <1>4, <2>1, <3>1, <3>2, ActivePointKeeps
  <2>2. CASE ~IsActive(point)
    <3>1. network' = network
      BY <1>4, <2>2 DEF IsActive
    <3>2. QED
      BY <1>1, <1>4, <2>2, <3>1, IdlePointKeeps
  <2>3. QED
    BY <2>1, <2>2
<1>5. QED
  BY <1>3, <1>4 DEF ProjectPoint

(* A compacted list stays one in the next state.                           *)
LEMMA SettledAgain ==
  ASSUME request' = request, NEW own, NEW list, NEW j
  PROVE  Settled(own, list, j)' <=> Settled(own, list, j)
<1>1. ASSUME NEW key
      PROVE  Gives(j, key)' = Gives(j, key)
  BY DEF Gives, PartsFor
<1>2. ASSUME NEW d
      PROVE  Requested(d)' <=> Requested(d)
  BY SameRequest DEF Requested
<1>3. QED
  BY <1>1, <1>2 DEF Settled

(* When all points are projected, every active one has been found valid.   *)
LEMMA AllPointsProjected ==
  ASSUME IInv, pc = "project", index = Len(network.points) + 1
  PROVE  \A k \in ActivePoints : \A j \in EnabledJunctions : PartsFor(j, request.points[k].at) \in 0 .. Whole
<1> SUFFICES ASSUME NEW k \in ActivePoints, NEW j \in EnabledJunctions
             PROVE  PartsFor(j, request.points[k].at) \in 0 .. Whole
  OBVIOUS
<1>1. request \in Requests /\ network \in Network
  BY DEF IInv, TypeInv
<1>2. request.points \in Seq(Point) /\ network.points \in Seq(Point)
  BY <1>1, RequestIs, NetworkFields
<1>3. PICK s \in Seq(Point) : s = request.points
  BY <1>2
<1>4. k \in 1 .. Len(s) /\ IsActive(s[k])
  BY <1>1, <1>3, ActivePointIs
<1>5. network.points = EnabledPoints(s)
  BY <1>3 DEF IInv, Projecting
<1>6. \A m \in 1 .. Len(s) : s[m].enabled => \E i \in 1 .. Len(EnabledPoints(s)) : EnabledPoints(s)[i] = s[m]
  BY EnabledPointsAre
<1>7. PICK i \in 1 .. Len(network.points) : network.points[i] = s[k]
  BY <1>4, <1>5, <1>6 DEF IsActive
<1>8. i \in 1 .. index - 1
  <2>1. Len(network.points) \in Nat
    BY <1>2
  <2>2. QED
    BY <2>1
<1>9. PartsFor(j, network.points[i].at) \in 0 .. Whole
  BY <1>4, <1>7, <1>8 DEF IInv, Projecting
<1>10. QED
  BY <1>3, <1>7, <1>9

(* aggregateProjectedDemands.                                              *)
LEMMA AggregateKeeps ==
  ASSUME IInv, Aggregate
  PROVE  IInv'
<1> DEFINE old == network.demands
           P == network.points
           new == [j \in Junctions |->
                     IF j \in JunctionsHere THEN Compacted(old[j], Len(request.demands[j])) ELSE old[j]]
<1>1. pc = "project" /\ index = Len(P) + 1 /\ request' = request /\ index' = index
  BY DEF Aggregate
<1>2. /\ network \in Network /\ request \in Requests /\ index \in Nat \ {0}
      /\ network.ends = request.ends /\ network.enabled = request.enabled
  BY DEF IInv, TypeInv
<1>3. /\ network.nodes = request.nodes \intersect request.enabled
      /\ network.pipes = request.pipes \intersect request.enabled
      /\ network.selections = request.selections
      /\ JunctionsHere = EnabledJunctions
  BY <1>1 DEF IInv, Enabled, JunctionsHere, EnabledJunctions
<1>4. NetworkIsValid(request)
  BY <1>1 DEF IInv, Validated
<1>5. P \in Seq(Point) /\ request.points \in Seq(Point) /\ P = EnabledPoints(request.points)
      /\ old \in [Junctions -> Seq(Demand)] /\ request.demands \in [Junctions -> Seq(Demand)]
  BY <1>1, <1>2, NetworkFields, RequestIs DEF IInv, Projecting
<1>6. index - 1 = Len(P) /\ Len(P) \in Nat
  <2>1. Len(P) \in Nat
    BY <1>5
  <2>2. QED
    BY <1>1, <2>1
<1>7. \A j \in EnabledJunctions : j \in Junctions /\ new[j] = Compacted(old[j], Len(request.demands[j]))
  BY <1>3 DEF EnabledJunctions
<1>8. ASSUME NEW j \in EnabledJunctions
      PROVE  /\ new[j] \in Seq(Demand) /\ Len(request.demands[j]) <= Len(new[j])
             /\ \A i \in 1 .. Len(request.demands[j]) : new[j][i] = request.demands[j][i]
             /\ \/ /\ Settled(request.demands[j], new[j], j)
                   /\ \A key : SumOf(new[j], key) = SumOf(old[j], key)
                \/ /\ \E i \in Len(request.demands[j]) + 1 .. Len(new[j]) : ~Finite(new[j][i].amount)
                   /\ SumFails
  <2>1. PICK own \in Seq(Demand), list \in Seq(Demand) : own = request.demands[j] /\ list = old[j]
    BY <1>5, <1>7
  <2>2. Projected(request.demands[j], old[j], P, j, index - 1)
    BY <1>1 DEF IInv, Projecting
  <2>3. Projected(own, list, EnabledPoints(request.points), j, Len(EnabledPoints(request.points)))
    BY <1>5, <1>6, <2>1, <2>2
  <2> DEFINE c == Compacted(list, Len(own))
  <2>4. /\ c \in Seq(Demand) /\ Len(own) <= Len(c) /\ \A i \in 1 .. Len(own) : c[i] = own[i]
        /\ \/ Settled(own, c, j) /\ \A key : SumOf(c, key) = SumOf(list, key)
           \/ /\ \E i \in Len(own) + 1 .. Len(c) : ~Finite(c[i].amount)
              /\ \E key \in Keys : PointsMagnitude(key) > Limit
    BY <1>2, <2>3, CompactedSettles
  <2>5. c = new[j]
    BY <1>7, <2>1
  <2> HIDE DEF c, new, old
  <2>6. (\E key \in Keys : PointsMagnitude(key) > Limit) => SumFails
    BY DEF SumFails
  <2>7. CASE Settled(own, c, j) /\ \A key : SumOf(c, key) = SumOf(list, key)
    BY <2>1, <2>4, <2>5, <2>7
  <2>8. CASE /\ \E i \in Len(own) + 1 .. Len(c) : ~Finite(c[i].amount)
             /\ \E key \in Keys : PointsMagnitude(key) > Limit
    BY <2>1, <2>4, <2>5, <2>6, <2>8
  <2>9. QED
    BY <2>4, <2>7, <2>8
<1>9. new \in [Junctions -> Seq(Demand)]
  <2>1. \A j \in Junctions : (IF j \in JunctionsHere THEN Compacted(old[j], Len(request.demands[j])) ELSE old[j])
                               \in Seq(Demand)
    <3> SUFFICES ASSUME NEW j \in Junctions
                 PROVE  new[j] \in Seq(Demand)
      OBVIOUS
    <3>1. CASE j \in JunctionsHere
      BY <1>3, <1>8, <3>1
    <3>2. CASE j \notin JunctionsHere
      BY <1>5, <3>2
    <3>3. QED
      BY <3>1, <3>2
  <2>2. QED
    BY <2>1
<1> HIDE DEF new
<1>10. CASE /\ \E j \in JunctionsHere : \E i \in DOMAIN new[j] : ~Finite(new[j][i].amount)
            /\ Fail("overflow")
            /\ UNCHANGED network
  <2>1. PICK j \in EnabledJunctions : \E i \in DOMAIN new[j] : ~Finite(new[j][i].amount)
    BY <1>3, <1>10
  <2>2. PICK own \in Seq(Demand), c \in Seq(Demand) : own = request.demands[j] /\ c = new[j]
    BY <1>5, <1>7, <1>8
  <2>3. PICK i \in 1 .. Len(c) : ~Finite(c[i].amount)
    BY <2>1, <2>2
  <2>4. \A m \in 1 .. Len(own) : Finite(own[m].amount)
    BY <1>4, <2>2 DEF NetworkIsValid, DemandIsValid, EnabledJunctions
  <2>5. Len(own) \in Nat /\ Len(c) \in Nat
    OBVIOUS
  <2>6. /\ \A m \in 1 .. Len(own) : c[m] = own[m]
        /\ Settled(own, c, j) \/ SumFails
    BY <1>8, <2>2
  <2>7. i \in Len(own) + 1 .. Len(c)
    <3>1. i \notin 1 .. Len(own)
      BY <2>3, <2>4, <2>6
    <3>2. QED
      BY <2>5, <3>1
  <2>8. ~Settled(own, c, j)
    BY <2>3, <2>7 DEF Settled, Requested, ComesFrom
  <2>9. SumFails
    BY <2>6, <2>8
  <2>10. QED
    BY <1>1, <1>10, <2>9, FailStep DEF Fail
<1>11. CASE /\ \A j \in JunctionsHere : \A i \in DOMAIN new[j] : Finite(new[j][i].amount)
            /\ pc' = "revalidate"
            /\ network' = [network EXCEPT !.demands = new, !.points = <<>>]
            /\ UNCHANGED failures
  <2>1. ASSUME NEW j \in EnabledJunctions
        PROVE  Settled(request.demands[j], new[j], j) /\ \A key : SumOf(new[j], key) = SumOf(old[j], key)
    <3>1. PICK own \in Seq(Demand), c \in Seq(Demand), list \in Seq(Demand) : own = request.demands[j] /\ c = new[j] /\ list = old[j]
      BY <1>5, <1>7, <1>8
    <3>2. \A i \in 1 .. Len(c) : Finite(c[i].amount)
      BY <1>3, <1>11, <3>1
    <3>3. \A i \in Len(own) + 1 .. Len(c) : Finite(c[i].amount)
      <4>1. Len(own) \in Nat /\ Len(c) \in Nat
        OBVIOUS
      <4>2. QED
        BY <3>2, <4>1
    <3>4. \/ Settled(own, c, j) /\ \A key : SumOf(c, key) = SumOf(list, key)
          \/ \E i \in Len(own) + 1 .. Len(c) : ~Finite(c[i].amount)
      BY <1>8, <3>1
    <3>5. QED
      BY <3>1, <3>3, <3>4
  <2>2. /\ network' \in Network /\ network'.demands = new /\ network'.points = <<>>
        /\ network'.nodes = network.nodes /\ network'.pipes = network.pipes
        /\ network'.enabled = network.enabled /\ network'.ends = network.ends
        /\ network'.selections = network.selections /\ network'.roughness = network.roughness
    <3>1. <<>> \in Seq(Point)
      BY EmptySeq
    <3>2. QED
      BY <1>2, <1>9, <1>11, <3>1 DEF Network
  <2>3. TypeInv' /\ Resolved' /\ Enabled'
    <3>1. TypeInv'
      BY <1>1, <1>2, <1>11, <2>2 DEF TypeInv
    <3>2. Resolved' /\ Enabled'
      BY <1>1, <1>3, <1>11, <2>2 DEF IInv, Resolved, Enabled
    <3>3. QED
      BY <3>1, <3>2
  <2>4. Validated'
    <3>1. NetworkIsValid(request)'
      BY <1>1, <1>4 DEF NetworkIsValid
    <3>2. QED
      BY <3>1 DEF Validated
  <2>5. Untouched' /\ Projecting' /\ Revalidated' /\ Reported' /\ OnlyEnabledPartsFail'
    BY <1>11 DEF Untouched, Projecting, Revalidated, Reported, OnlyEnabledPartsFail
  <2>6. Compacting'
    <3>1. ASSUME NEW k \in ActivePoints', NEW j \in EnabledJunctions'
          PROVE  (PartsFor(j, request.points[k].at) \in 0 .. Whole)'
      <4>1. PartsFor(j, request.points[k].at) \in 0 .. Whole
        BY <1>1, <3>1, AllPointsProjected, SameRequest
      <4>2. PartsFor(j, request.points[k].at)' = PartsFor(j, request.points[k].at)
        BY <1>1 DEF PartsFor
      <4>3. QED
        BY <4>1, <4>2
    <3>2. ASSUME NEW j \in EnabledJunctions'
          PROVE  Settled(request.demands[j], network.demands[j], j)'
      <4>1. j \in EnabledJunctions
        BY <1>1, <3>2, SameRequest
      <4>2. PICK own, c : own = request.demands[j] /\ c = new[j]
        OBVIOUS
      <4>3. Settled(own, c, j)
        BY <2>1, <4>1, <4>2
      <4>4. Settled(own, c, j)'
        BY <1>1, <4>3, SettledAgain
      <4>5. QED
        BY <1>1, <2>2, <4>2, <4>4 DEF Settled
    <3>3. ASSUME NEW key
          PROVE  (JunctionsTotal(network.demands, key)
                    = JunctionsTotal(request.demands, key) + Total(Values(request.points, Asked(key))))'
      <4>1. JunctionsTotal(network.demands, key)' = JunctionsTotal(new, key)
            /\ JunctionsTotal(request.demands, key)' = JunctionsTotal(request.demands, key)
        BY <1>1, <2>2, SameRequest DEF JunctionsTotal
      <4>2. JunctionsTotal(new, key) = JunctionsTotal(old, key)
        <5>1. PICK a \in [Junctions -> Seq(Demand)], b \in [Junctions -> Seq(Demand)] : a = old /\ b = new
          BY <1>5, <1>9
        <5>2. \A j \in EnabledJunctions : SumOf(b[j], key) = SumOf(a[j], key)
          BY <2>1, <5>1
        <5>3. JunctionsTotal(b, key) = JunctionsTotal(a, key)
          BY <5>2, JunctionsTotalStays
        <5>4. QED
          BY <5>1, <5>3
      <4>3. JunctionsTotal(old, key)
              = JunctionsTotal(request.demands, key) + Total(UpTo(Values(P, Asked(key)), index - 1))
        BY <1>1 DEF IInv, Projecting
      <4>4. Total(UpTo(Values(P, Asked(key)), index - 1)) = Total(Values(request.points, Asked(key)))
        <5>1. PICK s \in Seq(Point), e \in Seq(Point) : s = request.points /\ e = P
          BY <1>5
        <5>2. Asked(key) \in [Point -> Int]
          BY WorthsAre
        <5>3. Total(UpTo(Values(e, Asked(key)), Len(e))) = Total(Values(e, Asked(key)))
          BY <5>2, AllOfThem
        <5>4. Total(Values(EnabledPoints(s), Asked(key))) = Total(Values(s, Asked(key)))
          BY <5>2, EnabledPointsAre
        <5>5. e = EnabledPoints(s)
          BY <1>5, <5>1
        <5>6. QED
          BY <1>6, <5>1, <5>3, <5>4, <5>5
      <4>5. QED
        BY <1>1, <4>1, <4>2, <4>3, <4>4
    <3>4. QED
      BY <2>2, <3>1, <3>2, <3>3 DEF Compacting
  <2>7. QED
    BY <2>3, <2>4, <2>5, <2>6 DEF IInv
<1>12. QED
  BY <1>10, <1>11 DEF Aggregate, new, old, P

-----------------------------------------------------------------------------
(* The invariant, and what it says when the network is prepared.           *)

(* The request as it arrives.                                              *)
LEMMA InitIsGood ==
  ASSUME Init
  PROVE  IInv
<1>1. pc = "resolve" /\ request \in Requests /\ network = request /\ index = 1
  BY DEF Init
<1>2. request \in Request
  BY <1>1, RequestIs
<1>3. network \in Network
  BY <1>1, <1>2 DEF Request, Network
<1>4. TypeInv /\ Untouched
  BY <1>1, <1>3 DEF TypeInv, Untouched
<1>5. Resolved /\ Validated /\ Enabled /\ Revalidated /\ Reported /\ OnlyEnabledPartsFail
  BY <1>1 DEF Resolved, Validated, Enabled, Revalidated, Reported, OnlyEnabledPartsFail
<1>6. Projecting /\ Compacting
  BY <1>1 DEF Projecting, Compacting
<1>7. QED
  BY <1>4, <1>5, <1>6 DEF IInv

(* Nothing changes.                                                        *)
LEMMA StutterKeeps ==
  ASSUME IInv, UNCHANGED vars
  PROVE  IInv'
<1>1. pc' = pc /\ request' = request /\ network' = network /\ index' = index
  BY DEF vars
<1>2. TypeInv' /\ Untouched' /\ Resolved' /\ Enabled' /\ Reported'
  BY <1>1 DEF IInv, TypeInv, Untouched, Resolved, Enabled, Reported, NothingDisabled
<1>3. Validated' /\ Revalidated'
  BY <1>1 DEF IInv, Validated, Revalidated, NetworkIsValid
<1>4. OnlyEnabledPartsFail'
  BY <1>1, SameRequest DEF IInv, OnlyEnabledPartsFail
<1>5. Compacting'
  <2>1. CASE pc \in {"revalidate", "reports", "prepared"}
    BY <1>1, <2>1, SettledStays DEF IInv
  <2>2. CASE pc \notin {"revalidate", "reports", "prepared"}
    BY <1>1, <2>2 DEF Compacting
  <2>3. QED
    BY <2>1, <2>2
<1>6. Projecting'
  <2>1. SUFFICES ASSUME pc = "project"
                 PROVE  Projecting'
    BY <1>1 DEF Projecting
  <2>2. /\ network.points = EnabledPoints(request.points)
        /\ index <= Len(network.points) + 1
        /\ \A k \in 1 .. index - 1 : IsActive(network.points[k]) =>
              \A j \in EnabledJunctions : PartsFor(j, network.points[k].at) \in 0 .. Whole
        /\ \A j \in EnabledJunctions :
              Projected(request.demands[j], network.demands[j], network.points, j, index - 1)
        /\ \A key : JunctionsTotal(network.demands, key)
                      = JunctionsTotal(request.demands, key)
                        + Total(UpTo(Values(network.points, Asked(key)), index - 1))
    BY <2>1 DEF IInv, Projecting
  <2>3. ASSUME NEW m \in 1 .. index' - 1, IsActive(network'.points[m]), NEW j \in EnabledJunctions'
        PROVE  (PartsFor(j, network.points[m].at) \in 0 .. Whole)'
    <3>1. PartsFor(j, network.points[m].at)' = PartsFor(j, network.points[m].at)
      BY <1>1 DEF PartsFor
    <3>2. PartsFor(j, network.points[m].at) \in 0 .. Whole
      BY <1>1, <2>2, <2>3, SameRequest
    <3>3. QED
      BY <3>1, <3>2
  <2>4. ASSUME NEW j \in EnabledJunctions'
        PROVE  Projected(request.demands[j], network.demands[j], network.points, j, index - 1)'
    <3>1. PICK own, list, points, n : own = request.demands[j] /\ list = network.demands[j]
                                      /\ points = network.points /\ n = index - 1
      OBVIOUS
    <3>2. Projected(own, list, points, j, n)
      BY <1>1, <2>2, <3>1, SameRequest
    <3>3. Projected(own, list, points, j, n)'
      BY <1>1, <3>2, ProjectedAgain
    <3>4. QED
      BY <1>1, <3>1, <3>3 DEF Projected
  <2>5. ASSUME NEW key
        PROVE  (JunctionsTotal(network.demands, key)
                  = JunctionsTotal(request.demands, key)
                    + Total(UpTo(Values(network.points, Asked(key)), index - 1)))'
    <3>1. JunctionsTotal(network.demands, key)' = JunctionsTotal(network.demands, key)
          /\ JunctionsTotal(request.demands, key)' = JunctionsTotal(request.demands, key)
      BY <1>1, SameRequest DEF JunctionsTotal
    <3>2. QED
      BY <1>1, <2>2, <3>1
  <2>6. QED
    BY <1>1, <2>2, <2>3, <2>4, <2>5 DEF Projecting
<1>7. QED
  BY <1>2, <1>3, <1>4, <1>5, <1>6 DEF IInv

(* The invariant holds throughout prepareEpanetNetwork.                    *)
THEOREM PreparationKeepsInvariant == Spec => []IInv
<1>1. Init => IInv
  BY InitIsGood
<1>2. IInv /\ [Next]_vars => IInv'
  <2> SUFFICES ASSUME IInv, [Next]_vars
               PROVE  IInv'
    OBVIOUS
  <2>1. CASE ResolveRoughness
    BY <2>1, ResolveRoughnessKeeps
  <2>2. CASE Validate
    BY <2>2, ValidateKeeps
  <2>3. CASE KeepWhatIsEnabled
    BY <2>3, KeepWhatIsEnabledKeeps
  <2>4. CASE ProjectPoint
    BY <2>4, ProjectPointKeeps
  <2>5. CASE Aggregate
    BY <2>5, AggregateKeeps
  <2>6. CASE Revalidate
    BY <2>6, RevalidateKeeps
  <2>7. CASE TrimSelections
    BY <2>7, TrimSelectionsKeeps
  <2>8. CASE UNCHANGED vars
    BY <2>8, StutterKeeps
  <2>9. QED
    BY <2>1, <2>2, <2>3, <2>4, <2>5, <2>6, <2>7, <2>8 DEF Next
<1>3. QED
  BY <1>1, <1>2, PTL DEF Spec

(* buildHydraulicNodeDemandProjection conserves demand: a prepared         *)
(* junction has its own and its share of every active demand point, and    *)
(* the network as a whole neither gains nor loses any.                     *)
THEOREM DemandIsConserved == Spec => []DemandConserved
<1>1. IInv => DemandConserved
  <2> SUFFICES ASSUME IInv, pc = "prepared", NEW key \in Keys
               PROVE  /\ \A j \in EnabledJunctions :
                            Whole * SumOf(network.demands[j], key) =
                                Whole * SumOf(request.demands[j], key)
                                + Total([k \in DOMAIN request.points |->
                                           IF k \in ActivePoints
                                           THEN SumOf(request.points[k].demands, key)
                                                * PartsFor(j, request.points[k].at)
                                           ELSE 0])
                      /\ JunctionsTotal(network.demands, key) =
                            JunctionsTotal(request.demands, key) + PointsTotal(key)
    BY DEF DemandConserved
  <2>1. request \in Requests
    BY DEF IInv, TypeInv
  <2>2. /\ \A k \in ActivePoints : \A j \in EnabledJunctions : PartsFor(j, request.points[k].at) \in 0 .. Whole
        /\ \A j \in EnabledJunctions : Settled(request.demands[j], network.demands[j], j)
        /\ JunctionsTotal(network.demands, key)
             = JunctionsTotal(request.demands, key) + Total(Values(request.points, Asked(key)))
    BY DEF IInv, Compacting
  <2>3. ASSUME NEW j \in EnabledJunctions
        PROVE  Whole * SumOf(network.demands[j], key) =
                   Whole * SumOf(request.demands[j], key)
                   + Total([k \in DOMAIN request.points |->
                              IF k \in ActivePoints
                              THEN SumOf(request.points[k].demands, key) * PartsFor(j, request.points[k].at)
                              ELSE 0])
    <3> DEFINE given == Total([k \in DOMAIN request.points |->
                                 IF k \in ActivePoints
                                 THEN SumOf(request.points[k].demands, key) * PartsFor(j, request.points[k].at)
                                 ELSE 0])
    <3>1. given = Total(Values(request.points, Gives(j, key)))
      BY <2>1, <2>2, PointsAreWorth
    <3>2. Whole * SumOf(network.demands[j], key)
            = Whole * SumOf(request.demands[j], key) + Total(Values(request.points, Gives(j, key)))
      BY <2>2 DEF Settled
    <3> HIDE DEF given
    <3>3. Whole * SumOf(network.demands[j], key) = Whole * SumOf(request.demands[j], key) + given
      BY <3>1, <3>2
    <3>4. QED
      BY <3>3 DEF given
  <2>4. PointsTotal(key) = Total(Values(request.points, Asked(key)))
    BY <2>1, PointsAreWorth
  <2>5. QED
    BY <2>2, <2>3, <2>4
<1>2. QED
  BY <1>1, PreparationKeepsInvariant, PTL

(* aggregateProjectedDemands leaves a junction's own demands first and     *)
(* unchanged, and has one projected demand per category and pattern.       *)
THEOREM OwnDemandsStayFirst == Spec => []OwnDemandsFirst
<1>1. IInv => OwnDemandsFirst
  <2> SUFFICES ASSUME IInv, pc = "prepared", NEW j \in EnabledJunctions
               PROVE  LET own == Len(request.demands[j]) IN
                      /\ IsPrefix(request.demands[j], network.demands[j])
                      /\ \A i, k \in own + 1 .. Len(network.demands[j]) :
                            Matches(network.demands[j][i], network.demands[j][k]) => i = k
    BY DEF OwnDemandsFirst
  <2>1. request.demands \in [Junctions -> Seq(Demand)] /\ network.demands \in [Junctions -> Seq(Demand)]
        /\ j \in Junctions
    BY RequestIs, NetworkFields DEF IInv, TypeInv, EnabledJunctions
  <2>2. PICK own \in Seq(Demand), list \in Seq(Demand) : own = request.demands[j] /\ list = network.demands[j]
    BY <2>1
  <2>3. Settled(own, list, j)
    BY <2>2 DEF IInv, Compacting
  <2>4. Len(own) <= Len(list) /\ (\A i \in 1 .. Len(own) : list[i] = own[i]) /\ Distinct(list, Len(own))
    BY <2>3 DEF Settled
  <2>5. SubSeq(own, 1, Len(own)) = SubSeq(list, 1, Len(own))
    <3>1. Len(own) \in Nat /\ Len(list) \in Nat
      OBVIOUS
    <3> DEFINE s == SubSeq(own, 1, Len(own))
               t == SubSeq(list, 1, Len(own))
    <3>2. s \in Seq(Demand) /\ Len(s) = Len(own) /\ \A i \in 1 .. Len(own) : s[i] = own[i]
      BY <3>1
    <3>3. t \in Seq(Demand) /\ Len(t) = Len(own) /\ \A i \in 1 .. Len(own) : t[i] = list[i]
      BY <2>4, <3>1
    <3> HIDE DEF s, t
    <3>4. \A i \in 1 .. Len(s) : s[i] = t[i]
      BY <2>4, <3>2, <3>3
    <3>5. s = t
      BY <3>2, <3>3, <3>4, SeqEqual
    <3>6. QED
      BY <3>5 DEF s, t
  <2>6. IsPrefix(own, list)
    BY <2>4, <2>5 DEF IsPrefix
  <2>7. QED
    BY <2>2, <2>4, <2>6 DEF Distinct
<1>2. QED
  BY <1>1, PreparationKeepsInvariant, PTL

(* What prepareEpanetNetwork returns refers to nothing that is disabled or *)
(* missing, and has no demand point left.                                  *)
THEOREM PreparedNetworkIsClosed == Spec => []PreparedIsClosed
<1>1. IInv => PreparedIsClosed
  <2> SUFFICES ASSUME IInv, pc = "prepared"
               PROVE  PreparedIsClosed
    BY DEF PreparedIsClosed
  <2>1. /\ network.nodes = request.nodes \intersect request.enabled
        /\ network.pipes = request.pipes \intersect request.enabled
        /\ network.enabled = request.enabled
    BY DEF IInv, Enabled, TypeInv
  <2>2. /\ \A x \in network.pipes : {network.ends[x].from, network.ends[x].to} \subseteq network.nodes
        /\ \A j \in network.nodes \intersect Junctions :
              \A i \in DOMAIN network.demands[j] : DemandIsValid(network.demands[j][i])
    BY <2>1 DEF IInv, Revalidated, NetworkIsValid
  <2>3. \A x \in network.pipes : network.roughness[x] \in {"Direct", "Resolved"}
    BY <2>1 DEF IInv, Resolved
  <2>4. network.points = <<>>
    BY DEF IInv, Compacting
  <2>5. NothingDisabled(network.selections.nodes, request.nodes)
        /\ NothingDisabled(network.selections.links, request.pipes)
    BY DEF IInv, Reported
  <2>6. QED
    BY <2>1, <2>2, <2>3, <2>4, <2>5 DEF PreparedIsClosed
<1>2. QED
  BY <1>1, PreparationKeepsInvariant, PTL

(* prepareEpanetNetwork fails for what is enabled only: each failure has   *)
(* its cause in an enabled part of the request.                            *)
THEOREM FailuresComeFromWhatIsEnabled == Spec => []OnlyEnabledPartsFail
<1>1. IInv => OnlyEnabledPartsFail
  BY DEF IInv
<1>2. QED
  BY <1>1, PreparationKeepsInvariant, PTL
=============================================================================

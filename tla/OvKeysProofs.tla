---------------------------- MODULE OvKeysProofs ----------------------------
(***************************************************************************)
(* Proofs about OvKeys for every commutative ring in which each element is *)
(* its own negative, every number of vinegars, oils and equations, and     *)
(* every Tail: the public map vanishes on the oil space, key generation    *)
(* and key expansion agree on S, and a solved system gives a preimage of   *)
(* the digest under the key the verifier has.                              *)
(*                                                                         *)
(* First sums, matrices and the algebra of the scheme at one equation.     *)
(* Then the memory layouts, and what each operation of ParallelMatrix is   *)
(* as a matrix at each equation.  Last the steps of OvKeys.                *)
(***************************************************************************)
EXTENDS OvKeys, WellFoundedInduction, TLAPS

-----------------------------------------------------------------------------
(* \div and %, which the SMT backend does not reason about by itself, and  *)
(* induction.                                                              *)

(* Quotient and remainder are determined by their defining equation. *)
LEMMA DivUnique ==
  ASSUME NEW d \in Nat \ {0}, NEW q \in Int, NEW r \in Int, 0 <= r, r < d
  PROVE  /\ (q * d + r) \div d = q
         /\ (q * d + r) % d = r
<1> DEFINE num == q * d + r
           p == num \div d
           s == num % d
<1>1. num \in Int /\ p \in Int /\ s \in Int /\ num = d * p + s /\ 0 <= s /\ s < d
  OBVIOUS
<1>2. d * (p - q) = r - s
  BY <1>1
<1>3. p - q < 1
  <2>1. SUFFICES ASSUME p - q >= 1 PROVE FALSE
    BY <1>1
  <2>2. d * (p - q) >= d
    BY <2>1, <1>1
  <2> QED BY <2>2, <1>2, <1>1
<1>4. p - q > -1
  <2>1. SUFFICES ASSUME p - q <= -1 PROVE FALSE
    BY <1>1
  <2>2. d * (p - q) <= -d
    BY <2>1, <1>1
  <2> QED BY <2>2, <1>2, <1>1
<1>5. p = q
  BY <1>3, <1>4, <1>1
<1> QED BY <1>5, <1>1

(* Division with remainder, as the SMT backend needs it spelled out. *)
LEMMA DivMod ==
  ASSUME NEW d \in Nat \ {0}, NEW num \in Int
  PROVE  /\ num \div d \in Int
         /\ num % d \in 0 .. d - 1
         /\ num = (num \div d) * d + (num % d)
  OBVIOUS

(* The library's induction theorems take an operator as a parameter; for   *)
(* the elements of a set, its least-element theorem is enough.             *)
LEMMA NatLess == IsWellFoundedOn({ss \in Nat \X Nat : ss[1] < ss[2]}, Nat)
  BY NatLessThanWellFounded DEF OpToRel

(* Induction over the natural numbers, for a set. *)
LEMMA SetInduction ==
  ASSUME NEW X, 0 \in X, \A n \in Nat : n \in X => n + 1 \in X
  PROVE  \A n \in Nat : n \in X
<1> DEFINE R == {ss \in Nat \X Nat : ss[1] < ss[2]}
           T == Nat \ X
<1>1. SUFFICES ASSUME T # {} PROVE FALSE
  OBVIOUS
<1>2. IsWellFoundedOn(R, Nat) /\ T \subseteq Nat
  BY NatLess
<1>3. PICK n \in T : \A k \in T : ~ (<<k, n>> \in R)
  <2> HIDE DEF R, T
  <2> QED BY <1>1, <1>2, WFMin
<1>4. n \in Nat /\ n \notin X /\ n # 0
  BY <1>3
<1>5. n - 1 \in X
  <2>1. n - 1 \in Nat /\ n - 1 < n
    BY <1>4
  <2>2. <<n - 1, n>> \in R
    BY <1>4, <2>1
  <2> QED BY <1>3, <2>1, <2>2
<1> QED
  <2>1. n - 1 \in Nat /\ (n - 1) + 1 = n
    BY <1>4
  <2> QED BY <1>4, <1>5, <2>1

(* Induction over 0 .. N. *)
LEMMA InductionUpTo ==
  ASSUME NEW N \in Nat, NEW X, 0 \in X, \A n \in 0 .. N - 1 : n \in X => n + 1 \in X
  PROVE  \A n \in 0 .. N : n \in X
<1> DEFINE T == { n \in Nat : n <= N => n \in X }
<1>1. 0 \in T
  OBVIOUS
<1>2. \A n \in Nat : n \in T => n + 1 \in T
  <2>1. TAKE n \in Nat
  <2>2. SUFFICES ASSUME n \in T, n + 1 <= N PROVE n + 1 \in X
    OBVIOUS
  <2>3. n \in 0 .. N - 1 /\ n \in X
    BY <2>2
  <2> QED BY <2>3
<1>3. \A n \in Nat : n \in T
  <2> HIDE DEF T
  <2> QED BY <1>1, <1>2, SetInduction
<1> QED BY <1>3

-----------------------------------------------------------------------------
(* What a recursion over 0 .. N defines, for a step given as a function.   *)
IsRec(N, T, a, h, g) ==
  /\ g \in [0 .. N -> T]
  /\ g[0] = a
  /\ \A k \in 0 .. N - 1 : g[k + 1] = h[k][g[k]]

(* A recursion whose steps stay in T has a value at each point of 0 .. N. *)
LEMMA RecExists ==
  ASSUME NEW N \in Nat, NEW T, NEW a \in T, NEW h \in [0 .. N - 1 -> [T -> T]]
  PROVE  \E g : IsRec(N, T, a, h, g)
<1> DEFINE Good(n, g) == g[0] = a /\ \A k \in 0 .. n - 1 : g[k + 1] = h[k][g[k]]
           Z == { n \in Nat : \E g \in [0 .. n -> T] : Good(n, g) }
<1>1. 0 \in Z
  <2>1. Good(0, [k \in 0 .. 0 |-> a])
    OBVIOUS
  <2> QED BY <2>1
<1>2. \A n \in 0 .. N - 1 : n \in Z => n + 1 \in Z
  <2>1. SUFFICES ASSUME NEW n \in 0 .. N - 1, n \in Z PROVE n + 1 \in Z
    OBVIOUS
  <2>2. PICK f \in [0 .. n -> T] : Good(n, f)
    BY <2>1
  <2> DEFINE v == h[n][f[n]]
             g == [k \in 0 .. n + 1 |-> IF k <= n THEN f[k] ELSE v]
  <2>3. n \in Nat /\ v \in T
    BY <2>2
  <2> HIDE DEF v
  <2>4. g \in [0 .. n + 1 -> T] /\ g[0] = a
    BY <2>2, <2>3
  <2>5. \A k \in 0 .. (n + 1) - 1 : g[k + 1] = h[k][g[k]]
    <3>1. TAKE k \in 0 .. (n + 1) - 1
    <3>2. CASE k = n
      BY <2>3, <3>2 DEF v
    <3>3. CASE k # n
      <4>1. k \in 0 .. n - 1 /\ k <= n /\ k + 1 <= n /\ k \in 0 .. n + 1 /\ k + 1 \in 0 .. n + 1
        BY <2>3, <3>3
      <4> QED BY <2>2, <4>1
    <3> QED BY <3>2, <3>3
  <2> HIDE DEF g
  <2>6. Good(n + 1, g)
    BY <2>4, <2>5
  <2> QED BY <2>3, <2>4, <2>6
<1>3. N \in Z
  <2> HIDE DEF Z
  <2>1. \A n \in 0 .. N : n \in Z
    BY <1>1, <1>2, InductionUpTo
  <2> QED BY <2>1
<1> QED BY <1>3 DEF IsRec

(* A function that unrolls the same way is the same on 0 .. N.             *)
LEMMA RecUnique ==
  ASSUME NEW N \in Nat, NEW f, NEW g, f[0] = g[0],
         \A k \in 0 .. N - 1 : f[k] = g[k] => f[k + 1] = g[k + 1]
  PROVE  \A k \in 0 .. N : f[k] = g[k]
<1> DEFINE Z == { k \in 0 .. N : f[k] = g[k] }
<1>1. 0 \in Z
  OBVIOUS
<1>2. \A k \in 0 .. N - 1 : k \in Z => k + 1 \in Z
  OBVIOUS
<1>3. \A k \in 0 .. N : k \in Z
  <2> HIDE DEF Z
  <2> QED BY <1>1, <1>2, InductionUpTo
<1> QED BY <1>3

-----------------------------------------------------------------------------
(* The ring. *)
LEMMA Ring ==
  /\ Zero \in F
  /\ \A a, b \in F : Plus(a, b) \in F /\ Times(a, b) \in F
  /\ \A a \in F : Plus(a, Zero) = a /\ Plus(Zero, a) = a /\ Plus(a, a) = Zero
  BY RingAssumption

(* The laws of RingAssumption, one by one. *)
LEMMA Commutes == \A a, b \in F : Plus(a, b) = Plus(b, a) /\ Times(a, b) = Times(b, a)
  BY RingAssumption

LEMMA PlusAssoc == \A a, b, c \in F : Plus(a, Plus(b, c)) = Plus(Plus(a, b), c)
  BY RingAssumption

LEMMA TimesAssoc == \A a, b, c \in F : Times(a, Times(b, c)) = Times(Times(a, b), c)
  BY RingAssumption

LEMMA Distributes ==
  \A a, b, c \in F : /\ Times(a, Plus(b, c)) = Plus(Times(a, b), Times(a, c))
                     /\ Times(Plus(b, c), a) = Plus(Times(b, a), Times(c, a))
  BY RingAssumption

LEMMA TimesZero == \A a \in F : Times(a, Zero) = Zero /\ Times(Zero, a) = Zero
<1> SUFFICES ASSUME NEW a \in F PROVE Times(a, Zero) = Zero
  BY Commutes, Ring
<1>1. Times(a, Plus(Zero, Zero)) = Plus(Times(a, Zero), Times(a, Zero))
  BY Distributes, Ring
<1>2. Times(a, Zero) \in F /\ Plus(Zero, Zero) = Zero
  BY Ring
<1> QED BY <1>1, <1>2, Ring

(* (a + b) + (c + d) = (a + c) + (b + d) *)
LEMMA Interchange ==
  ASSUME NEW a \in F, NEW b \in F, NEW c \in F, NEW d \in F
  PROVE  Plus(Plus(a, b), Plus(c, d)) = Plus(Plus(a, c), Plus(b, d))
<1>1. Plus(Plus(a, b), Plus(c, d)) = Plus(a, Plus(b, Plus(c, d)))
  BY PlusAssoc, Ring
<1>2. Plus(b, Plus(c, d)) = Plus(c, Plus(b, d))
  <2>1. Plus(b, Plus(c, d)) = Plus(Plus(b, c), d) /\ Plus(Plus(c, b), d) = Plus(c, Plus(b, d))
    BY PlusAssoc
  <2> QED BY <2>1, Commutes
<1>3. Plus(a, Plus(c, Plus(b, d))) = Plus(Plus(a, c), Plus(b, d))
  BY PlusAssoc, Ring
<1> QED BY <1>1, <1>2, <1>3

(* a + b = c + b gives a = c *)
LEMMA Cancels ==
  ASSUME NEW a \in F, NEW b \in F
  PROVE  Plus(Plus(a, b), b) = a
<1>1. Plus(Plus(a, b), b) = Plus(a, Plus(b, b))
  BY PlusAssoc
<1> QED BY <1>1, Ring

-----------------------------------------------------------------------------
(* Sums. *)
Idx(n) == 0 .. n - 1
Sum(n, f) ==
  LET acc[k \in 0 .. n] == IF k = 0 THEN Zero ELSE Plus(acc[k - 1], f[k - 1])
  IN acc[n]

(* Sum unrolls: its partial sums are a function. *)
LEMMA SumRec ==
  ASSUME NEW n \in Nat, NEW f, \A k \in Idx(n) : f[k] \in F
  PROVE  \E s \in [0 .. n -> F] : /\ s[0] = Zero
                                  /\ \A k \in Idx(n) : s[k + 1] = Plus(s[k], f[k])
                                  /\ Sum(n, f) = s[n]
<1> DEFINE Rec(g) == [k \in 0 .. n |-> IF k = 0 THEN Zero ELSE Plus(g[k - 1], f[k - 1])]
           sum == CHOOSE g : g = Rec(g)
           h == [k \in 0 .. n - 1 |-> [t \in F |-> Plus(t, f[k])]]
<1>1. Zero \in F /\ h \in [0 .. n - 1 -> [F -> F]]
  BY Ring DEF Idx
<1>2. PICK s \in [0 .. n -> F] : s[0] = Zero /\ \A k \in 0 .. n - 1 : s[k + 1] = h[k][s[k]]
  <2> HIDE DEF h
  <2>1. \E s : IsRec(n, F, Zero, h, s)
    BY <1>1, RecExists
  <2> QED BY <2>1 DEF IsRec
<1>3. \A k \in Idx(n) : s[k + 1] = Plus(s[k], f[k])
  <2>1. TAKE k \in Idx(n)
  <2>2. k \in 0 .. n - 1 /\ s[k] \in F
    <3> HIDE DEF h
    <3> QED BY <1>2 DEF Idx
  <2>3. h[k][s[k]] = Plus(s[k], f[k])
    BY <2>2
  <2> HIDE DEF h
  <2> QED BY <1>2, <2>2, <2>3
<1>4. s = Rec(s)
  <2>1. ASSUME NEW k \in 0 .. n PROVE s[k] = Rec(s)[k]
    <3>1. CASE k = 0
      BY <1>2, <3>1
    <3>2. CASE k # 0
      <4>1. k - 1 \in Idx(n) /\ (k - 1) + 1 = k
        BY <3>2 DEF Idx
      <4> QED BY <1>3, <3>2, <4>1
    <3> QED BY <3>1, <3>2
  <2> QED BY <1>2, <2>1
<1>5. sum = Rec(sum)
  <2> HIDE DEF Rec
  <2> QED BY <1>4
<1>6. Sum(n, f) = sum[n]
  BY DEF Sum
<1> HIDE DEF sum
<1>7. sum[0] = Zero /\ \A k \in Idx(n) : sum[k + 1] = Plus(sum[k], f[k])
  <2>1. sum[0] = Zero
    BY <1>5
  <2>2. ASSUME NEW k \in Idx(n) PROVE sum[k + 1] = Plus(sum[k], f[k])
    <3>1. k + 1 \in 0 .. n /\ k + 1 # 0 /\ (k + 1) - 1 = k
      BY DEF Idx
    <3> QED BY <1>5, <3>1
  <2> QED BY <2>1, <2>2
<1>8. \A k \in 0 .. n : sum[k] = s[k]
  <2>1. \A k \in 0 .. n - 1 : sum[k] = s[k] => sum[k + 1] = s[k + 1]
    BY <1>3, <1>7 DEF Idx
  <2> HIDE DEF Rec, h
  <2>2. sum[0] = s[0]
    BY <1>2, <1>7
  <2> QED BY <2>1, <2>2, RecUnique
<1>9. Sum(n, f) = s[n]
  BY <1>6, <1>8
<1> HIDE DEF h, Rec
<1> QED BY <1>2, <1>3, <1>9

(* A sequence of partial sums ends in the sum. *)
LEMMA SumIs ==
  ASSUME NEW n \in Nat, NEW f, \A k \in Idx(n) : f[k] \in F,
         NEW s, s[0] = Zero, \A k \in Idx(n) : s[k + 1] = Plus(s[k], f[k])
  PROVE  Sum(n, f) = s[n]
<1>1. PICK r \in [0 .. n -> F] : /\ r[0] = Zero
                                 /\ \A k \in Idx(n) : r[k + 1] = Plus(r[k], f[k])
                                 /\ Sum(n, f) = r[n]
  BY SumRec
<1>2. \A k \in 0 .. n : r[k] = s[k]
  <2>1. \A k \in 0 .. n - 1 : r[k] = s[k] => r[k + 1] = s[k + 1]
    BY <1>1 DEF Idx
  <2>2. r[0] = s[0]
    BY <1>1
  <2> QED BY <2>1, <2>2, RecUnique
<1> QED BY <1>1, <1>2

LEMMA SumType ==
  ASSUME NEW n \in Nat, NEW f, \A k \in Idx(n) : f[k] \in F
  PROVE  Sum(n, f) \in F
  BY SumRec

LEMMA SumNone == \A f : Sum(0, f) = Zero
<1> TAKE f
<1>1. \A k \in Idx(0) : f[k] \in F
  BY DEF Idx
<1> QED BY <1>1, SumRec

LEMMA SumStep ==
  ASSUME NEW n \in Nat, NEW f, \A k \in 0 .. n : f[k] \in F
  PROVE  Sum(n + 1, f) = Plus(Sum(n, f), f[n])
<1>1. Idx(n + 1) = 0 .. n /\ n \in 0 .. n /\ Idx(n) \subseteq 0 .. n
  BY DEF Idx
<1>2. PICK s \in [0 .. n + 1 -> F] : /\ s[0] = Zero
                                     /\ \A k \in Idx(n + 1) : s[k + 1] = Plus(s[k], f[k])
                                     /\ Sum(n + 1, f) = s[n + 1]
  BY <1>1, SumRec
<1>3. Sum(n, f) = s[n]
  BY <1>1, <1>2, SumIs
<1> QED BY <1>1, <1>2, <1>3

LEMMA SumEq ==
  ASSUME NEW n \in Nat, NEW f, NEW g, \A k \in Idx(n) : f[k] \in F /\ f[k] = g[k]
  PROVE  Sum(n, f) = Sum(n, g)
<1>1. PICK s \in [0 .. n -> F] : /\ s[0] = Zero
                                 /\ \A k \in Idx(n) : s[k + 1] = Plus(s[k], f[k])
                                 /\ Sum(n, f) = s[n]
  BY SumRec
<1>2. Sum(n, g) = s[n]
  <2>1. \A k \in Idx(n) : g[k] \in F /\ s[k + 1] = Plus(s[k], g[k])
    BY <1>1
  <2> QED BY <1>1, <2>1, SumIs
<1> QED BY <1>1, <1>2

(* A sum of sums, and of products with the same factor. *)
LEMMA SumPlus ==
  ASSUME NEW n \in Nat, NEW f, NEW g, NEW h,
         \A k \in Idx(n) : f[k] \in F /\ g[k] \in F /\ h[k] = Plus(f[k], g[k])
  PROVE  Sum(n, h) = Plus(Sum(n, f), Sum(n, g))
<1>1. PICK s \in [0 .. n -> F] : /\ s[0] = Zero
                                 /\ \A k \in Idx(n) : s[k + 1] = Plus(s[k], f[k])
                                 /\ Sum(n, f) = s[n]
  BY SumRec
<1>2. PICK r \in [0 .. n -> F] : /\ r[0] = Zero
                                 /\ \A k \in Idx(n) : r[k + 1] = Plus(r[k], g[k])
                                 /\ Sum(n, g) = r[n]
  BY SumRec
<1> DEFINE q == [k \in 0 .. n |-> Plus(s[k], r[k])]
<1>3. q[0] = Zero
  BY <1>1, <1>2, Ring
<1>4. ASSUME NEW k \in Idx(n) PROVE q[k + 1] = Plus(q[k], h[k])
  <2>1. k \in 0 .. n /\ k + 1 \in 0 .. n
    BY DEF Idx
  <2>2. Plus(Plus(s[k], f[k]), Plus(r[k], g[k])) = Plus(Plus(s[k], r[k]), Plus(f[k], g[k]))
    BY <2>1, <1>1, <1>2, Interchange
  <2> QED BY <2>1, <2>2, <1>1, <1>2
<1>5. \A k \in Idx(n) : h[k] \in F
  BY Ring
<1>6. Sum(n, h) = q[n]
  <2> HIDE DEF q
  <2> QED BY <1>3, <1>4, <1>5, SumIs
<1> QED BY <1>1, <1>2, <1>6

LEMMA SumTimes ==
  ASSUME NEW n \in Nat, NEW f, NEW c \in F, NEW h,
         \A k \in Idx(n) : f[k] \in F /\ h[k] = Times(f[k], c)
  PROVE  Sum(n, h) = Times(Sum(n, f), c)
<1>1. PICK s \in [0 .. n -> F] : /\ s[0] = Zero
                                 /\ \A k \in Idx(n) : s[k + 1] = Plus(s[k], f[k])
                                 /\ Sum(n, f) = s[n]
  BY SumRec
<1> DEFINE q == [k \in 0 .. n |-> Times(s[k], c)]
<1>3. q[0] = Zero
  BY <1>1, TimesZero
<1>4. ASSUME NEW k \in Idx(n) PROVE q[k + 1] = Plus(q[k], h[k])
  <2>1. k \in 0 .. n /\ k + 1 \in 0 .. n
    BY DEF Idx
  <2> QED BY <2>1, <1>1, Distributes
<1>5. \A k \in Idx(n) : h[k] \in F
  BY Ring
<1>6. Sum(n, h) = q[n]
  <2> HIDE DEF q
  <2> QED BY <1>3, <1>4, <1>5, SumIs
<1> QED BY <1>1, <1>6

LEMMA SumZero ==
  ASSUME NEW n \in Nat, NEW f, \A k \in Idx(n) : f[k] = Zero
  PROVE  Sum(n, f) = Zero
<1> DEFINE q == [k \in 0 .. n |-> Zero]
<1>1. q[0] = Zero /\ q[n] = Zero /\ \A k \in Idx(n) : f[k] \in F /\ q[k + 1] = Plus(q[k], f[k])
  BY Ring DEF Idx
<1>2. Sum(n, f) = q[n]
  <2> HIDE DEF q
  <2> QED BY <1>1, SumIs
<1> QED BY <1>1, <1>2

(* A sum in two parts. *)
LEMMA SumSplit ==
  ASSUME NEW m \in Nat, NEW n \in Nat, NEW f, \A k \in Idx(m + n) : f[k] \in F,
         NEW g, \A k \in Idx(n) : g[k] = f[m + k]
  PROVE  Sum(m + n, f) = Plus(Sum(m, f), Sum(n, g))
<1> DEFINE q == [k \in 0 .. n |-> Sum(m + k, f)]
           r == [k \in 0 .. n |-> Plus(Sum(m, f), Sum(k, g))]
<1>1. \A k \in Idx(m) : f[k] \in F
  BY DEF Idx
<1>2. \A k \in Idx(n) : g[k] \in F
  BY DEF Idx
<1>3. Sum(m, f) \in F
  BY <1>1, SumType
<1>4. q[0] = r[0]
  <2>1. m + 0 = m /\ 0 \in 0 .. n
    OBVIOUS
  <2>2. q[0] = Sum(m, f) /\ r[0] = Plus(Sum(m, f), Sum(0, g))
    BY <2>1
  <2> QED BY <2>2, <1>3, SumNone, Ring
<1>5. ASSUME NEW k \in 0 .. n - 1, q[k] = r[k] PROVE q[k + 1] = r[k + 1]
  <2>1. k \in 0 .. n /\ k + 1 \in 0 .. n /\ m + (k + 1) = (m + k) + 1 /\ m + k \in Nat /\ k \in Nat /\ k \in Idx(n)
    BY DEF Idx
  <2>2. Sum((m + k) + 1, f) = Plus(Sum(m + k, f), f[m + k])
    <3>1. \A l \in 0 .. m + k : f[l] \in F
      BY DEF Idx
    <3> QED BY <2>1, <3>1, SumStep
  <2>3. Sum(k + 1, g) = Plus(Sum(k, g), g[k])
    <3>1. \A l \in 0 .. k : g[l] \in F
      BY <1>2 DEF Idx
    <3> QED BY <2>1, <3>1, SumStep
  <2>4. Sum(k, g) \in F
    <3>1. \A l \in Idx(k) : g[l] \in F
      BY <1>2 DEF Idx
    <3> QED BY <2>1, <3>1, SumType
  <2>5. Plus(Plus(Sum(m, f), Sum(k, g)), g[k]) = Plus(Sum(m, f), Plus(Sum(k, g), g[k]))
    BY <1>2, <1>3, <2>1, <2>4, PlusAssoc
  <2>6. q[k + 1] = Sum((m + k) + 1, f) /\ r[k + 1] = Plus(Sum(m, f), Sum(k + 1, g))
    BY <2>1
  <2>7. q[k] = Sum(m + k, f) /\ r[k] = Plus(Sum(m, f), Sum(k, g)) /\ f[m + k] = g[k]
    BY <2>1
  <2> HIDE DEF q, r
  <2> QED BY <1>5, <2>2, <2>3, <2>5, <2>6, <2>7
<1>6. \A k \in 0 .. n : q[k] = r[k]
  <2> HIDE DEF q, r
  <2> QED BY <1>4, <1>5, RecUnique
<1> QED BY <1>6

(* Zeros in front or behind do not count. *)
LEMMA SumFrom ==
  ASSUME NEW m \in Nat, NEW n \in Nat, NEW f, \A k \in Idx(m) : f[k] = Zero,
         NEW g, \A k \in Idx(n) : g[k] \in F /\ g[k] = f[m + k]
  PROVE  Sum(m + n, f) = Sum(n, g)
<1>1. ASSUME NEW k \in Idx(m + n) PROVE f[k] \in F
  <2>1. CASE k < m
    BY <2>1, Ring DEF Idx
  <2>2. CASE ~(k < m)
    <3>1. k - m \in Idx(n) /\ m + (k - m) = k
      BY <2>2 DEF Idx
    <3> QED BY <3>1
  <2> QED BY <2>1, <2>2
<1>2. Sum(m + n, f) = Plus(Sum(m, f), Sum(n, g))
  BY <1>1, SumSplit
<1> QED BY <1>2, SumZero, SumType, Ring

LEMMA SumUpTo ==
  ASSUME NEW m \in Nat, NEW n \in Nat, NEW f, \A k \in Idx(m) : f[k] \in F,
         \A k \in m .. (m + n) - 1 : f[k] = Zero
  PROVE  Sum(m + n, f) = Sum(m, f)
<1> DEFINE g == [k \in Idx(n) |-> f[m + k]]
<1>1. \A k \in Idx(n) : g[k] = Zero
  BY DEF Idx
<1>2. \A k \in Idx(m + n) : f[k] \in F
  BY Ring DEF Idx
<1>3. Sum(m + n, f) = Plus(Sum(m, f), Sum(n, g))
  <2>1. \A k \in Idx(n) : g[k] = f[m + k]
    OBVIOUS
  <2> HIDE DEF g
  <2> QED BY <1>2, <2>1, SumSplit
<1>4. Sum(n, g) = Zero
  <2> HIDE DEF g
  <2> QED BY <1>1, SumZero
<1> QED BY <1>3, <1>4, SumType, Ring

(* The order of two sums does not matter. *)
LEMMA SumSwap ==
  ASSUME NEW m \in Nat, NEW n \in Nat, NEW h, \A i \in Idx(m), j \in Idx(n) : h[i][j] \in F
  PROVE  Sum(m, [i \in Idx(m) |-> Sum(n, [j \in Idx(n) |-> h[i][j]])])
         = Sum(n, [j \in Idx(n) |-> Sum(m, [i \in Idx(m) |-> h[i][j]])])
<1> DEFINE col(j) == [i \in Idx(m) |-> h[i][j]]
           row(i) == [j \in Idx(n) |-> h[i][j]]
           f == [i \in Idx(m) |-> Sum(n, row(i))]
           part(i) == [j \in Idx(n) |-> Sum(i, col(j))]
           q == [i \in 0 .. m |-> Sum(n, part(i))]
<1>1. \A i \in Idx(m) : f[i] = Sum(n, row(i)) /\ f[i] \in F
  <2>1. TAKE i \in Idx(m)
  <2>2. \A j \in Idx(n) : row(i)[j] \in F
    OBVIOUS
  <2>3. Sum(n, row(i)) \in F
    <3> HIDE DEF row
    <3> QED BY <2>2, SumType
  <2> QED BY <2>3
<1>2. ASSUME NEW i \in 0 .. m, NEW j \in Idx(n) PROVE Sum(i, col(j)) \in F
  <2>1. i \in Nat /\ \A l \in Idx(i) : col(j)[l] \in F
    BY DEF Idx
  <2> HIDE DEF col
  <2> QED BY <2>1, SumType
<1>3. q[0] = Zero
  <2>1. \A j \in Idx(n) : part(0)[j] = Zero
    <3> HIDE DEF col
    <3> QED BY SumNone
  <2>2. q[0] = Sum(n, part(0))
    OBVIOUS
  <2> HIDE DEF q, part
  <2> QED BY <2>1, <2>2, SumZero
<1>4. ASSUME NEW i \in Idx(m) PROVE q[i + 1] = Plus(q[i], f[i])
  <2>1. i \in Nat /\ i \in 0 .. m /\ i + 1 \in 0 .. m
    BY DEF Idx
  <2>2. ASSUME NEW j \in Idx(n) PROVE part(i + 1)[j] = Plus(part(i)[j], row(i)[j])
    <3>1. (\A l \in 0 .. i : col(j)[l] \in F) /\ col(j)[i] = row(i)[j]
      BY DEF Idx
    <3>2. Sum(i + 1, col(j)) = Plus(Sum(i, col(j)), col(j)[i])
      <4> HIDE DEF col, row
      <4> QED BY <2>1, <3>1, SumStep
    <3> QED BY <3>1, <3>2
  <2>3. \A j \in Idx(n) : part(i)[j] \in F /\ row(i)[j] \in F
    <3>1. \A j \in Idx(n) : part(i)[j] \in F
      <4> HIDE DEF col
      <4> QED BY <1>2, <2>1
    <3>2. \A j \in Idx(n) : row(i)[j] \in F
      OBVIOUS
    <3> QED BY <3>1, <3>2
  <2>4. q[i + 1] = Sum(n, part(i + 1)) /\ q[i] = Sum(n, part(i)) /\ f[i] = Sum(n, row(i))
    BY <2>1
  <2> HIDE DEF part, row, q, f
  <2> QED BY <2>2, <2>3, <2>4, SumPlus
<1>5. Sum(m, f) = q[m]
  <2> HIDE DEF f, q
  <2> QED BY <1>1, <1>3, <1>4, SumIs
<1>6. q[m] = Sum(n, part(m))
  OBVIOUS
<1> QED BY <1>5, <1>6

-----------------------------------------------------------------------------
(* Vectors, matrices as functions to rows, and bilinear forms.             *)
Vec(n) == [Idx(n) -> F]
Mats(m, n) == [Idx(m) -> Vec(n)]
Inner(n, x, z) == Sum(n, [k \in Idx(n) |-> Times(x[k], z[k])])
Apply(m, n, A, x) == [i \in Idx(m) |-> Inner(n, A[i], x)]
Transposed(m, n, A) == [j \in Idx(n) |-> [i \in Idx(m) |-> A[i][j]]]
VecAdd(n, x, z) == [k \in Idx(n) |-> Plus(x[k], z[k])]
MatAdd(m, n, A, B) == [i \in Idx(m) |-> VecAdd(n, A[i], B[i])]
MatProduct(m, n, p, A, B) == [i \in Idx(m) |-> Apply(p, n, Transposed(n, p, B), A[i])]
ZeroVec(n) == [k \in Idx(n) |-> Zero]

LEMMA InnerTerms ==
  ASSUME NEW n \in Nat, NEW x \in Vec(n), NEW z \in Vec(n)
  PROVE  \A k \in Idx(n) : Times(x[k], z[k]) \in F /\ x[k] \in F /\ z[k] \in F
  BY Ring DEF Vec

LEMMA InnerType ==
  ASSUME NEW n \in Nat, NEW x \in Vec(n), NEW z \in Vec(n)
  PROVE  Inner(n, x, z) \in F
<1> DEFINE f == [k \in Idx(n) |-> Times(x[k], z[k])]
<1>1. \A k \in Idx(n) : f[k] \in F
  BY InnerTerms
<1>2. Sum(n, f) \in F
  <2> HIDE DEF f
  <2> QED BY <1>1, SumType
<1> QED BY <1>2 DEF Inner

(* And symmetric. *)
LEMMA InnerSymmetric ==
  ASSUME NEW n \in Nat, NEW x \in Vec(n), NEW z \in Vec(n)
  PROVE  Inner(n, x, z) = Inner(n, z, x)
<1> DEFINE f == [k \in Idx(n) |-> Times(x[k], z[k])]
           g == [k \in Idx(n) |-> Times(z[k], x[k])]
<1>1. f = g
  BY InnerTerms, Commutes
<1> QED BY <1>1 DEF Inner

LEMMA VecAddType ==
  ASSUME NEW n \in Nat, NEW x \in Vec(n), NEW z \in Vec(n)
  PROVE  VecAdd(n, x, z) \in Vec(n)
  BY Ring DEF Vec, VecAdd

(* An inner product is linear in each of its arguments. *)
LEMMA InnerPlus ==
  ASSUME NEW n \in Nat, NEW x \in Vec(n), NEW a \in Vec(n), NEW b \in Vec(n)
  PROVE  /\ Inner(n, x, VecAdd(n, a, b)) = Plus(Inner(n, x, a), Inner(n, x, b))
         /\ Inner(n, VecAdd(n, a, b), x) = Plus(Inner(n, a, x), Inner(n, b, x))
<1> DEFINE c == VecAdd(n, a, b)
           f == [k \in Idx(n) |-> Times(x[k], a[k])]
           g == [k \in Idx(n) |-> Times(x[k], b[k])]
           h == [k \in Idx(n) |-> Times(x[k], c[k])]
<1>1. \A k \in Idx(n) : c[k] = Plus(a[k], b[k])
  BY DEF VecAdd
<1>2. \A k \in Idx(n) : f[k] \in F /\ g[k] \in F /\ h[k] = Plus(f[k], g[k])
  <2> HIDE DEF c
  <2>1. TAKE k \in Idx(n)
  <2>2. x[k] \in F /\ a[k] \in F /\ b[k] \in F
    BY InnerTerms
  <2>3. Times(x[k], Plus(a[k], b[k])) = Plus(Times(x[k], a[k]), Times(x[k], b[k]))
    BY <2>2, Distributes
  <2> QED BY <1>1, <2>2, <2>3, Ring
<1>3. Sum(n, h) = Plus(Sum(n, f), Sum(n, g))
  <2> HIDE DEF f, g, h
  <2> QED BY <1>2, SumPlus
<1>4. Inner(n, x, c) = Plus(Inner(n, x, a), Inner(n, x, b))
  BY <1>3 DEF Inner
<1>5. Inner(n, c, x) = Inner(n, x, c) /\ Inner(n, a, x) = Inner(n, x, a) /\ Inner(n, b, x) = Inner(n, x, b)
  <2>1. c \in Vec(n)
    BY VecAddType
  <2> HIDE DEF c
  <2> QED BY <2>1, InnerSymmetric
<1> QED BY <1>4, <1>5

LEMMA ZeroVecType == ASSUME NEW n \in Nat PROVE ZeroVec(n) \in Vec(n)
  BY Ring DEF ZeroVec, Vec

LEMMA InnerZero ==
  ASSUME NEW n \in Nat, NEW x \in Vec(n)
  PROVE  Inner(n, x, ZeroVec(n)) = Zero /\ Inner(n, ZeroVec(n), x) = Zero
<1> DEFINE f == [k \in Idx(n) |-> Times(x[k], ZeroVec(n)[k])]
<1>1. \A k \in Idx(n) : f[k] = Zero
  BY TimesZero DEF ZeroVec, Vec
<1>2. Sum(n, f) = Zero
  <2> HIDE DEF f
  <2> QED BY <1>1, SumZero
<1>3. Inner(n, x, ZeroVec(n)) = Zero
  BY <1>2 DEF Inner
<1> QED BY <1>3, ZeroVecType, InnerSymmetric

LEMMA MatRow ==
  ASSUME NEW m \in Nat, NEW n \in Nat, NEW A \in Mats(m, n), NEW i \in Idx(m)
  PROVE  A[i] \in Vec(n) /\ \A j \in Idx(n) : A[i][j] \in F
  BY DEF Mats, Vec

(* What the operations on matrices return, entry by entry. *)
LEMMA ApplyType ==
  ASSUME NEW m \in Nat, NEW n \in Nat, NEW A \in Mats(m, n), NEW x \in Vec(n)
  PROVE  /\ Apply(m, n, A, x) \in Vec(m)
         /\ \A i \in Idx(m) : Apply(m, n, A, x)[i] = Inner(n, A[i], x)
<1>1. ASSUME NEW i \in Idx(m) PROVE Inner(n, A[i], x) \in F
  BY MatRow, InnerType
<1> QED BY <1>1 DEF Apply, Vec

LEMMA TransposedType ==
  ASSUME NEW m \in Nat, NEW n \in Nat, NEW A \in Mats(m, n)
  PROVE  /\ Transposed(m, n, A) \in Mats(n, m)
         /\ \A j \in Idx(n), i \in Idx(m) : Transposed(m, n, A)[j][i] = A[i][j]
         /\ Transposed(n, m, Transposed(m, n, A)) = A
<1> DEFINE T == Transposed(m, n, A)
<1>1. \A j \in Idx(n), i \in Idx(m) : T[j][i] = A[i][j] /\ A[i][j] \in F
  BY MatRow DEF Transposed
<1>2. T \in Mats(n, m)
  BY MatRow DEF Transposed, Mats, Vec
<1>3. Transposed(n, m, T) = A
  <2>1. A \in [Idx(m) -> [Idx(n) -> F]]
    BY DEF Mats, Vec
  <2>2. ASSUME NEW i \in Idx(m) PROVE A[i] = [j \in Idx(n) |-> T[j][i]]
    <3>1. A[i] \in [Idx(n) -> F]
      BY <2>1
    <3> HIDE DEF T
    <3> QED BY <3>1, <1>1
  <2> HIDE DEF T
  <2> QED BY <2>1, <2>2 DEF Transposed
<1> QED BY <1>1, <1>2, <1>3

LEMMA MatAddType ==
  ASSUME NEW m \in Nat, NEW n \in Nat, NEW A \in Mats(m, n), NEW B \in Mats(m, n)
  PROVE  /\ MatAdd(m, n, A, B) \in Mats(m, n)
         /\ \A i \in Idx(m), j \in Idx(n) : MatAdd(m, n, A, B)[i][j] = Plus(A[i][j], B[i][j])
<1>1. \A i \in Idx(m) : VecAdd(n, A[i], B[i]) \in Vec(n)
  BY MatRow, VecAddType
<1> QED BY <1>1 DEF MatAdd, Mats, VecAdd

LEMMA ProductType ==
  ASSUME NEW m \in Nat, NEW n \in Nat, NEW p \in Nat, NEW A \in Mats(m, n), NEW B \in Mats(n, p)
  PROVE  MatProduct(m, n, p, A, B) \in Mats(m, p)
<1>1. Transposed(n, p, B) \in Mats(p, n)
  BY TransposedType
<1>2. \A i \in Idx(m) : Apply(p, n, Transposed(n, p, B), A[i]) \in Vec(p)
  BY <1>1, MatRow, ApplyType
<1> QED BY <1>2 DEF MatProduct, Mats

(* A matrix acts linearly, and so does a sum of matrices. *)
LEMMA ApplyPlus ==
  ASSUME NEW m \in Nat, NEW n \in Nat, NEW A \in Mats(m, n), NEW B \in Mats(m, n),
         NEW x \in Vec(n), NEW z \in Vec(n)
  PROVE  /\ Apply(m, n, MatAdd(m, n, A, B), x) = VecAdd(m, Apply(m, n, A, x), Apply(m, n, B, x))
         /\ Apply(m, n, A, VecAdd(n, x, z)) = VecAdd(m, Apply(m, n, A, x), Apply(m, n, A, z))
<1>1. ASSUME NEW i \in Idx(m)
      PROVE  /\ Inner(n, VecAdd(n, A[i], B[i]), x) = Plus(Inner(n, A[i], x), Inner(n, B[i], x))
             /\ Inner(n, A[i], VecAdd(n, x, z)) = Plus(Inner(n, A[i], x), Inner(n, A[i], z))
  BY MatRow, InnerPlus
<1>2. \A i \in Idx(m) : MatAdd(m, n, A, B)[i] = VecAdd(n, A[i], B[i])
  BY DEF MatAdd
<1> QED BY <1>1, <1>2 DEF Apply, VecAdd

(* A matrix may change sides of an inner product. *)
LEMMA Adjoint ==
  ASSUME NEW m \in Nat, NEW n \in Nat, NEW A \in Mats(m, n), NEW x \in Vec(m), NEW z \in Vec(n)
  PROVE  Inner(m, x, Apply(m, n, A, z)) = Inner(n, Apply(n, m, Transposed(m, n, A), x), z)
<1> DEFINE h == [i \in Idx(m) |-> [j \in Idx(n) |-> Times(Times(A[i][j], x[i]), z[j])]]
           T == Transposed(m, n, A)
<1>1. \A i \in Idx(m), j \in Idx(n) :
         /\ A[i][j] \in F /\ x[i] \in F /\ z[j] \in F
         /\ h[i][j] = Times(Times(A[i][j], x[i]), z[j])
         /\ h[i][j] = Times(Times(A[i][j], z[j]), x[i])
         /\ h[i][j] \in F
  <2>1. TAKE i \in Idx(m), j \in Idx(n)
  <2>2. A[i][j] \in F /\ x[i] \in F /\ z[j] \in F
    BY MatRow DEF Vec
  <2>3. h[i][j] = Times(Times(A[i][j], x[i]), z[j])
    OBVIOUS
  <2> HIDE DEF h
  <2>4. /\ Times(Times(A[i][j], x[i]), z[j]) = Times(A[i][j], Times(x[i], z[j]))
        /\ Times(Times(A[i][j], z[j]), x[i]) = Times(A[i][j], Times(z[j], x[i]))
    BY <2>2, TimesAssoc
  <2>5. Times(x[i], z[j]) = Times(z[j], x[i])
    BY <2>2, Commutes
  <2> QED BY <2>2, <2>3, <2>4, <2>5, Ring
<1> HIDE DEF h
<1>2. Inner(m, x, Apply(m, n, A, z)) = Sum(m, [i \in Idx(m) |-> Sum(n, [j \in Idx(n) |-> h[i][j]])])
  <2> DEFINE f(i) == [j \in Idx(n) |-> Times(A[i][j], z[j])]
             g(i) == [j \in Idx(n) |-> h[i][j]]
  <2>1. ASSUME NEW i \in Idx(m) PROVE Times(x[i], Apply(m, n, A, z)[i]) = Sum(n, g(i))
    <3>1. \A j \in Idx(n) : f(i)[j] \in F /\ g(i)[j] = Times(f(i)[j], x[i])
      BY <1>1, Ring
    <3>2. x[i] \in F /\ A[i] \in Vec(n)
      BY MatRow DEF Vec
    <3>3. Inner(n, A[i], z) = Sum(n, f(i)) /\ Inner(n, A[i], z) \in F
      BY <3>2, InnerType DEF Inner
    <3> HIDE DEF f, g
    <3>4. Sum(n, g(i)) = Times(Sum(n, f(i)), x[i])
      BY <3>1, <3>2, SumTimes
    <3>5. Apply(m, n, A, z)[i] = Inner(n, A[i], z)
      BY ApplyType
    <3> QED BY <3>2, <3>3, <3>4, <3>5, Commutes
  <2>2. [i \in Idx(m) |-> Times(x[i], Apply(m, n, A, z)[i])] = [i \in Idx(m) |-> Sum(n, g(i))]
    <3> HIDE DEF g
    <3> QED BY <2>1
  <2> QED BY <2>2 DEF Inner
<1>3. Inner(n, Apply(n, m, T, x), z) = Sum(n, [j \in Idx(n) |-> Sum(m, [i \in Idx(m) |-> h[i][j]])])
  <2> DEFINE f(j) == [i \in Idx(m) |-> Times(T[j][i], x[i])]
             g(j) == [i \in Idx(m) |-> h[i][j]]
  <2>1. ASSUME NEW j \in Idx(n) PROVE Times(Apply(n, m, T, x)[j], z[j]) = Sum(m, g(j))
    <3>0. \A i \in Idx(m) : T[j][i] = A[i][j]
      BY TransposedType
    <3>1. \A i \in Idx(m) : f(j)[i] \in F /\ g(j)[i] = Times(f(j)[i], z[j])
      <4> HIDE DEF T
      <4> QED BY <1>1, <3>0, Ring
    <3>2. z[j] \in F
      BY DEF Vec
    <3>3. Apply(n, m, T, x)[j] = Sum(m, f(j))
      BY DEF Apply, Inner
    <3> HIDE DEF f, g, T
    <3> QED BY <3>1, <3>2, <3>3, SumTimes
  <2>2. [j \in Idx(n) |-> Times(Apply(n, m, T, x)[j], z[j])] = [j \in Idx(n) |-> Sum(m, g(j))]
    <3> HIDE DEF g, T
    <3> QED BY <2>1
  <2> QED BY <2>2 DEF Inner
<1>4. \A i \in Idx(m), j \in Idx(n) : h[i][j] \in F
  BY <1>1
<1> QED BY <1>2, <1>3, <1>4, SumSwap

(* A product acts as its factors one after the other. *)
LEMMA ApplyProduct ==
  ASSUME NEW m \in Nat, NEW n \in Nat, NEW p \in Nat,
         NEW A \in Mats(m, n), NEW B \in Mats(n, p), NEW z \in Vec(p)
  PROVE  Apply(m, p, MatProduct(m, n, p, A, B), z) = Apply(m, n, A, Apply(n, p, B, z))
<1>1. ASSUME NEW i \in Idx(m)
      PROVE  Inner(p, MatProduct(m, n, p, A, B)[i], z) = Inner(n, A[i], Apply(n, p, B, z))
  <2>1. A[i] \in Vec(n)
    BY MatRow
  <2>2. Inner(n, A[i], Apply(n, p, B, z)) = Inner(p, Apply(p, n, Transposed(n, p, B), A[i]), z)
    BY <2>1, Adjoint
  <2>3. MatProduct(m, n, p, A, B)[i] = Apply(p, n, Transposed(n, p, B), A[i])
    BY DEF MatProduct
  <2> QED BY <2>2, <2>3
<1> QED BY <1>1 DEF Apply

-----------------------------------------------------------------------------
(* The algebra of the scheme at one equation: A is the upper triangular P1, *)
(* D is P2, B is O.                                                        *)
Sums ==
  \A vv, vu, uv, uu, dv, du \in F :
    Plus(Plus(Plus(vv, vu), Plus(uv, uu)), Plus(Plus(dv, du), Plus(du, uu)))
    = Plus(vv, Plus(Plus(dv, vu), uv))

(* The terms that cancel when P3 is folded into the public map. *)
LEMMA SumsHold == Sums
<1> SUFFICES ASSUME NEW vv \in F, NEW vu \in F, NEW uv \in F, NEW uu \in F, NEW dv \in F, NEW du \in F
             PROVE  Plus(Plus(Plus(vv, vu), Plus(uv, uu)), Plus(Plus(dv, du), Plus(du, uu)))
                    = Plus(vv, Plus(Plus(dv, vu), uv))
  BY DEF Sums
<1>1. Plus(Plus(dv, du), Plus(du, uu)) = Plus(dv, uu)
  <2>1. Plus(Plus(dv, du), Plus(du, uu)) = Plus(dv, Plus(du, Plus(du, uu)))
    BY PlusAssoc, Ring
  <2>2. Plus(du, Plus(du, uu)) = uu
    BY PlusAssoc, Ring
  <2> QED BY <2>1, <2>2
<1>2. Plus(Plus(uv, uu), Plus(dv, uu)) = Plus(uv, dv)
  <2>1. Plus(Plus(uv, uu), Plus(dv, uu)) = Plus(Plus(uv, dv), Plus(uu, uu))
    BY Interchange
  <2> QED BY <2>1, Ring
<1>3. Plus(Plus(Plus(vv, vu), Plus(uv, uu)), Plus(dv, uu))
      = Plus(Plus(vv, vu), Plus(Plus(uv, uu), Plus(dv, uu)))
  <2>1. Plus(vv, vu) \in F /\ Plus(uv, uu) \in F /\ Plus(dv, uu) \in F
    BY Ring
  <2> QED BY <2>1, PlusAssoc
<1>4. Plus(Plus(vv, vu), Plus(uv, dv)) = Plus(vv, Plus(vu, Plus(uv, dv)))
  BY PlusAssoc, Ring
<1>5. Plus(vu, Plus(uv, dv)) = Plus(Plus(dv, vu), uv)
  <2>1. Plus(vu, Plus(uv, dv)) = Plus(vu, Plus(dv, uv))
    BY Commutes
  <2>2. Plus(vu, Plus(dv, uv)) = Plus(Plus(vu, dv), uv)
    BY PlusAssoc
  <2>3. Plus(vu, dv) = Plus(dv, vu)
    BY Commutes
  <2> QED BY <2>1, <2>2, <2>3
<1> QED BY <1>1, <1>2, <1>3, <1>4, <1>5

(* F1 * T1 + F2, the S of the finished key, and P3 before it is folded.    *)
HalfS(m, n, A, D, B) == MatAdd(m, n, D, MatProduct(m, m, n, A, B))
FullS(m, n, A, D, B) ==
  MatAdd(m, n, HalfS(m, n, A, D, B), MatProduct(m, m, n, Transposed(m, m, A), B))
Square(m, n, A, D, B) == MatProduct(n, m, n, Transposed(m, n, B), HalfS(m, n, A, D, B))

(* The public map of a vector z over the vinegar and x over the oil part.  *)
Quad(m, n, A, D, B, z, x) ==
  Plus(Inner(m, z, Apply(m, m, A, z)),
       Plus(Inner(m, z, Apply(m, n, D, x)),
            Inner(n, x, Apply(n, n, Square(m, n, A, D, B), x))))

Sizes(m, n, A, D, B) ==
  m \in Nat /\ n \in Nat /\ A \in Mats(m, m) /\ D \in Mats(m, n) /\ B \in Mats(m, n)

(* The dimensions of the three. *)
LEMMA STypes ==
  ASSUME NEW m, NEW n, NEW A, NEW D, NEW B, Sizes(m, n, A, D, B)
  PROVE  /\ MatProduct(m, m, n, A, B) \in Mats(m, n)
         /\ MatProduct(m, m, n, Transposed(m, m, A), B) \in Mats(m, n)
         /\ HalfS(m, n, A, D, B) \in Mats(m, n)
         /\ FullS(m, n, A, D, B) \in Mats(m, n)
         /\ Square(m, n, A, D, B) \in Mats(n, n)
<1>1. m \in Nat /\ n \in Nat /\ A \in Mats(m, m) /\ D \in Mats(m, n) /\ B \in Mats(m, n)
  BY DEF Sizes
<1>2. MatProduct(m, m, n, A, B) \in Mats(m, n)
  BY <1>1, ProductType
<1>3. Transposed(m, m, A) \in Mats(m, m) /\ Transposed(m, n, B) \in Mats(n, m)
  BY <1>1, TransposedType
<1>4. MatProduct(m, m, n, Transposed(m, m, A), B) \in Mats(m, n)
  BY <1>1, <1>3, ProductType
<1>5. HalfS(m, n, A, D, B) \in Mats(m, n)
  BY <1>1, <1>2, MatAddType DEF HalfS
<1>6. FullS(m, n, A, D, B) \in Mats(m, n)
  BY <1>1, <1>4, <1>5, MatAddType DEF FullS
<1>7. Square(m, n, A, D, B) \in Mats(n, n)
  BY <1>1, <1>3, <1>5, ProductType DEF Square
<1> QED BY <1>2, <1>4, <1>5, <1>6, <1>7

(* S, as a form of the vinegar and the oil part. *)
LEMMA SForms ==
  ASSUME NEW m, NEW n, NEW A, NEW D, NEW B, Sizes(m, n, A, D, B),
         NEW q \in Vec(m), NEW x \in Vec(n)
  PROVE  /\ Inner(m, q, Apply(m, n, HalfS(m, n, A, D, B), x))
            = Plus(Inner(m, q, Apply(m, n, D, x)), Inner(m, q, Apply(m, m, A, Apply(m, n, B, x))))
         /\ Inner(m, q, Apply(m, n, FullS(m, n, A, D, B), x))
            = Plus(Inner(m, q, Apply(m, n, HalfS(m, n, A, D, B), x)),
                   Inner(m, Apply(m, n, B, x), Apply(m, m, A, q)))
<1> DEFINE u == Apply(m, n, B, x)
           T == Transposed(m, m, A)
           AB == MatProduct(m, m, n, A, B)
           TB == MatProduct(m, m, n, T, B)
           H == HalfS(m, n, A, D, B)
<1>1. m \in Nat /\ n \in Nat /\ A \in Mats(m, m) /\ D \in Mats(m, n) /\ B \in Mats(m, n)
  BY DEF Sizes
<1>2. AB \in Mats(m, n) /\ TB \in Mats(m, n) /\ H \in Mats(m, n)
  BY STypes
<1>3. u \in Vec(m)
  BY <1>1, ApplyType
<1>4. T \in Mats(m, m) /\ Transposed(m, m, T) = A
  BY <1>1, TransposedType
<1>5. Apply(m, n, AB, x) = Apply(m, m, A, u)
  BY <1>1, ApplyProduct
<1>6. Apply(m, n, TB, x) = Apply(m, m, T, u)
  <2> HIDE DEF T
  <2> QED BY <1>1, <1>4, ApplyProduct
<1>7. Apply(m, n, H, x) = VecAdd(m, Apply(m, n, D, x), Apply(m, m, A, u))
  <2>1. H = MatAdd(m, n, D, AB)
    BY DEF HalfS
  <2> HIDE DEF H, AB, u
  <2> QED BY <2>1, <1>1, <1>2, <1>5, ApplyPlus
<1>8. Apply(m, n, FullS(m, n, A, D, B), x) = VecAdd(m, Apply(m, n, H, x), Apply(m, m, T, u))
  <2>1. FullS(m, n, A, D, B) = MatAdd(m, n, H, TB)
    BY DEF FullS
  <2> HIDE DEF H, TB, u, T
  <2> QED BY <2>1, <1>1, <1>2, <1>6, ApplyPlus
<1>9. /\ Apply(m, n, D, x) \in Vec(m) /\ Apply(m, m, A, u) \in Vec(m)
      /\ Apply(m, n, H, x) \in Vec(m) /\ Apply(m, m, T, u) \in Vec(m) /\ Apply(m, m, A, q) \in Vec(m)
  <2> HIDE DEF H, T, u
  <2> QED BY <1>1, <1>2, <1>3, <1>4, ApplyType
<1>10. Inner(m, q, Apply(m, m, T, u)) = Inner(m, u, Apply(m, m, A, q))
  <2> HIDE DEF T, u
  <2>1. Inner(m, q, Apply(m, m, T, u)) = Inner(m, Apply(m, m, A, q), u)
    BY <1>1, <1>3, <1>4, Adjoint
  <2> QED BY <2>1, <1>1, <1>3, <1>9, InnerSymmetric
<1> HIDE DEF H, T, u
<1>11. Inner(m, q, Apply(m, n, H, x)) = Plus(Inner(m, q, Apply(m, n, D, x)), Inner(m, q, Apply(m, m, A, u)))
  BY <1>1, <1>7, <1>9, InnerPlus
<1>12. Inner(m, q, Apply(m, n, FullS(m, n, A, D, B), x))
       = Plus(Inner(m, q, Apply(m, n, H, x)), Inner(m, u, Apply(m, m, A, q)))
  BY <1>1, <1>8, <1>9, <1>10, InnerPlus
<1> QED BY <1>11, <1>12 DEF H, u

(* The public map of v plus an oil vector is what v alone contributes plus *)
(* a part that is linear in the oil part, with S as its matrix.            *)
LEMMA QuadIs ==
  ASSUME NEW m, NEW n, NEW A, NEW D, NEW B, Sizes(m, n, A, D, B),
         NEW v \in Vec(m), NEW x \in Vec(n)
  PROVE  Quad(m, n, A, D, B, VecAdd(m, v, Apply(m, n, B, x)), x)
         = Plus(Inner(m, v, Apply(m, m, A, v)), Inner(m, v, Apply(m, n, FullS(m, n, A, D, B), x)))
<1> DEFINE u == Apply(m, n, B, x)
           z == VecAdd(m, v, u)
           H == HalfS(m, n, A, D, B)
           T == Transposed(m, n, B)
           Av == Apply(m, m, A, v)
           Au == Apply(m, m, A, u)
           Dx == Apply(m, n, D, x)
           Hx == Apply(m, n, H, x)
<1>1. m \in Nat /\ n \in Nat /\ A \in Mats(m, m) /\ D \in Mats(m, n) /\ B \in Mats(m, n)
  BY DEF Sizes
<1>2. H \in Mats(m, n)
  BY STypes
<1>3. u \in Vec(m)
  BY <1>1, ApplyType
<1>4. T \in Mats(n, m) /\ Transposed(n, m, T) = B
  BY <1>1, TransposedType
<1> HIDE DEF u, H, T
<1>5. Av \in Vec(m) /\ Au \in Vec(m) /\ Dx \in Vec(m) /\ Hx \in Vec(m)
  BY <1>1, <1>2, <1>3, ApplyType
<1>6. Apply(m, m, A, z) = VecAdd(m, Av, Au)
  BY <1>1, <1>3, ApplyPlus
<1>7. VecAdd(m, Av, Au) \in Vec(m)
  BY <1>1, <1>5, VecAddType
<1>8. Inner(n, x, Apply(n, n, Square(m, n, A, D, B), x)) = Inner(m, u, Hx)
  <2>1. Square(m, n, A, D, B) = MatProduct(n, m, n, T, H)
    BY DEF Square, T, H
  <2>2. Apply(n, n, MatProduct(n, m, n, T, H), x) = Apply(n, m, T, Hx)
    BY <1>1, <1>2, <1>4, ApplyProduct
  <2>3. Inner(n, x, Apply(n, m, T, Hx)) = Inner(m, Apply(m, n, B, x), Hx)
    BY <1>1, <1>4, <1>5, Adjoint
  <2> QED BY <2>1, <2>2, <2>3 DEF u
<1> HIDE DEF Av, Au, Dx, Hx
<1>9. Inner(m, z, Apply(m, m, A, z))
      = Plus(Plus(Inner(m, v, Av), Inner(m, v, Au)), Plus(Inner(m, u, Av), Inner(m, u, Au)))
  <2>1. Inner(m, z, VecAdd(m, Av, Au)) = Plus(Inner(m, v, VecAdd(m, Av, Au)), Inner(m, u, VecAdd(m, Av, Au)))
    BY <1>1, <1>3, <1>7, InnerPlus
  <2>2. /\ Inner(m, v, VecAdd(m, Av, Au)) = Plus(Inner(m, v, Av), Inner(m, v, Au))
        /\ Inner(m, u, VecAdd(m, Av, Au)) = Plus(Inner(m, u, Av), Inner(m, u, Au))
    BY <1>1, <1>3, <1>5, InnerPlus
  <2> QED BY <1>6, <2>1, <2>2
<1>10. Inner(m, z, Dx) = Plus(Inner(m, v, Dx), Inner(m, u, Dx))
  BY <1>1, <1>3, <1>5, InnerPlus
<1> HIDE DEF z
<1>11. /\ Inner(m, u, Hx) = Plus(Inner(m, u, Dx), Inner(m, u, Au))
       /\ Inner(m, v, Hx) = Plus(Inner(m, v, Dx), Inner(m, v, Au))
       /\ Inner(m, v, Apply(m, n, FullS(m, n, A, D, B), x)) = Plus(Inner(m, v, Hx), Inner(m, u, Av))
  BY <1>3, SForms DEF u, Hx, Dx, Au, Av, H
<1>12. /\ Inner(m, v, Av) \in F /\ Inner(m, v, Au) \in F /\ Inner(m, u, Av) \in F
       /\ Inner(m, u, Au) \in F /\ Inner(m, v, Dx) \in F /\ Inner(m, u, Dx) \in F
  BY <1>1, <1>3, <1>5, InnerType
<1>13. Plus(Plus(Plus(Inner(m, v, Av), Inner(m, v, Au)), Plus(Inner(m, u, Av), Inner(m, u, Au))),
            Plus(Plus(Inner(m, v, Dx), Inner(m, u, Dx)), Plus(Inner(m, u, Dx), Inner(m, u, Au))))
       = Plus(Inner(m, v, Av), Plus(Plus(Inner(m, v, Dx), Inner(m, v, Au)), Inner(m, u, Av)))
  BY <1>12, SumsHold DEF Sums
<1>14. Quad(m, n, A, D, B, z, x)
       = Plus(Inner(m, z, Apply(m, m, A, z)), Plus(Inner(m, z, Dx), Inner(m, u, Hx)))
  BY <1>8 DEF Quad, Dx
<1>15. Quad(m, n, A, D, B, z, x)
       = Plus(Inner(m, v, Av), Inner(m, v, Apply(m, n, FullS(m, n, A, D, B), x)))
  BY <1>9, <1>10, <1>11, <1>13, <1>14
<1> QED BY <1>15 DEF z, u, Av

(* It vanishes on the oil space. *)
LEMMA QuadVanishes ==
  ASSUME NEW m, NEW n, NEW A, NEW D, NEW B, Sizes(m, n, A, D, B), NEW x \in Vec(n)
  PROVE  Quad(m, n, A, D, B, VecAdd(m, ZeroVec(m), Apply(m, n, B, x)), x) = Zero
<1>1. m \in Nat /\ n \in Nat /\ A \in Mats(m, m)
  BY DEF Sizes
<1>2. ZeroVec(m) \in Vec(m)
  BY <1>1, ZeroVecType
<1>3. FullS(m, n, A, D, B) \in Mats(m, n)
  BY STypes
<1>4. Apply(m, m, A, ZeroVec(m)) \in Vec(m) /\ Apply(m, n, FullS(m, n, A, D, B), x) \in Vec(m)
  BY <1>1, <1>2, <1>3, ApplyType
<1>5. /\ Inner(m, ZeroVec(m), Apply(m, m, A, ZeroVec(m))) = Zero
      /\ Inner(m, ZeroVec(m), Apply(m, n, FullS(m, n, A, D, B), x)) = Zero
  BY <1>1, <1>4, InnerZero
<1> QED BY <1>2, <1>5, QuadIs, Ring

(* The part linear in x from P2 and P1, without S. *)
LEMMA LinearPart ==
  ASSUME NEW m, NEW n, NEW A, NEW D, NEW B, Sizes(m, n, A, D, B),
         NEW v \in Vec(m), NEW x \in Vec(n)
  PROVE  Inner(m, v, Apply(m, n, FullS(m, n, A, D, B), x))
         = Plus(Inner(m, v, Apply(m, n, D, x)),
                Inner(m, Apply(m, m, MatAdd(m, m, A, Transposed(m, m, A)), v), Apply(m, n, B, x)))
<1> DEFINE u == Apply(m, n, B, x)
           T == Transposed(m, m, A)
           Av == Apply(m, m, A, v)
           Tv == Apply(m, m, T, v)
           Dx == Apply(m, n, D, x)
           Au == Apply(m, m, A, u)
<1>1. m \in Nat /\ n \in Nat /\ A \in Mats(m, m) /\ D \in Mats(m, n) /\ B \in Mats(m, n)
  BY DEF Sizes
<1>2. T \in Mats(m, m)
  BY <1>1, TransposedType
<1>3. u \in Vec(m)
  BY <1>1, ApplyType
<1>4. Apply(m, m, MatAdd(m, m, A, T), v) = VecAdd(m, Av, Tv)
  <2> HIDE DEF T
  <2> QED BY <1>1, <1>2, ApplyPlus
<1>5. Inner(m, Tv, u) = Inner(m, v, Au)
  <2>1. Inner(m, v, Apply(m, m, A, u)) = Inner(m, Apply(m, m, T, v), u)
    <3> HIDE DEF u
    <3> QED BY <1>1, <1>3, Adjoint
  <2> QED BY <2>1
<1>6. Av \in Vec(m) /\ Tv \in Vec(m) /\ Dx \in Vec(m) /\ Au \in Vec(m)
  <2> HIDE DEF T, u
  <2> QED BY <1>1, <1>2, <1>3, ApplyType
<1>7. Inner(m, v, Apply(m, n, FullS(m, n, A, D, B), x))
      = Plus(Plus(Inner(m, v, Dx), Inner(m, v, Au)), Inner(m, u, Av))
  BY SForms
<1> HIDE DEF u, T, Av, Tv, Dx, Au
<1>8. Inner(m, VecAdd(m, Av, Tv), u) = Plus(Inner(m, Av, u), Inner(m, Tv, u))
  BY <1>1, <1>3, <1>6, InnerPlus
<1>9. Inner(m, Av, u) = Inner(m, u, Av)
  BY <1>1, <1>3, <1>6, InnerSymmetric
<1>10. Inner(m, v, Dx) \in F /\ Inner(m, v, Au) \in F /\ Inner(m, u, Av) \in F
  BY <1>1, <1>3, <1>6, InnerType
<1>11. Plus(Plus(Inner(m, v, Dx), Inner(m, v, Au)), Inner(m, u, Av))
       = Plus(Inner(m, v, Dx), Plus(Inner(m, u, Av), Inner(m, v, Au)))
  <2>1. Plus(Inner(m, u, Av), Inner(m, v, Au)) = Plus(Inner(m, v, Au), Inner(m, u, Av))
    BY <1>10, Commutes
  <2> QED BY <2>1, <1>10, PlusAssoc
<1>12. Inner(m, VecAdd(m, Av, Tv), u) = Plus(Inner(m, u, Av), Inner(m, v, Au))
  BY <1>5, <1>8, <1>9
<1>13. Inner(m, v, Apply(m, n, FullS(m, n, A, D, B), x)) = Plus(Inner(m, v, Dx), Inner(m, VecAdd(m, Av, Tv), u))
  BY <1>7, <1>11, <1>12
<1> QED BY <1>4, <1>13 DEF u, T, Dx

(* A matrix of which each entry is the sum of the other matrix's and of    *)
(* the mirrored one, folded into the upper triangle, gives the same form.  *)
Folded(n, R) ==
  [i \in Idx(n) |-> [j \in Idx(n) |-> IF i = j THEN R[i][j]
                                      ELSE IF i < j THEN Plus(R[i][j], R[j][i]) ELSE Zero]]
Lower(n, R) == [i \in Idx(n) |-> [j \in Idx(n) |-> IF j < i THEN R[i][j] ELSE Zero]]

(* As a quadratic form the folded matrix is the matrix. *)
LEMMA FoldedForm ==
  ASSUME NEW n \in Nat, NEW R \in Mats(n, n), NEW x \in Vec(n)
  PROVE  /\ Folded(n, R) \in Mats(n, n)
         /\ Inner(n, x, Apply(n, n, Folded(n, R), x)) = Inner(n, x, Apply(n, n, R, x))
<1> DEFINE L == Lower(n, R)
           T == Transposed(n, n, L)
           W == MatAdd(n, n, L, T)
           Lx == Apply(n, n, L, x)
           Tx == Apply(n, n, T, x)
           Rx == Apply(n, n, R, x)
<1>1. \A i \in Idx(n), j \in Idx(n) : R[i][j] \in F
  BY MatRow
<1>2. L \in Mats(n, n) /\ \A i \in Idx(n), j \in Idx(n) : L[i][j] = IF j < i THEN R[i][j] ELSE Zero
  BY <1>1, Ring DEF Lower, Mats, Vec
<1>3. /\ T \in Mats(n, n) /\ \A i \in Idx(n), j \in Idx(n) : T[j][i] = L[i][j]
      /\ Transposed(n, n, T) = L
  <2> HIDE DEF L
  <2> QED BY <1>2, TransposedType
<1>4. W \in Mats(n, n) /\ \A i \in Idx(n), j \in Idx(n) : W[i][j] = Plus(L[i][j], T[i][j])
  <2> HIDE DEF L, T
  <2> QED BY <1>2, <1>3, MatAddType
<1> HIDE DEF L, T, W
<1>5. Folded(n, R) = MatAdd(n, n, R, W)
  <2>1. ASSUME NEW i \in Idx(n), NEW j \in Idx(n)
        PROVE  Plus(R[i][j], W[i][j]) = IF i = j THEN R[i][j]
                                        ELSE IF i < j THEN Plus(R[i][j], R[j][i]) ELSE Zero
    <3>0. i \in Int /\ j \in Int
      BY DEF Idx
    <3>1. W[i][j] = Plus(L[i][j], L[j][i]) /\ R[i][j] \in F /\ R[j][i] \in F
      BY <1>1, <1>3, <1>4
    <3>2. CASE i = j
      <4>1. L[i][j] = Zero /\ L[j][i] = Zero
        BY <1>2, <3>0, <3>2
      <4> QED BY <3>1, <3>2, <4>1, Ring
    <3>3. CASE i < j
      <4>1. L[i][j] = Zero /\ L[j][i] = R[j][i]
        BY <1>2, <3>0, <3>3
      <4> QED BY <3>0, <3>1, <3>3, <4>1, Ring
    <3>4. CASE j < i
      <4>1. L[i][j] = R[i][j] /\ L[j][i] = Zero
        BY <1>2, <3>0, <3>4
      <4> QED BY <3>0, <3>1, <3>4, <4>1, Ring
    <3> QED BY <3>0, <3>2, <3>3, <3>4
  <2> QED BY <2>1 DEF Folded, MatAdd, VecAdd
<1>6. Lx \in Vec(n) /\ Tx \in Vec(n) /\ Rx \in Vec(n)
  BY <1>2, <1>3, ApplyType
<1>7. Apply(n, n, W, x) = VecAdd(n, Lx, Tx)
  BY <1>2, <1>3, ApplyPlus DEF W
<1>8. Apply(n, n, MatAdd(n, n, R, W), x) = VecAdd(n, Rx, Apply(n, n, W, x))
  BY <1>4, ApplyPlus
<1>9. Inner(n, x, Tx) = Inner(n, x, Lx)
  <2>1. Inner(n, x, Apply(n, n, T, x)) = Inner(n, Apply(n, n, L, x), x)
    BY <1>3, Adjoint
  <2> QED BY <2>1, <1>6, InnerSymmetric
<1> HIDE DEF Lx, Tx, Rx
<1>10. Inner(n, x, VecAdd(n, Lx, Tx)) = Zero
  <2>1. Inner(n, x, VecAdd(n, Lx, Tx)) = Plus(Inner(n, x, Lx), Inner(n, x, Tx))
    BY <1>6, InnerPlus
  <2>2. Inner(n, x, Lx) \in F
    BY <1>6, InnerType
  <2> QED BY <1>9, <2>1, <2>2, Ring
<1>11. VecAdd(n, Lx, Tx) \in Vec(n)
  BY <1>6, VecAddType
<1>12. Inner(n, x, VecAdd(n, Rx, VecAdd(n, Lx, Tx))) = Plus(Inner(n, x, Rx), Inner(n, x, VecAdd(n, Lx, Tx)))
  BY <1>6, <1>11, InnerPlus
<1>13. Inner(n, x, Rx) \in F
  BY <1>6, InnerType
<1>14. Folded(n, R) \in Mats(n, n)
  BY <1>4, <1>5, MatAddType
<1>15. Inner(n, x, Apply(n, n, Folded(n, R), x)) = Inner(n, x, Rx)
  BY <1>5, <1>7, <1>8, <1>10, <1>12, <1>13, Ring
<1> QED BY <1>14, <1>15 DEF Rx

-----------------------------------------------------------------------------
(* Where the rows of a packed triangle start, and what a walk down a       *)
(* column meets.                                                           *)
LEMMA RowStartIs ==
  ASSUME NEW dim \in Nat
  PROVE  /\ RowStart(dim, 0) = 0
         /\ \A i \in Idx(dim) : RowStart(dim, i + 1) = RowStart(dim, i) + (dim - i)
         /\ \A i \in 0 .. dim : RowStart(dim, i) \in Nat
<1> DEFINE Rec(g) == [r \in 0 .. dim |-> IF r = 0 THEN 0 ELSE g[r - 1] + (dim - (r - 1))]
           at == CHOOSE g : g = Rec(g)
           h == [k \in 0 .. dim - 1 |-> [t \in Nat |-> t + (dim - k)]]
<1>1. 0 \in Nat /\ h \in [0 .. dim - 1 -> [Nat -> Nat]]
  OBVIOUS
<1>2. PICK g : IsRec(dim, Nat, 0, h, g)
  <2> HIDE DEF h
  <2> QED BY <1>1, RecExists
<1>3. g \in [0 .. dim -> Nat] /\ g[0] = 0
  BY <1>2 DEF IsRec
<1>4. \A k \in Idx(dim) : g[k + 1] = g[k] + (dim - k)
  <2>1. TAKE k \in Idx(dim)
  <2>2. k \in 0 .. dim - 1 /\ g[k] \in Nat
    BY <1>3 DEF Idx
  <2>3. h[k][g[k]] = g[k] + (dim - k)
    BY <2>2
  <2> HIDE DEF h
  <2> QED BY <1>2, <2>2, <2>3 DEF IsRec
<1>5. g = Rec(g)
  <2>1. ASSUME NEW k \in 0 .. dim PROVE g[k] = Rec(g)[k]
    <3>1. CASE k = 0
      BY <1>3, <3>1
    <3>2. CASE k # 0
      <4>1. k - 1 \in Idx(dim) /\ (k - 1) + 1 = k
        BY <3>2 DEF Idx
      <4> QED BY <1>4, <3>2, <4>1
    <3> QED BY <3>1, <3>2
  <2> QED BY <1>3, <2>1
<1>6. at = Rec(at)
  <2> HIDE DEF Rec
  <2> QED BY <1>5
<1>7. \A i : RowStart(dim, i) = at[i]
  BY DEF RowStart
<1> HIDE DEF at
<1>8. at[0] = 0 /\ \A k \in Idx(dim) : at[k + 1] = at[k] + (dim - k)
  <2>1. at[0] = 0
    BY <1>6
  <2>2. ASSUME NEW k \in Idx(dim) PROVE at[k + 1] = at[k] + (dim - k)
    <3>1. k + 1 \in 0 .. dim /\ k + 1 # 0 /\ (k + 1) - 1 = k
      BY DEF Idx
    <3> QED BY <1>6, <3>1
  <2> QED BY <2>1, <2>2
<1> HIDE DEF Rec, h
<1>9. \A k \in 0 .. dim : at[k] = g[k]
  <2>1. \A k \in 0 .. dim - 1 : at[k] = g[k] => at[k + 1] = g[k + 1]
    BY <1>4, <1>8 DEF Idx
  <2>2. at[0] = g[0]
    BY <1>3, <1>8
  <2> QED BY <2>1, <2>2, RecUnique
<1>10. \A k \in 0 .. dim : at[k] \in Nat
  BY <1>3, <1>9
<1> QED BY <1>7, <1>8, <1>10

(* ColumnPtr unrolls. *)
LEMMA ColumnPtrRec ==
  ASSUME NEW dim \in Nat, NEW i \in Idx(dim)
  PROVE  /\ ColumnPtr(dim, i, 0) = i
         /\ \A j \in Idx(dim) : ColumnPtr(dim, i, j + 1) = ColumnPtr(dim, i, j) + ((dim - j) - 1)
<1> DEFINE Rec(g) == [r \in 0 .. dim |-> IF r = 0 THEN i ELSE g[r - 1] + ((dim - (r - 1)) - 1)]
           at == CHOOSE g : g = Rec(g)
           h == [k \in 0 .. dim - 1 |-> [t \in Nat |-> t + ((dim - k) - 1)]]
<1>1. i \in Nat /\ h \in [0 .. dim - 1 -> [Nat -> Nat]]
  BY DEF Idx
<1>2. PICK g : IsRec(dim, Nat, i, h, g)
  <2> HIDE DEF h
  <2> QED BY <1>1, RecExists
<1>3. g \in [0 .. dim -> Nat] /\ g[0] = i
  BY <1>2 DEF IsRec
<1>4. \A k \in Idx(dim) : g[k + 1] = g[k] + ((dim - k) - 1)
  <2>1. TAKE k \in Idx(dim)
  <2>2. k \in 0 .. dim - 1 /\ g[k] \in Nat
    BY <1>3 DEF Idx
  <2>3. h[k][g[k]] = g[k] + ((dim - k) - 1)
    BY <2>2
  <2> HIDE DEF h
  <2> QED BY <1>2, <2>2, <2>3 DEF IsRec
<1>5. g = Rec(g)
  <2>1. ASSUME NEW k \in 0 .. dim PROVE g[k] = Rec(g)[k]
    <3>1. CASE k = 0
      BY <1>3, <3>1
    <3>2. CASE k # 0
      <4>1. k - 1 \in Idx(dim) /\ (k - 1) + 1 = k
        BY <3>2 DEF Idx
      <4> QED BY <1>4, <3>2, <4>1
    <3> QED BY <3>1, <3>2
  <2> QED BY <1>3, <2>1
<1>6. at = Rec(at)
  <2> HIDE DEF Rec
  <2> QED BY <1>5
<1>7. \A j : ColumnPtr(dim, i, j) = at[j]
  BY DEF ColumnPtr
<1> HIDE DEF at
<1>8. at[0] = i /\ \A k \in Idx(dim) : at[k + 1] = at[k] + ((dim - k) - 1)
  <2>1. at[0] = i
    BY <1>6
  <2>2. ASSUME NEW k \in Idx(dim) PROVE at[k + 1] = at[k] + ((dim - k) - 1)
    <3>1. k + 1 \in 0 .. dim /\ k + 1 # 0 /\ (k + 1) - 1 = k
      BY DEF Idx
    <3> QED BY <1>6, <3>1
  <2> QED BY <2>1, <2>2
<1> QED BY <1>7, <1>8

(* Entry (i, j) of the triangle of dim rows, i <= j. *)
Pos(dim, i, j) == RowStart(dim, i) + (j - i)

(* The walk down a column meets the column's entry of each row. *)
LEMMA ColumnPtrIs ==
  ASSUME NEW dim \in Nat, NEW i \in Idx(dim)
  PROVE  \A j \in 0 .. dim : ColumnPtr(dim, i, j) = Pos(dim, j, i)
<1> DEFINE f == [j \in 0 .. dim |-> ColumnPtr(dim, i, j)]
           g == [j \in 0 .. dim |-> RowStart(dim, j) + (i - j)]
<1>1. f[0] = g[0]
  BY ColumnPtrRec, RowStartIs DEF Idx
<1>2. ASSUME NEW j \in 0 .. dim - 1, f[j] = g[j] PROVE f[j + 1] = g[j + 1]
  <2>1. j \in Idx(dim) /\ j \in 0 .. dim /\ j + 1 \in 0 .. dim /\ i \in Int
    BY DEF Idx
  <2>2. RowStart(dim, j + 1) = RowStart(dim, j) + (dim - j) /\ RowStart(dim, j) \in Nat
    BY <2>1, RowStartIs
  <2>3. ColumnPtr(dim, i, j + 1) = ColumnPtr(dim, i, j) + ((dim - j) - 1)
    BY <2>1, ColumnPtrRec
  <2>4. f[j + 1] = ColumnPtr(dim, i, j + 1) /\ f[j] = ColumnPtr(dim, i, j)
    BY <2>1
  <2>5. g[j + 1] = RowStart(dim, j + 1) + (i - (j + 1)) /\ g[j] = RowStart(dim, j) + (i - j)
    BY <2>1
  <2> HIDE DEF f, g
  <2>6. ColumnPtr(dim, i, j) = RowStart(dim, j) + (i - j)
    BY <1>2, <2>4, <2>5
  <2> QED BY <2>1, <2>2, <2>3, <2>4, <2>5, <2>6
<1>3. \A j \in 0 .. dim : f[j] = g[j]
  <2> HIDE DEF f, g
  <2> QED BY <1>1, <1>2, RecUnique
<1> QED BY <1>3 DEF Pos

(* A later row starts behind the whole earlier one. *)
LEMMA RowsApart ==
  ASSUME NEW dim \in Nat, NEW i \in Idx(dim)
  PROVE  \A j \in 0 .. dim : i < j => RowStart(dim, i) + (dim - i) <= RowStart(dim, j)
<1> DEFINE Z == { j \in 0 .. dim : i < j => RowStart(dim, i) + (dim - i) <= RowStart(dim, j) }
<1>0. i \in Nat /\ i \in 0 .. dim
  BY DEF Idx
<1>1. 0 \in Z
  BY <1>0
<1>2. ASSUME NEW j \in 0 .. dim - 1, j \in Z PROVE j + 1 \in Z
  <2>1. j \in Idx(dim) /\ j \in 0 .. dim /\ j + 1 \in 0 .. dim
    BY DEF Idx
  <2>2. RowStart(dim, j + 1) = RowStart(dim, j) + (dim - j) /\ RowStart(dim, j) \in Nat /\ RowStart(dim, i) \in Nat
    BY <1>0, <2>1, RowStartIs
  <2>3. CASE i = j
    BY <2>1, <2>2, <2>3, <1>0
  <2>4. CASE i < j
    BY <1>2, <2>1, <2>2, <2>4, <1>0
  <2>5. CASE j < i
    BY <2>1, <2>5, <1>0
  <2> QED BY <2>1, <2>3, <2>4, <2>5, <1>0
<1>3. \A j \in 0 .. dim : j \in Z
  <2> HIDE DEF Z
  <2> QED BY <1>1, <1>2, InductionUpTo
<1> QED BY <1>3

(* All rows together are the triangle. *)
LEMMA RowStartEnd ==
  ASSUME NEW dim \in Nat
  PROVE  RowStart(dim, dim) = Triangle(dim) /\ Triangle(dim) \in Nat
<1> DEFINE f == [i \in 0 .. dim |-> 2 * RowStart(dim, i)]
           g == [i \in 0 .. dim |-> i * ((2 * dim) - i + 1)]
<1>1. f[0] = g[0]
  BY RowStartIs
<1>2. ASSUME NEW j \in 0 .. dim - 1, f[j] = g[j] PROVE f[j + 1] = g[j + 1]
  <2>1. j \in Idx(dim) /\ j \in 0 .. dim /\ j + 1 \in 0 .. dim
    BY DEF Idx
  <2>2. RowStart(dim, j + 1) = RowStart(dim, j) + (dim - j) /\ RowStart(dim, j) \in Nat
    BY <2>1, RowStartIs
  <2>3. f[j + 1] = 2 * RowStart(dim, j + 1) /\ f[j] = 2 * RowStart(dim, j)
    BY <2>1
  <2>4. g[j + 1] = (j + 1) * ((2 * dim) - (j + 1) + 1) /\ g[j] = j * ((2 * dim) - j + 1)
    BY <2>1
  <2> HIDE DEF f, g
  <2>5. (j + 1) * ((2 * dim) - (j + 1) + 1) = j * ((2 * dim) - j + 1) + 2 * (dim - j)
    BY <2>1
  <2>6. 2 * RowStart(dim, j + 1) = 2 * RowStart(dim, j) + 2 * (dim - j)
    BY <2>1, <2>2
  <2> QED BY <1>2, <2>3, <2>4, <2>5, <2>6
<1>3. \A j \in 0 .. dim : f[j] = g[j]
  <2> HIDE DEF f, g
  <2> QED BY <1>1, <1>2, RecUnique
<1>4. RowStart(dim, dim) \in Nat
  BY RowStartIs
<1>5. 2 * RowStart(dim, dim) = dim * (dim + 1)
  <2>1. 2 * RowStart(dim, dim) = dim * ((2 * dim) - dim + 1)
    BY <1>3
  <2>2. (2 * dim) - dim + 1 = dim + 1
    OBVIOUS
  <2> QED BY <2>1, <2>2
<1>6. (2 * RowStart(dim, dim)) \div 2 = RowStart(dim, dim)
  BY <1>4
<1> QED BY <1>4, <1>5, <1>6 DEF Triangle

(* An entry lies inside the triangle. *)
LEMMA PosInside ==
  ASSUME NEW dim \in Nat, NEW i \in Idx(dim), NEW j \in Idx(dim), i <= j
  PROVE  /\ Pos(dim, i, j) \in Idx(Triangle(dim))
         /\ RowStart(dim, i) <= Pos(dim, i, j) /\ Pos(dim, i, j) < RowStart(dim, i) + (dim - i)
<1>1. i \in Nat /\ j \in Nat /\ i < dim /\ j < dim /\ i \in 0 .. dim
  BY DEF Idx
<1>2. RowStart(dim, i) \in Nat
  BY <1>1, RowStartIs
<1>3. RowStart(dim, i) + (dim - i) <= RowStart(dim, dim)
  BY <1>1, RowsApart
<1> QED BY <1>1, <1>2, <1>3, RowStartEnd DEF Pos, Idx

(* No two entries share a place. *)
LEMMA PosUnique ==
  ASSUME NEW dim \in Nat, NEW i \in Idx(dim), NEW j \in Idx(dim), i <= j,
         NEW k \in Idx(dim), NEW l \in Idx(dim), k <= l, Pos(dim, i, j) = Pos(dim, k, l)
  PROVE  i = k /\ j = l
<1>1. i \in Int /\ j \in Int /\ k \in Int /\ l \in Int /\ i \in 0 .. dim /\ k \in 0 .. dim
  BY DEF Idx
<1>2. RowStart(dim, i) \in Nat /\ RowStart(dim, k) \in Nat
  BY <1>1, RowStartIs
<1>3. /\ RowStart(dim, i) <= Pos(dim, i, j) /\ Pos(dim, i, j) < RowStart(dim, i) + (dim - i)
      /\ RowStart(dim, k) <= Pos(dim, k, l) /\ Pos(dim, k, l) < RowStart(dim, k) + (dim - k)
  BY PosInside
<1>4. ~(i < k)
  <2>1. SUFFICES ASSUME i < k PROVE FALSE
    OBVIOUS
  <2>2. RowStart(dim, i) + (dim - i) <= RowStart(dim, k)
    BY <1>1, <2>1, RowsApart
  <2> QED BY <1>1, <1>2, <1>3, <2>2 DEF Pos
<1>5. ~(k < i)
  <2>1. SUFFICES ASSUME k < i PROVE FALSE
    OBVIOUS
  <2>2. RowStart(dim, k) + (dim - k) <= RowStart(dim, i)
    BY <1>1, <2>1, RowsApart
  <2> QED BY <1>1, <1>2, <1>3, <2>2 DEF Pos
<1>6. i = k
  BY <1>1, <1>4, <1>5
<1> QED BY <1>1, <1>2, <1>6 DEF Pos

(* The last rows of a triangle are a triangle. *)
LEMMA TailRows ==
  ASSUME NEW dim \in Nat, NEW t \in 0 .. dim
  PROVE  \A q \in 0 .. t : RowStart(dim, (dim - t) + q) = RowStart(dim, dim - t) + RowStart(t, q)
<1> DEFINE f == [q \in 0 .. t |-> RowStart(dim, (dim - t) + q)]
           g == [q \in 0 .. t |-> RowStart(dim, dim - t) + RowStart(t, q)]
<1>0. t \in Nat /\ dim - t \in 0 .. dim
  OBVIOUS
<1>1. f[0] = g[0]
  <2>1. (dim - t) + 0 = dim - t /\ RowStart(dim, dim - t) \in Nat /\ RowStart(t, 0) = 0
    BY <1>0, RowStartIs
  <2> QED BY <2>1
<1>2. ASSUME NEW q \in 0 .. t - 1, f[q] = g[q] PROVE f[q + 1] = g[q + 1]
  <2>1. /\ q \in Idx(t) /\ q \in 0 .. t /\ q + 1 \in 0 .. t
        /\ (dim - t) + q \in Idx(dim) /\ (dim - t) + (q + 1) = ((dim - t) + q) + 1
    BY <1>0 DEF Idx
  <2>2. RowStart(dim, ((dim - t) + q) + 1) = RowStart(dim, (dim - t) + q) + (dim - ((dim - t) + q))
    BY <2>1, RowStartIs
  <2>3. RowStart(t, q + 1) = RowStart(t, q) + (t - q) /\ RowStart(t, q) \in Nat
    BY <1>0, <2>1, RowStartIs
  <2>4. RowStart(dim, dim - t) \in Nat
    BY <1>0, RowStartIs
  <2>5. f[q + 1] = RowStart(dim, (dim - t) + (q + 1)) /\ f[q] = RowStart(dim, (dim - t) + q)
    BY <2>1
  <2>6. g[q + 1] = RowStart(dim, dim - t) + RowStart(t, q + 1) /\ g[q] = RowStart(dim, dim - t) + RowStart(t, q)
    BY <2>1
  <2> HIDE DEF f, g
  <2>7. dim - ((dim - t) + q) = t - q
    BY <1>0, <2>1
  <2>8. f[q + 1] = f[q] + (t - q)
    BY <2>1, <2>2, <2>5, <2>7
  <2>9. g[q + 1] = g[q] + (t - q)
    <3>1. t - q \in Int
      BY <1>0, <2>1
    <3> QED BY <2>3, <2>4, <2>6, <3>1
  <2> QED BY <1>2, <2>8, <2>9
<1>3. \A q \in 0 .. t : f[q] = g[q]
  <2> HIDE DEF f, g
  <2> QED BY <1>0, <1>1, <1>2, RecUnique
<1> QED BY <1>3

(* A sum over a packed triangle, row by row. *)
LineSum(dim, f, i) == Sum(dim - i, [k \in Idx(dim - i) |-> f[RowStart(dim, i) + k]])

(* The sum over the places of a triangle is the sum of its rows' sums. *)
LEMMA PackedSum ==
  ASSUME NEW dim \in Nat, NEW f, \A p \in Idx(Triangle(dim)) : f[p] \in F,
         NEW g, \A i \in Idx(dim) : g[i] = LineSum(dim, f, i)
  PROVE  Sum(Triangle(dim), f) = Sum(dim, g)
<1> DEFINE line(i) == [k \in Idx(dim - i) |-> f[RowStart(dim, i) + k]]
           q == [i \in 0 .. dim |-> Sum(RowStart(dim, i), f)]
<1>1. ASSUME NEW i \in Idx(dim)
      PROVE  /\ \A k \in Idx(dim - i) : line(i)[k] \in F
             /\ RowStart(dim, i) \in Nat /\ dim - i \in Nat
             /\ \A k \in Idx(RowStart(dim, i) + (dim - i)) : f[k] \in F
             /\ i \in 0 .. dim /\ i + 1 \in 0 .. dim
  <2>1. i \in 0 .. dim /\ dim - i \in Nat /\ i < dim /\ i + 1 \in 0 .. dim
    BY DEF Idx
  <2>2. RowStart(dim, i) \in Nat /\ RowStart(dim, i) + (dim - i) <= Triangle(dim) /\ Triangle(dim) \in Nat
    BY <2>1, RowStartIs, RowsApart, RowStartEnd
  <2>3. \A k \in Idx(dim - i) : RowStart(dim, i) + k \in Idx(Triangle(dim))
    BY <2>1, <2>2 DEF Idx
  <2>4. Idx(RowStart(dim, i) + (dim - i)) \subseteq Idx(Triangle(dim))
    BY <2>1, <2>2 DEF Idx
  <2> QED BY <2>1, <2>2, <2>3, <2>4
<1>2. \A i \in Idx(dim) : g[i] = Sum(dim - i, line(i)) /\ g[i] \in F
  <2>1. TAKE i \in Idx(dim)
  <2>2. g[i] = Sum(dim - i, line(i))
    BY DEF LineSum
  <2>3. (\A k \in Idx(dim - i) : line(i)[k] \in F) /\ dim - i \in Nat
    BY <1>1
  <2> HIDE DEF line
  <2>4. Sum(dim - i, line(i)) \in F
    BY <2>3, SumType
  <2> QED BY <2>2, <2>4
<1>3. q[0] = Zero
  BY RowStartIs, SumNone
<1>4. ASSUME NEW i \in Idx(dim) PROVE q[i + 1] = Plus(q[i], g[i])
  <2>1. RowStart(dim, i + 1) = RowStart(dim, i) + (dim - i)
    BY RowStartIs
  <2>2. Sum(RowStart(dim, i) + (dim - i), f) = Plus(Sum(RowStart(dim, i), f), Sum(dim - i, line(i)))
    <3>1. \A k \in Idx(dim - i) : line(i)[k] = f[RowStart(dim, i) + k]
      OBVIOUS
    <3>2. RowStart(dim, i) \in Nat /\ dim - i \in Nat /\ \A k \in Idx(RowStart(dim, i) + (dim - i)) : f[k] \in F
      BY <1>1
    <3> HIDE DEF line
    <3> QED BY <3>1, <3>2, SumSplit
  <2>3. q[i + 1] = Sum(RowStart(dim, i + 1), f) /\ q[i] = Sum(RowStart(dim, i), f)
    BY <1>1
  <2> HIDE DEF q, line
  <2> QED BY <1>2, <2>1, <2>2, <2>3
<1>5. Sum(dim, g) = q[dim]
  <2> HIDE DEF q, line
  <2> QED BY <1>2, <1>3, <1>4, SumIs
<1>6. q[dim] = Sum(Triangle(dim), f)
  BY RowStartEnd
<1> QED BY <1>5, <1>6

-----------------------------------------------------------------------------
(* Batches, coefficient by coefficient.                                    *)
LEMMA Size == V \in Nat \ {0} /\ O \in Nat \ {0} /\ M \in Nat \ {0} /\ Tail \in 0 .. V
  BY SizeAssumption

(* A batch is a vector over the equations. *)
LEMMA BatchIs == Batch = Vec(M) /\ ZeroBatch = ZeroVec(M)
  BY DEF Batch, ZeroBatch, Vec, ZeroVec, Idx

LEMMA ZeroBatchType == ZeroBatch \in Batch /\ \A e \in Idx(M) : ZeroBatch[e] = Zero
  BY Ring DEF Batch, ZeroBatch, Idx

LEMMA BatchAddType ==
  ASSUME NEW a \in Batch, NEW b \in Batch
  PROVE  /\ BatchAdd(a, b) \in Batch
         /\ \A e \in Idx(M) : BatchAdd(a, b)[e] = Plus(a[e], b[e]) /\ a[e] \in F /\ b[e] \in F
  BY Ring DEF Batch, BatchAdd, Idx

LEMMA BatchScaleType ==
  ASSUME NEW a \in Batch, NEW c \in F
  PROVE  /\ BatchScale(a, c) \in Batch
         /\ \A e \in Idx(M) : BatchScale(a, c)[e] = Times(a[e], c)
  BY Ring DEF Batch, BatchScale, Idx

(* Adding batches one after the other. *)
Adds(n, g, acc) ==
  /\ acc[0] = ZeroBatch
  /\ \A k \in Idx(n) : acc[k + 1] = BatchAdd(acc[k], g[k])

(* There is such a sequence, and at each equation it ends in the sum. *)
LEMMA AddsExists ==
  ASSUME NEW n \in Nat, NEW g, \A k \in Idx(n) : g[k] \in Batch
  PROVE  \E acc : Adds(n, g, acc) /\ DOMAIN acc = 0 .. n /\ acc = [k \in 0 .. n |-> acc[k]]
<1> DEFINE h == [k \in 0 .. n - 1 |-> [t \in Batch |-> BatchAdd(t, g[k])]]
<1>1. ZeroBatch \in Batch /\ h \in [0 .. n - 1 -> [Batch -> Batch]]
  BY ZeroBatchType, BatchAddType DEF Idx
<1>2. PICK acc : IsRec(n, Batch, ZeroBatch, h, acc)
  <2> HIDE DEF h
  <2> QED BY <1>1, RecExists
<1>3. acc \in [0 .. n -> Batch] /\ acc[0] = ZeroBatch
  BY <1>2 DEF IsRec
<1>4. \A k \in Idx(n) : acc[k + 1] = BatchAdd(acc[k], g[k])
  <2>1. TAKE k \in Idx(n)
  <2>2. k \in 0 .. n - 1 /\ acc[k] \in Batch
    BY <1>3 DEF Idx
  <2>3. h[k][acc[k]] = BatchAdd(acc[k], g[k])
    BY <2>2
  <2> HIDE DEF h
  <2> QED BY <1>2, <2>2, <2>3 DEF IsRec
<1> QED BY <1>3, <1>4 DEF Adds

LEMMA AddsSum ==
  ASSUME NEW n \in Nat, NEW g, \A k \in Idx(n) : g[k] \in Batch, NEW acc, Adds(n, g, acc)
  PROVE  /\ acc[n] \in Batch
         /\ \A e \in Idx(M) : acc[n][e] = Sum(n, [k \in Idx(n) |-> g[k][e]])
<1> DEFINE Z == { k \in 0 .. n : acc[k] \in Batch }
<1>1. \A k \in 0 .. n : acc[k] \in Batch
  <2>1. 0 \in Z
    BY ZeroBatchType DEF Adds
  <2>2. \A k \in 0 .. n - 1 : k \in Z => k + 1 \in Z
    BY BatchAddType DEF Adds, Idx
  <2>3. \A k \in 0 .. n : k \in Z
    <3> HIDE DEF Z
    <3> QED BY <2>1, <2>2, InductionUpTo
  <2> QED BY <2>3
<1>2. ASSUME NEW e \in Idx(M) PROVE acc[n][e] = Sum(n, [k \in Idx(n) |-> g[k][e]])
  <2> DEFINE f == [k \in Idx(n) |-> g[k][e]]
             s == [k \in 0 .. n |-> acc[k][e]]
  <2>1. \A k \in Idx(n) : f[k] \in F
    BY DEF Batch, Idx
  <2>2. s[0] = Zero
    BY ZeroBatchType DEF Adds
  <2>3. ASSUME NEW k \in Idx(n) PROVE s[k + 1] = Plus(s[k], f[k])
    <3>1. k \in 0 .. n /\ k + 1 \in 0 .. n
      BY DEF Idx
    <3>2. acc[k + 1] = BatchAdd(acc[k], g[k]) /\ acc[k] \in Batch /\ g[k] \in Batch
      BY <1>1, <3>1 DEF Adds
    <3>3. BatchAdd(acc[k], g[k])[e] = Plus(acc[k][e], g[k][e])
      BY <3>2, BatchAddType
    <3> QED BY <3>1, <3>2, <3>3
  <2>4. Sum(n, f) = s[n]
    <3> HIDE DEF f, s
    <3> QED BY <2>1, <2>2, <2>3, SumIs
  <2> QED BY <2>4
<1> QED BY <1>1, <1>2

(* gfmat_prod adds up scaled batches: at each equation an inner product. *)
LEMMA ProdAdds ==
  ASSUME NEW n \in Nat, NEW A, NEW b, \A k \in Idx(n) : A[k] \in Batch /\ b[k] \in F
  PROVE  \E acc : Adds(n, [k \in Idx(n) |-> BatchScale(A[k], b[k])], acc) /\ Prod(n, A, b) = acc[n]
<1> DEFINE g == [k \in Idx(n) |-> BatchScale(A[k], b[k])]
           Rec(a) == [k \in 0 .. n |-> IF k = 0 THEN ZeroBatch
                                       ELSE BatchAdd(a[k - 1], BatchScale(A[k - 1], b[k - 1]))]
           sum == CHOOSE a : a = Rec(a)
<1>1. \A k \in Idx(n) : g[k] \in Batch /\ g[k] = BatchScale(A[k], b[k])
  BY BatchScaleType
<1>2. PICK c : Adds(n, g, c) /\ DOMAIN c = 0 .. n /\ c = [k \in 0 .. n |-> c[k]]
  <2> HIDE DEF g
  <2> QED BY <1>1, AddsExists
<1> HIDE DEF g
<1>3. c = Rec(c)
  <2>1. ASSUME NEW k \in 0 .. n PROVE c[k] = Rec(c)[k]
    <3>1. CASE k = 0
      BY <1>2, <3>1 DEF Adds
    <3>2. CASE k # 0
      <4>1. k - 1 \in Idx(n) /\ (k - 1) + 1 = k
        BY <3>2 DEF Idx
      <4>2. c[k] = BatchAdd(c[k - 1], BatchScale(A[k - 1], b[k - 1]))
        BY <1>1, <1>2, <4>1 DEF Adds
      <4> QED BY <3>2, <4>2
    <3> QED BY <3>1, <3>2
  <2> QED BY <1>2, <2>1
<1>4. sum = Rec(sum)
  <2> HIDE DEF Rec
  <2> QED BY <1>3
<1>5. Prod(n, A, b) = sum[n]
  BY DEF Prod
<1> HIDE DEF sum
<1>6. Adds(n, g, sum)
  <2>1. sum[0] = ZeroBatch
    BY <1>4
  <2>2. ASSUME NEW k \in Idx(n) PROVE sum[k + 1] = BatchAdd(sum[k], g[k])
    <3>1. k + 1 \in 0 .. n /\ k + 1 # 0 /\ (k + 1) - 1 = k
      BY DEF Idx
    <3>2. sum[k + 1] = BatchAdd(sum[k], BatchScale(A[k], b[k]))
      BY <1>4, <3>1
    <3> QED BY <1>1, <3>2
  <2> QED BY <2>1, <2>2 DEF Adds
<1> QED BY <1>5, <1>6 DEF g

LEMMA ProdAt ==
  ASSUME NEW n \in Nat, NEW A, NEW b, \A k \in Idx(n) : A[k] \in Batch /\ b[k] \in F
  PROVE  /\ Prod(n, A, b) \in Batch
         /\ \A e \in Idx(M) : Prod(n, A, b)[e] = Sum(n, [k \in Idx(n) |-> Times(A[k][e], b[k])])
<1> DEFINE g == [k \in Idx(n) |-> BatchScale(A[k], b[k])]
<1>1. PICK acc : Adds(n, g, acc) /\ Prod(n, A, b) = acc[n]
  BY ProdAdds
<1>2. \A k \in Idx(n) : g[k] \in Batch /\ \A e \in Idx(M) : g[k][e] = Times(A[k][e], b[k])
  BY BatchScaleType
<1>3. /\ acc[n] \in Batch
      /\ \A e \in Idx(M) : acc[n][e] = Sum(n, [k \in Idx(n) |-> g[k][e]])
  <2> HIDE DEF g
  <2> QED BY <1>1, <1>2, AddsSum
<1>4. ASSUME NEW e \in Idx(M)
      PROVE  [k \in Idx(n) |-> g[k][e]] = [k \in Idx(n) |-> Times(A[k][e], b[k])]
  <2> HIDE DEF g
  <2> QED BY <1>2
<1> HIDE DEF g
<1> QED BY <1>1, <1>3, <1>4

LEMMA DotIs ==
  ASSUME NEW n \in Nat, NEW x, NEW z, \A k \in Idx(n) : x[k] \in F /\ z[k] \in F
  PROVE  Dot(n, x, z) = Sum(n, [k \in Idx(n) |-> Times(x[k], z[k])])
<1> DEFINE f == [k \in Idx(n) |-> Times(x[k], z[k])]
           Rec(a) == [k \in 0 .. n |-> IF k = 0 THEN Zero ELSE Plus(a[k - 1], Times(x[k - 1], z[k - 1]))]
           sum == CHOOSE a : a = Rec(a)
<1>1. \A k \in Idx(n) : f[k] \in F /\ f[k] = Times(x[k], z[k])
  BY Ring
<1>2. PICK c \in [0 .. n -> F] : /\ c[0] = Zero
                                 /\ \A k \in Idx(n) : c[k + 1] = Plus(c[k], f[k])
                                 /\ Sum(n, f) = c[n]
  <2> HIDE DEF f
  <2> QED BY <1>1, SumRec
<1> HIDE DEF f
<1>3. c = Rec(c)
  <2>1. ASSUME NEW k \in 0 .. n PROVE c[k] = Rec(c)[k]
    <3>1. CASE k = 0
      BY <1>2, <3>1
    <3>2. CASE k # 0
      <4>1. k - 1 \in Idx(n) /\ (k - 1) + 1 = k
        BY <3>2 DEF Idx
      <4>2. c[k] = Plus(c[k - 1], Times(x[k - 1], z[k - 1]))
        BY <1>1, <1>2, <4>1
      <4> QED BY <3>2, <4>2
    <3> QED BY <3>1, <3>2
  <2> QED BY <1>2, <2>1
<1>4. sum = Rec(sum)
  <2> HIDE DEF Rec
  <2> QED BY <1>3
<1>5. Dot(n, x, z) = sum[n]
  BY DEF Dot
<1> HIDE DEF sum
<1>6. sum[0] = Zero /\ \A k \in Idx(n) : sum[k + 1] = Plus(sum[k], f[k])
  <2>1. sum[0] = Zero
    BY <1>4
  <2>2. ASSUME NEW k \in Idx(n) PROVE sum[k + 1] = Plus(sum[k], f[k])
    <3>1. k + 1 \in 0 .. n /\ k + 1 # 0 /\ (k + 1) - 1 = k
      BY DEF Idx
    <3>2. sum[k + 1] = Plus(sum[k], Times(x[k], z[k]))
      BY <1>4, <3>1
    <3> QED BY <1>1, <3>2
  <2> QED BY <2>1, <2>2
<1>7. Sum(n, f) = sum[n]
  <2> HIDE DEF Rec
  <2> QED BY <1>1, <1>6, SumIs
<1> QED BY <1>5, <1>7 DEF f

-----------------------------------------------------------------------------
(* The layouts. *)
LEMMA RectIndex ==
  ASSUME NEW m \in Nat \ {0}, NEW n \in Nat \ {0}, NEW i \in Idx(m), NEW j \in Idx(n)
  PROVE  /\ (i * n) + j \in 0 .. (m * n) - 1
         /\ ((i * n) + j) \div n = i
         /\ ((i * n) + j) % n = j
<1>0. i \in Nat /\ j \in Nat /\ i <= m - 1 /\ j < n /\ i \in Int /\ j \in Int
  BY DEF Idx
<1>1. i * n \in Nat /\ i * n <= (m - 1) * n
  BY <1>0
<1>2. (m - 1) * n = (m * n) - n /\ m * n \in Nat
  OBVIOUS
<1>3. (i * n) + j \in 0 .. (m * n) - 1
  BY <1>0, <1>1, <1>2
<1> QED BY <1>0, <1>3, DivUnique

(* The row and the column of an entry. *)
LEMMA RectParts ==
  ASSUME NEW m \in Nat \ {0}, NEW n \in Nat \ {0}, NEW p \in 0 .. (m * n) - 1
  PROVE  p \div n \in Idx(m) /\ p % n \in Idx(n) /\ p = ((p \div n) * n) + (p % n)
<1> DEFINE q == p \div n
<1>1. m * n \in Nat
  OBVIOUS
<1>2. q \in Int /\ p % n \in 0 .. n - 1 /\ p = q * n + (p % n) /\ p \in Int
  BY DivMod, <1>1
<1> HIDE DEF q
<1>3. ~ (q >= m)
  <2>1. SUFFICES ASSUME q >= m PROVE FALSE
    OBVIOUS
  <2>2. q * n >= m * n
    BY <2>1, <1>2
  <2> QED BY <2>2, <1>1, <1>2
<1>4. ~ (q <= -1)
  <2>1. SUFFICES ASSUME q <= -1 PROVE FALSE
    OBVIOUS
  <2>2. q * n <= -n
    BY <2>1, <1>2
  <2> QED BY <2>2, <1>2
<1>5. q \in 0 .. m - 1
  BY <1>2, <1>3, <1>4
<1> QED BY <1>2, <1>5 DEF q, Idx

Triangles(dim) == [0 .. Triangle(dim) - 1 -> Batch]
Rects == [0 .. (V * O) - 1 -> Batch]
Oils == [0 .. (V * O) - 1 -> F]

(* Coefficient e of a packed triangle, and of a rectangle, as matrices.    *)
Upper(tri, dim, e) ==
  [i \in Idx(dim) |-> [j \in Idx(dim) |-> IF i <= j THEN tri[Pos(dim, i, j)][e] ELSE Zero]]
Rect(c, e) == [i \in Idx(V) |-> [j \in Idx(O) |-> c[(i * O) + j][e]]]
Oil(B) == [k \in Idx(V) |-> [j \in Idx(O) |-> Col(B, j, k)]]

(* What these matrices are, entry by entry. *)
LEMMA UpperType ==
  ASSUME NEW dim \in Nat, NEW tri \in Triangles(dim), NEW e \in Idx(M)
  PROVE  /\ Upper(tri, dim, e) \in Mats(dim, dim)
         /\ \A i \in Idx(dim), j \in Idx(dim) :
              /\ i <= j => /\ tri[Pos(dim, i, j)] \in Batch
                           /\ Upper(tri, dim, e)[i][j] = tri[Pos(dim, i, j)][e]
              /\ j < i => Upper(tri, dim, e)[i][j] = Zero
<1>1. ASSUME NEW i \in Idx(dim), NEW j \in Idx(dim), i <= j
      PROVE  tri[Pos(dim, i, j)] \in Batch /\ tri[Pos(dim, i, j)][e] \in F
  <2>1. Pos(dim, i, j) \in 0 .. Triangle(dim) - 1
    BY <1>1, PosInside DEF Idx
  <2>2. tri[Pos(dim, i, j)] \in Batch
    BY <2>1 DEF Triangles
  <2> QED BY <2>2 DEF Batch, Idx
<1>2. ASSUME NEW i \in Idx(dim), NEW j \in Idx(dim)
      PROVE  /\ Upper(tri, dim, e)[i][j] = IF i <= j THEN tri[Pos(dim, i, j)][e] ELSE Zero
             /\ (IF i <= j THEN tri[Pos(dim, i, j)][e] ELSE Zero) \in F
             /\ j < i => ~(i <= j)
  <2>1. i \in Int /\ j \in Int
    BY DEF Idx
  <2> QED BY <1>1, <2>1, Ring DEF Upper
<1>3. Upper(tri, dim, e) \in Mats(dim, dim)
  BY <1>2 DEF Upper, Mats, Vec
<1> QED BY <1>1, <1>2, <1>3

LEMMA RectType ==
  ASSUME NEW c \in Rects, NEW e \in Idx(M)
  PROVE  /\ Rect(c, e) \in Mats(V, O)
         /\ \A i \in Idx(V), j \in Idx(O) :
              /\ (i * O) + j \in 0 .. (V * O) - 1
              /\ c[(i * O) + j] \in Batch
              /\ Rect(c, e)[i][j] = c[(i * O) + j][e]
<1>1. \A i \in Idx(V), j \in Idx(O) :
        (i * O) + j \in 0 .. (V * O) - 1 /\ c[(i * O) + j] \in Batch /\ c[(i * O) + j][e] \in F
  <2>1. TAKE i \in Idx(V), j \in Idx(O)
  <2>2. (i * O) + j \in 0 .. (V * O) - 1
    BY Size, RectIndex
  <2>3. c[(i * O) + j] \in Batch
    BY <2>2 DEF Rects
  <2> QED BY <2>2, <2>3 DEF Batch, Idx
<1> QED BY <1>1 DEF Rect, Mats, Vec

LEMMA ColType ==
  ASSUME NEW n \in Nat \ {0}, NEW B \in [0 .. (V * n) - 1 -> F], NEW j \in Idx(n), NEW k \in Idx(V)
  PROVE  Col(B, j, k) \in F
<1>1. (j * V) + k \in 0 .. (n * V) - 1
  BY Size, RectIndex
<1>2. n * V = V * n
  BY Size
<1> QED BY <1>1, <1>2 DEF Col

LEMMA OilType ==
  ASSUME NEW B \in Oils
  PROVE  /\ Oil(B) \in Mats(V, O)
         /\ \A k \in Idx(V), j \in Idx(O) : Oil(B)[k][j] = Col(B, j, k) /\ Col(B, j, k) \in F
<1>1. \A k \in Idx(V), j \in Idx(O) : Col(B, j, k) \in F
  BY Size, ColType DEF Oils
<1> QED BY <1>1 DEF Oil, Mats, Vec

(* An entry of a matrix product. *)
LEMMA ProductEntry ==
  ASSUME NEW m \in Nat, NEW n \in Nat, NEW p \in Nat, NEW A \in Mats(m, n), NEW B \in Mats(n, p),
         NEW i \in Idx(m), NEW j \in Idx(p)
  PROVE  /\ \A k \in Idx(n) : A[i][k] \in F /\ B[k][j] \in F /\ Times(A[i][k], B[k][j]) \in F
         /\ MatProduct(m, n, p, A, B)[i][j] = Sum(n, [k \in Idx(n) |-> Times(A[i][k], B[k][j])])
<1> DEFINE T == Transposed(n, p, B)
<1>1. T \in Mats(p, n) /\ \A k \in Idx(n) : T[j][k] = B[k][j]
  BY TransposedType
<1>2. A[i] \in Vec(n) /\ \A k \in Idx(n) : A[i][k] \in F /\ B[k][j] \in F
  BY MatRow
<1>3. MatProduct(m, n, p, A, B)[i][j] = Inner(n, T[j], A[i])
  BY DEF MatProduct, Apply
<1> HIDE DEF T
<1>4. T[j] \in Vec(n)
  BY <1>1, MatRow
<1>5. Inner(n, T[j], A[i]) = Inner(n, A[i], T[j])
  BY <1>2, <1>4, InnerSymmetric
<1>6. [k \in Idx(n) |-> Times(A[i][k], T[j][k])] = [k \in Idx(n) |-> Times(A[i][k], B[k][j])]
  BY <1>1
<1> QED BY <1>2, <1>3, <1>5, <1>6, Ring DEF Inner

-----------------------------------------------------------------------------
(* The batched products, as products of matrices.                          *)

(* Adding to each entry of a rectangle adds a matrix. *)
LEMMA RectSum ==
  ASSUME NEW c \in Rects, NEW e \in Idx(M), NEW d \in Rects, NEW X \in Mats(V, O),
         \A i \in Idx(V), j \in Idx(O) :
           d[(i * O) + j][e] = Plus(c[(i * O) + j][e], X[i][j])
  PROVE  Rect(d, e) = MatAdd(V, O, Rect(c, e), X)
<1>1. \A i \in Idx(V), j \in Idx(O) : Rect(d, e)[i][j] = Plus(Rect(c, e)[i][j], X[i][j])
  BY RectType
<1> QED BY <1>1 DEF Rect, MatAdd, VecAdd

(* batch_trimat_madd: C + A * B, A the upper triangular matrix. *)
LEMMA TrimatMaddIs ==
  ASSUME NEW c \in Rects, NEW tri \in Triangles(V), NEW B \in Oils
  PROVE  /\ TrimatMadd(c, tri, B) \in Rects
         /\ \A e \in Idx(M) :
              Rect(TrimatMadd(c, tri, B), e)
              = MatAdd(V, O, Rect(c, e), MatProduct(V, V, O, Upper(tri, V, e), Oil(B)))
<1> DEFINE AA(i) == [k \in 0 .. V - i - 1 |-> tri[RowStart(V, i) + k]]
           bb(i, j) == [k \in 0 .. V - i - 1 |-> Col(B, j, i + k)]
           new(i, j) == BatchAdd(c[(i * O) + j], Prod(V - i, AA(i), bb(i, j)))
           d == TrimatMadd(c, tri, B)
<1>0. V \in Nat /\ O \in Nat
  BY Size
<1>1. ASSUME NEW i \in Idx(V), NEW j \in Idx(O)
      PROVE  /\ V - i \in Nat /\ i \in Nat /\ i + (V - i) = V
             /\ \A k \in Idx(V - i) :
                  /\ AA(i)[k] = tri[Pos(V, i, i + k)] /\ bb(i, j)[k] = Col(B, j, i + k)
                  /\ AA(i)[k] \in Batch /\ bb(i, j)[k] \in F
                  /\ i + k \in Idx(V) /\ i <= i + k
  <2>1. V - i \in Nat /\ i \in Nat /\ i + (V - i) = V
    BY <1>0 DEF Idx
  <2>2. ASSUME NEW k \in Idx(V - i)
        PROVE  /\ AA(i)[k] = tri[Pos(V, i, i + k)] /\ bb(i, j)[k] = Col(B, j, i + k)
               /\ AA(i)[k] \in Batch /\ bb(i, j)[k] \in F
               /\ i + k \in Idx(V) /\ i <= i + k
    <3>1. i + k \in Idx(V) /\ i <= i + k /\ k \in 0 .. V - i - 1 /\ (i + k) - i = k
      BY <2>1, <1>0 DEF Idx
    <3>2. RowStart(V, i) + k = Pos(V, i, i + k)
      BY <3>1 DEF Pos
    <3>3. tri[Pos(V, i, i + k)] \in Batch
      <4>1. Pos(V, i, i + k) \in 0 .. Triangle(V) - 1
        BY <1>0, <3>1, PosInside DEF Idx
      <4> QED BY <4>1 DEF Triangles
    <3>4. Col(B, j, i + k) \in F
      BY <3>1, OilType
    <3> QED BY <3>1, <3>2, <3>3, <3>4
  <2> QED BY <2>1, <2>2
<1>2. ASSUME NEW i \in Idx(V), NEW j \in Idx(O)
      PROVE  /\ c[(i * O) + j] \in Batch /\ Prod(V - i, AA(i), bb(i, j)) \in Batch /\ new(i, j) \in Batch
             /\ d[(i * O) + j] = new(i, j)
  <2>1. c[(i * O) + j] \in Batch /\ (i * O) + j \in 0 .. (V * O) - 1
    BY Size, RectIndex DEF Rects
  <2>2. Prod(V - i, AA(i), bb(i, j)) \in Batch
    <3>1. V - i \in Nat /\ \A k \in Idx(V - i) : AA(i)[k] \in Batch /\ bb(i, j)[k] \in F
      BY <1>1
    <3> HIDE DEF AA, bb
    <3> QED BY <3>1, ProdAt
  <2>3. ((i * O) + j) \div O = i /\ ((i * O) + j) % O = j
    BY Size, RectIndex
  <2>4. d[(i * O) + j] = new(i, j)
    BY <2>1, <2>3 DEF TrimatMadd
  <2> HIDE DEF AA, bb, d
  <2> QED BY <2>1, <2>2, <2>4, BatchAddType
<1>3. d \in Rects
  <2>1. ASSUME NEW n \in 0 .. (V * O) - 1 PROVE d[n] \in Batch
    <3>1. n \div O \in Idx(V) /\ n % O \in Idx(O) /\ n = ((n \div O) * O) + (n % O)
      BY Size, RectParts
    <3> HIDE DEF d, new
    <3> QED BY <3>1, <1>2
  <2>2. d = [n \in 0 .. (V * O) - 1 |-> d[n]]
    BY DEF TrimatMadd
  <2> HIDE DEF d
  <2> QED BY <2>1, <2>2 DEF Rects
<1>4. ASSUME NEW e \in Idx(M), NEW i \in Idx(V), NEW j \in Idx(O)
      PROVE  d[(i * O) + j][e]
             = Plus(c[(i * O) + j][e], MatProduct(V, V, O, Upper(tri, V, e), Oil(B))[i][j])
  <2> DEFINE f == [k \in Idx(V) |-> Times(Upper(tri, V, e)[i][k], Oil(B)[k][j])]
             g == [k \in Idx(V - i) |-> Times(AA(i)[k][e], bb(i, j)[k])]
  <2>1. Upper(tri, V, e) \in Mats(V, V) /\ Oil(B) \in Mats(V, O)
    BY <1>0, UpperType, OilType
  <2>2. MatProduct(V, V, O, Upper(tri, V, e), Oil(B))[i][j] = Sum(V, f)
    BY <1>0, <2>1, ProductEntry
  <2>3. Prod(V - i, AA(i), bb(i, j))[e] = Sum(V - i, g)
    <3>1. V - i \in Nat /\ \A k \in Idx(V - i) : AA(i)[k] \in Batch /\ bb(i, j)[k] \in F
      BY <1>1
    <3> HIDE DEF AA, bb
    <3> QED BY <3>1, ProdAt
  <2>4. \A k \in Idx(i) : f[k] = Zero
    <3>1. TAKE k \in Idx(i)
    <3>2. k \in Idx(V) /\ k < i
      BY <1>0, <1>1 DEF Idx
    <3>3. Upper(tri, V, e)[i][k] = Zero
      BY <1>0, <3>2, UpperType
    <3>4. Oil(B)[k][j] \in F
      BY <3>2, <2>1, MatRow, <1>0
    <3> QED BY <3>2, <3>3, <3>4, TimesZero
  <2>5. \A k \in Idx(V - i) : g[k] \in F /\ g[k] = f[i + k]
    <3>1. TAKE k \in Idx(V - i)
    <3>2. /\ AA(i)[k] = tri[Pos(V, i, i + k)] /\ bb(i, j)[k] = Col(B, j, i + k)
          /\ AA(i)[k] \in Batch /\ bb(i, j)[k] \in F /\ i + k \in Idx(V) /\ i <= i + k
      BY <1>1
    <3> HIDE DEF AA, bb
    <3>3. Upper(tri, V, e)[i][i + k] = tri[Pos(V, i, i + k)][e]
      BY <1>0, <3>2, UpperType
    <3>4. Oil(B)[i + k][j] = Col(B, j, i + k)
      BY <3>2, OilType
    <3>5. AA(i)[k][e] \in F
      BY <3>2 DEF Batch, Idx
    <3>6. g[k] = Times(AA(i)[k][e], bb(i, j)[k]) /\ f[i + k] = Times(Upper(tri, V, e)[i][i + k], Oil(B)[i + k][j])
      BY <3>1, <3>2
    <3> QED BY <3>2, <3>3, <3>4, <3>5, <3>6, Ring
  <2>6. Sum(V, f) = Sum(V - i, g)
    <3>1. V - i \in Nat /\ i \in Nat /\ i + (V - i) = V
      BY <1>1
    <3> HIDE DEF f, g
    <3>2. Sum(i + (V - i), f) = Sum(V - i, g)
      BY <2>4, <2>5, <3>1, SumFrom
    <3> QED BY <3>1, <3>2
  <2> HIDE DEF AA, bb, f, g, d
  <2>7. new(i, j)[e] = Plus(c[(i * O) + j][e], Prod(V - i, AA(i), bb(i, j))[e])
    BY <1>2, BatchAddType
  <2> QED BY <1>2, <2>2, <2>3, <2>6, <2>7
<1>5. ASSUME NEW e \in Idx(M)
      PROVE  Rect(d, e) = MatAdd(V, O, Rect(c, e), MatProduct(V, V, O, Upper(tri, V, e), Oil(B)))
  <2>1. MatProduct(V, V, O, Upper(tri, V, e), Oil(B)) \in Mats(V, O)
    BY <1>0, UpperType, OilType, ProductType
  <2> HIDE DEF d
  <2> QED BY <1>3, <1>4, <2>1, RectSum
<1> QED BY <1>3, <1>5

(* batch_trimatTr_madd: C + A^T * B. *)
LEMMA TrimatTrMaddIs ==
  ASSUME NEW c \in Rects, NEW tri \in Triangles(V), NEW B \in Oils
  PROVE  /\ TrimatTrMadd(c, tri, B) \in Rects
         /\ \A e \in Idx(M) :
              Rect(TrimatTrMadd(c, tri, B), e)
              = MatAdd(V, O, Rect(c, e),
                       MatProduct(V, V, O, Transposed(V, V, Upper(tri, V, e)), Oil(B)))
<1> DEFINE AA(i) == [k \in 0 .. i |-> tri[ColumnPtr(V, i, k)]]
           bb(i, j) == [k \in 0 .. i |-> Col(B, j, k)]
           new(i, j) == BatchAdd(c[(i * O) + j], Prod(i + 1, AA(i), bb(i, j)))
           d == TrimatTrMadd(c, tri, B)
<1>0. V \in Nat /\ O \in Nat
  BY Size
<1>1. ASSUME NEW i \in Idx(V), NEW j \in Idx(O)
      PROVE  /\ i + 1 \in Nat /\ i \in Nat /\ V - (i + 1) \in Nat /\ (i + 1) + (V - (i + 1)) = V
             /\ \A k \in Idx(i + 1) :
                  /\ AA(i)[k] = tri[Pos(V, k, i)] /\ bb(i, j)[k] = Col(B, j, k)
                  /\ AA(i)[k] \in Batch /\ bb(i, j)[k] \in F
                  /\ k \in Idx(V) /\ k <= i
  <2>1. i + 1 \in Nat /\ i \in Nat /\ V - (i + 1) \in Nat /\ (i + 1) + (V - (i + 1)) = V
    BY <1>0 DEF Idx
  <2>2. ASSUME NEW k \in Idx(i + 1)
        PROVE  /\ AA(i)[k] = tri[Pos(V, k, i)] /\ bb(i, j)[k] = Col(B, j, k)
               /\ AA(i)[k] \in Batch /\ bb(i, j)[k] \in F
               /\ k \in Idx(V) /\ k <= i
    <3>1. k \in Idx(V) /\ k <= i /\ k \in 0 .. i /\ k \in 0 .. V
      BY <2>1, <1>0 DEF Idx
    <3>2. ColumnPtr(V, i, k) = Pos(V, k, i)
      BY <1>0, <3>1, ColumnPtrIs
    <3>3. tri[Pos(V, k, i)] \in Batch
      <4>1. Pos(V, k, i) \in 0 .. Triangle(V) - 1
        BY <1>0, <3>1, PosInside DEF Idx
      <4> QED BY <4>1 DEF Triangles
    <3>4. Col(B, j, k) \in F
      BY <3>1, OilType
    <3> QED BY <3>1, <3>2, <3>3, <3>4
  <2> QED BY <2>1, <2>2
<1>2. ASSUME NEW i \in Idx(V), NEW j \in Idx(O)
      PROVE  /\ c[(i * O) + j] \in Batch /\ Prod(i + 1, AA(i), bb(i, j)) \in Batch /\ new(i, j) \in Batch
             /\ d[(i * O) + j] = new(i, j)
  <2>1. c[(i * O) + j] \in Batch /\ (i * O) + j \in 0 .. (V * O) - 1
    BY Size, RectIndex DEF Rects
  <2>2. Prod(i + 1, AA(i), bb(i, j)) \in Batch
    <3>1. i + 1 \in Nat /\ \A k \in Idx(i + 1) : AA(i)[k] \in Batch /\ bb(i, j)[k] \in F
      BY <1>1
    <3> HIDE DEF AA, bb
    <3> QED BY <3>1, ProdAt
  <2>3. ((i * O) + j) \div O = i /\ ((i * O) + j) % O = j
    BY Size, RectIndex
  <2>4. d[(i * O) + j] = new(i, j)
    BY <2>1, <2>3 DEF TrimatTrMadd
  <2> HIDE DEF AA, bb, d
  <2> QED BY <2>1, <2>2, <2>4, BatchAddType
<1>3. d \in Rects
  <2>1. ASSUME NEW n \in 0 .. (V * O) - 1 PROVE d[n] \in Batch
    <3>1. n \div O \in Idx(V) /\ n % O \in Idx(O) /\ n = ((n \div O) * O) + (n % O)
      BY Size, RectParts
    <3> HIDE DEF d, new
    <3> QED BY <3>1, <1>2
  <2>2. d = [n \in 0 .. (V * O) - 1 |-> d[n]]
    BY DEF TrimatTrMadd
  <2> HIDE DEF d
  <2> QED BY <2>1, <2>2 DEF Rects
<1>4. ASSUME NEW e \in Idx(M), NEW i \in Idx(V), NEW j \in Idx(O)
      PROVE  d[(i * O) + j][e]
             = Plus(c[(i * O) + j][e],
                    MatProduct(V, V, O, Transposed(V, V, Upper(tri, V, e)), Oil(B))[i][j])
  <2> DEFINE T == Transposed(V, V, Upper(tri, V, e))
             f == [k \in Idx(V) |-> Times(T[i][k], Oil(B)[k][j])]
             g == [k \in Idx(i + 1) |-> Times(AA(i)[k][e], bb(i, j)[k])]
  <2>1. /\ T \in Mats(V, V) /\ Oil(B) \in Mats(V, O)
        /\ \A k \in Idx(V) : T[i][k] = Upper(tri, V, e)[k][i]
    BY <1>0, UpperType, OilType, TransposedType
  <2> HIDE DEF T
  <2>2. MatProduct(V, V, O, T, Oil(B))[i][j] = Sum(V, f)
    BY <1>0, <2>1, ProductEntry
  <2>3. Prod(i + 1, AA(i), bb(i, j))[e] = Sum(i + 1, g)
    <3>1. i + 1 \in Nat /\ \A k \in Idx(i + 1) : AA(i)[k] \in Batch /\ bb(i, j)[k] \in F
      BY <1>1
    <3> HIDE DEF AA, bb
    <3> QED BY <3>1, ProdAt
  <2>4. \A k \in (i + 1) .. ((i + 1) + (V - (i + 1))) - 1 : f[k] = Zero
    <3>1. TAKE k \in (i + 1) .. ((i + 1) + (V - (i + 1))) - 1
    <3>2. k \in Idx(V) /\ i < k
      BY <1>0, <1>1 DEF Idx
    <3>3. T[i][k] = Zero
      BY <1>0, <2>1, <3>2, UpperType
    <3>4. Oil(B)[k][j] \in F
      BY <3>2, <2>1, MatRow, <1>0
    <3> QED BY <3>2, <3>3, <3>4, TimesZero
  <2>5. \A k \in Idx(i + 1) : g[k] \in F /\ g[k] = f[k]
    <3>1. TAKE k \in Idx(i + 1)
    <3>2. /\ AA(i)[k] = tri[Pos(V, k, i)] /\ bb(i, j)[k] = Col(B, j, k)
          /\ AA(i)[k] \in Batch /\ bb(i, j)[k] \in F /\ k \in Idx(V) /\ k <= i
      BY <1>1
    <3> HIDE DEF AA, bb
    <3>3. T[i][k] = tri[Pos(V, k, i)][e]
      BY <1>0, <2>1, <3>2, UpperType
    <3>4. Oil(B)[k][j] = Col(B, j, k)
      BY <3>2, OilType
    <3>5. AA(i)[k][e] \in F
      BY <3>2 DEF Batch, Idx
    <3>6. g[k] = Times(AA(i)[k][e], bb(i, j)[k]) /\ f[k] = Times(T[i][k], Oil(B)[k][j])
      BY <3>1, <3>2
    <3> QED BY <3>2, <3>3, <3>4, <3>5, <3>6, Ring
  <2>6. Sum(V, f) = Sum(i + 1, g)
    <3>1. i + 1 \in Nat /\ V - (i + 1) \in Nat /\ (i + 1) + (V - (i + 1)) = V
      BY <1>1
    <3> HIDE DEF f, g
    <3>2. \A k \in Idx(i + 1) : f[k] \in F
      BY <2>5
    <3>3. Sum((i + 1) + (V - (i + 1)), f) = Sum(i + 1, f)
      BY <2>4, <3>1, <3>2, SumUpTo
    <3>4. Sum(i + 1, g) = Sum(i + 1, f)
      BY <2>5, <3>1, SumEq
    <3> QED BY <3>1, <3>3, <3>4
  <2> HIDE DEF AA, bb, f, g, d
  <2>7. new(i, j)[e] = Plus(c[(i * O) + j][e], Prod(i + 1, AA(i), bb(i, j))[e])
    BY <1>2, BatchAddType
  <2> QED BY <1>2, <2>2, <2>3, <2>6, <2>7 DEF T
<1>5. ASSUME NEW e \in Idx(M)
      PROVE  Rect(d, e) = MatAdd(V, O, Rect(c, e),
                                 MatProduct(V, V, O, Transposed(V, V, Upper(tri, V, e)), Oil(B)))
  <2>1. MatProduct(V, V, O, Transposed(V, V, Upper(tri, V, e)), Oil(B)) \in Mats(V, O)
    BY <1>0, UpperType, OilType, TransposedType, ProductType
  <2> HIDE DEF d
  <2> QED BY <1>3, <1>4, <2>1, RectSum
<1> QED BY <1>3, <1>5

(* Both triangles of P1 + P1^T at once. *)
Symmetric(tri, e) == MatAdd(V, V, Upper(tri, V, e), Transposed(V, V, Upper(tri, V, e)))

LEMMA SymmetricType ==
  ASSUME NEW tri \in Triangles(V), NEW e \in Idx(M)
  PROVE  /\ Symmetric(tri, e) \in Mats(V, V)
         /\ \A i \in Idx(V), k \in Idx(V) :
              Symmetric(tri, e)[i][k] = Plus(Upper(tri, V, e)[i][k], Upper(tri, V, e)[k][i])
  BY Size, UpperType, TransposedType, MatAddType DEF Symmetric

(* tmp_Arow is row i of it, although the diagonal is left out. *)
LEMMA SymmetricRowIs ==
  ASSUME NEW tri \in Triangles(V), NEW i \in Idx(V), NEW k \in Idx(V)
  PROVE  /\ SymmetricRow(tri, i, k) \in Batch
         /\ \A e \in Idx(M) : SymmetricRow(tri, i, k)[e] = Symmetric(tri, e)[i][k]
<1>0. V \in Nat /\ i \in Nat /\ k \in Nat /\ i \in 0 .. V /\ k \in 0 .. V
  BY Size DEF Idx
<1>1. CASE k < i
  <2>1. SymmetricRow(tri, i, k) = tri[Pos(V, k, i)]
    BY <1>0, <1>1, ColumnPtrIs DEF SymmetricRow
  <2>2. tri[Pos(V, k, i)] \in Batch
    <3>1. Pos(V, k, i) \in 0 .. Triangle(V) - 1
      BY <1>0, <1>1, PosInside DEF Idx
    <3> QED BY <3>1 DEF Triangles
  <2>3. ASSUME NEW e \in Idx(M) PROVE Symmetric(tri, e)[i][k] = tri[Pos(V, k, i)][e]
    <3>0. k <= i
      BY <1>0, <1>1
    <3>1. Upper(tri, V, e)[i][k] = Zero /\ Upper(tri, V, e)[k][i] = tri[Pos(V, k, i)][e]
      BY <1>0, <1>1, <3>0, UpperType
    <3>2. tri[Pos(V, k, i)][e] \in F
      BY <2>2 DEF Batch, Idx
    <3> QED BY <3>1, <3>2, SymmetricType, Ring
  <2> QED BY <2>1, <2>2, <2>3
<1>2. CASE k = i
  <2>1. SymmetricRow(tri, i, k) = ZeroBatch
    BY <1>0, <1>2 DEF SymmetricRow
  <2>2. ASSUME NEW e \in Idx(M) PROVE Symmetric(tri, e)[i][k] = Zero
    <3>1. Upper(tri, V, e)[i][k] \in F
      BY <1>0, UpperType, MatRow
    <3> QED BY <1>2, <3>1, SymmetricType, Ring
  <2> QED BY <2>1, <2>2, ZeroBatchType
<1>3. CASE i < k
  <2>1. SymmetricRow(tri, i, k) = tri[Pos(V, i, k)]
    <3>1. ColumnPtr(V, i, i) = Pos(V, i, i)
      BY <1>0, ColumnPtrIs
    <3>2. RowStart(V, i) \in Nat
      BY <1>0, RowStartIs
    <3>3. (Pos(V, i, i) + 1) + (k - (i + 1)) = Pos(V, i, k)
      BY <1>0, <3>2 DEF Pos
    <3>4. ~(k < i) /\ k # i
      BY <1>0, <1>3
    <3> QED BY <3>1, <3>3, <3>4 DEF SymmetricRow
  <2>2. tri[Pos(V, i, k)] \in Batch
    <3>1. Pos(V, i, k) \in 0 .. Triangle(V) - 1
      BY <1>0, <1>3, PosInside DEF Idx
    <3> QED BY <3>1 DEF Triangles
  <2>3. ASSUME NEW e \in Idx(M) PROVE Symmetric(tri, e)[i][k] = tri[Pos(V, i, k)][e]
    <3>1. Upper(tri, V, e)[k][i] = Zero /\ Upper(tri, V, e)[i][k] = tri[Pos(V, i, k)][e]
      BY <1>0, <1>3, UpperType
    <3>2. tri[Pos(V, i, k)][e] \in F
      BY <2>2 DEF Batch, Idx
    <3> QED BY <3>1, <3>2, SymmetricType, Ring
  <2> QED BY <2>1, <2>2, <2>3
<1> QED BY <1>0, <1>1, <1>2, <1>3

(* batch_2trimat_madd: C + (A + A^T) * B, for any width of B. *)
LEMMA TwoTrimatMaddIs ==
  ASSUME NEW width \in Nat \ {0}, NEW c \in [0 .. (V * width) - 1 -> Batch],
         NEW tri \in Triangles(V), NEW B \in [0 .. (V * width) - 1 -> F]
  PROVE  /\ TwoTrimatMadd(c, tri, B, width) \in [0 .. (V * width) - 1 -> Batch]
         /\ \A e \in Idx(M), i \in Idx(V), j \in Idx(width) :
              TwoTrimatMadd(c, tri, B, width)[(i * width) + j][e]
              = Plus(c[(i * width) + j][e],
                     Sum(V, [k \in Idx(V) |-> Times(Symmetric(tri, e)[i][k], Col(B, j, k))]))
<1> DEFINE AA(i) == [k \in 0 .. V - 1 |-> SymmetricRow(tri, i, k)]
           bb(j) == [k \in 0 .. V - 1 |-> Col(B, j, k)]
           new(i, j) == BatchAdd(c[(i * width) + j], Prod(V, AA(i), bb(j)))
           d == TwoTrimatMadd(c, tri, B, width)
<1>0. V \in Nat \ {0}
  BY Size
<1>1. ASSUME NEW i \in Idx(V), NEW j \in Idx(width)
      PROVE  \A k \in Idx(V) : /\ AA(i)[k] = SymmetricRow(tri, i, k) /\ bb(j)[k] = Col(B, j, k)
                               /\ AA(i)[k] \in Batch /\ bb(j)[k] \in F
  <2>1. \A k \in Idx(V) : SymmetricRow(tri, i, k) \in Batch /\ Col(B, j, k) \in F
    BY ColType, SymmetricRowIs
  <2> QED BY <2>1 DEF Idx
<1>2. ASSUME NEW i \in Idx(V), NEW j \in Idx(width)
      PROVE  /\ c[(i * width) + j] \in Batch /\ Prod(V, AA(i), bb(j)) \in Batch /\ new(i, j) \in Batch
             /\ d[(i * width) + j] = new(i, j)
  <2>1. c[(i * width) + j] \in Batch /\ (i * width) + j \in 0 .. (V * width) - 1
    BY <1>0, RectIndex
  <2>2. Prod(V, AA(i), bb(j)) \in Batch
    <3>1. V \in Nat /\ \A k \in Idx(V) : AA(i)[k] \in Batch /\ bb(j)[k] \in F
      BY <1>0, <1>1
    <3> HIDE DEF AA, bb
    <3> QED BY <3>1, ProdAt
  <2>3. ((i * width) + j) \div width = i /\ ((i * width) + j) % width = j
    BY <1>0, RectIndex
  <2>4. d[(i * width) + j] = new(i, j)
    BY <2>1, <2>3 DEF TwoTrimatMadd
  <2> HIDE DEF AA, bb, d
  <2> QED BY <2>1, <2>2, <2>4, BatchAddType
<1>3. d \in [0 .. (V * width) - 1 -> Batch]
  <2>1. ASSUME NEW n \in 0 .. (V * width) - 1 PROVE d[n] \in Batch
    <3>1. n \div width \in Idx(V) /\ n % width \in Idx(width) /\ n = ((n \div width) * width) + (n % width)
      BY <1>0, RectParts
    <3> HIDE DEF d, new
    <3> QED BY <3>1, <1>2
  <2>2. d = [n \in 0 .. (V * width) - 1 |-> d[n]]
    BY DEF TwoTrimatMadd
  <2> HIDE DEF d
  <2> QED BY <2>1, <2>2
<1>4. ASSUME NEW e \in Idx(M), NEW i \in Idx(V), NEW j \in Idx(width)
      PROVE  d[(i * width) + j][e]
             = Plus(c[(i * width) + j][e],
                    Sum(V, [k \in Idx(V) |-> Times(Symmetric(tri, e)[i][k], Col(B, j, k))]))
  <2>1. Prod(V, AA(i), bb(j))[e] = Sum(V, [k \in Idx(V) |-> Times(AA(i)[k][e], bb(j)[k])])
    <3>1. V \in Nat /\ \A k \in Idx(V) : AA(i)[k] \in Batch /\ bb(j)[k] \in F
      BY <1>0, <1>1
    <3> HIDE DEF AA, bb
    <3> QED BY <3>1, ProdAt
  <2>2. \A k \in Idx(V) : AA(i)[k][e] = Symmetric(tri, e)[i][k] /\ bb(j)[k] = Col(B, j, k)
    <3>1. \A k \in Idx(V) : AA(i)[k] = SymmetricRow(tri, i, k) /\ bb(j)[k] = Col(B, j, k)
      BY <1>1
    <3> HIDE DEF AA, bb
    <3> QED BY <3>1, SymmetricRowIs
  <2> HIDE DEF AA, bb, d
  <2>3. [k \in Idx(V) |-> Times(AA(i)[k][e], bb(j)[k])]
        = [k \in Idx(V) |-> Times(Symmetric(tri, e)[i][k], Col(B, j, k))]
    BY <2>2
  <2>4. new(i, j)[e] = Plus(c[(i * width) + j][e], Prod(V, AA(i), bb(j))[e])
    BY <1>2, BatchAddType
  <2> QED BY <1>2, <2>1, <2>3, <2>4
<1> QED BY <1>3, <1>4

(* expand_sk's way to S: one product with P1 + P1^T.                       *)
LEMMA ExpandedIs ==
  ASSUME NEW c \in Rects, NEW tri \in Triangles(V), NEW B \in Oils
  PROVE  /\ TwoTrimatMadd(c, tri, B, O) \in Rects
         /\ \A e \in Idx(M) :
              Rect(TwoTrimatMadd(c, tri, B, O), e)
              = MatAdd(V, O, Rect(c, e), MatProduct(V, V, O, Symmetric(tri, e), Oil(B)))
<1> DEFINE d == TwoTrimatMadd(c, tri, B, O)
<1>1. V \in Nat /\ O \in Nat \ {0} /\ O \in Nat
  BY Size
<1>2. /\ d \in Rects
      /\ \A e \in Idx(M), i \in Idx(V), j \in Idx(O) :
              d[(i * O) + j][e]
              = Plus(c[(i * O) + j][e],
                     Sum(V, [k \in Idx(V) |-> Times(Symmetric(tri, e)[i][k], Col(B, j, k))]))
  BY <1>1, TwoTrimatMaddIs DEF Rects, Oils
<1> HIDE DEF d
<1>3. ASSUME NEW e \in Idx(M)
      PROVE  Rect(d, e) = MatAdd(V, O, Rect(c, e), MatProduct(V, V, O, Symmetric(tri, e), Oil(B)))
  <2>1. Symmetric(tri, e) \in Mats(V, V) /\ Oil(B) \in Mats(V, O)
    BY SymmetricType, OilType
  <2>2. MatProduct(V, V, O, Symmetric(tri, e), Oil(B)) \in Mats(V, O)
    BY <1>1, <2>1, ProductType
  <2>3. ASSUME NEW i \in Idx(V), NEW j \in Idx(O)
        PROVE  d[(i * O) + j][e]
               = Plus(c[(i * O) + j][e], MatProduct(V, V, O, Symmetric(tri, e), Oil(B))[i][j])
    <3>1. MatProduct(V, V, O, Symmetric(tri, e), Oil(B))[i][j]
          = Sum(V, [k \in Idx(V) |-> Times(Symmetric(tri, e)[i][k], Oil(B)[k][j])])
      BY <1>1, <2>1, ProductEntry
    <3>2. [k \in Idx(V) |-> Times(Symmetric(tri, e)[i][k], Oil(B)[k][j])]
          = [k \in Idx(V) |-> Times(Symmetric(tri, e)[i][k], Col(B, j, k))]
      BY OilType
    <3> QED BY <1>2, <3>1, <3>2
  <2> QED BY <1>2, <2>2, <2>3, RectSum
<1> QED BY <1>2, <1>3 DEF d

-----------------------------------------------------------------------------
(* P3: the upper form of O^T * S.                                          *)
RowOfProduct(A, bB, i, j) ==
  Prod(V, [k \in 0 .. V - 1 |-> bB[(k * O) + j]], [k \in 0 .. V - 1 |-> Col(A, i, k)])

(* Entry j of row i of A^T * B. *)
LEMMA RowOfProductIs ==
  ASSUME NEW A \in Oils, NEW bB \in Rects, NEW i \in Idx(O), NEW j \in Idx(O)
  PROVE  /\ RowOfProduct(A, bB, i, j) \in Batch
         /\ \A e \in Idx(M) :
              RowOfProduct(A, bB, i, j)[e]
              = MatProduct(O, V, O, Transposed(V, O, Oil(A)), Rect(bB, e))[i][j]
<1> DEFINE aa == [k \in 0 .. V - 1 |-> bB[(k * O) + j]]
           bb == [k \in 0 .. V - 1 |-> Col(A, i, k)]
<1>0. V \in Nat /\ O \in Nat
  BY Size
<1>1. \A k \in Idx(V) : /\ aa[k] \in Batch /\ bb[k] \in F
                        /\ aa[k] = bB[(k * O) + j] /\ bb[k] = Col(A, i, k)
  <2>1. TAKE k \in Idx(V)
  <2>2. bB[(k * O) + j] \in Batch
    BY Size, RectIndex DEF Rects
  <2>3. Col(A, i, k) \in F
    BY OilType
  <2> QED BY <2>1, <2>2, <2>3 DEF Idx
<1> HIDE DEF aa, bb
<1>2. Prod(V, aa, bb) \in Batch /\ \A e \in Idx(M) : Prod(V, aa, bb)[e] = Sum(V, [k \in Idx(V) |-> Times(aa[k][e], bb[k])])
  BY <1>0, <1>1, ProdAt
<1>3. RowOfProduct(A, bB, i, j) = Prod(V, aa, bb)
  BY DEF RowOfProduct, aa, bb
<1>4. ASSUME NEW e \in Idx(M)
      PROVE  Prod(V, aa, bb)[e] = MatProduct(O, V, O, Transposed(V, O, Oil(A)), Rect(bB, e))[i][j]
  <2> DEFINE T == Transposed(V, O, Oil(A))
             B == Rect(bB, e)
  <2>1. /\ T \in Mats(O, V) /\ B \in Mats(V, O)
        /\ \A k \in Idx(V) : T[i][k] = Oil(A)[k][i]
    BY <1>0, OilType, RectType, TransposedType
  <2>2. \A k \in Idx(V) : T[i][k] = bb[k] /\ B[k][j] = aa[k][e] /\ T[i][k] \in F /\ B[k][j] \in F
    <3> TAKE k \in Idx(V)
    <3>1. T[i][k] = bb[k]
      BY <1>1, <2>1, OilType
    <3>2. B[k][j] = aa[k][e]
      BY <1>1, RectType
    <3>3. aa[k][e] \in F
      BY <1>1 DEF Batch, Idx
    <3> QED BY <1>1, <3>1, <3>2, <3>3
  <2> HIDE DEF T, B
  <2>3. MatProduct(O, V, O, T, B)[i][j] = Sum(V, [k \in Idx(V) |-> Times(T[i][k], B[k][j])])
    BY <1>0, <2>1, ProductEntry
  <2>4. [k \in Idx(V) |-> Times(T[i][k], B[k][j])] = [k \in Idx(V) |-> Times(aa[k][e], bb[k])]
    BY <2>2, Commutes
  <2> QED BY <1>2, <2>3, <2>4 DEF T, B
<1> QED BY <1>2, <1>3, <1>4

(* One row of batch_upper_matTr_x_mat. *)
WithRow(A, bB, c, i) ==
  [n \in 0 .. Triangle(O) - 1 |->
     IF \E j \in 0 .. i - 1 : ColumnPtr(O, i, j) = n
     THEN LET j == CHOOSE k \in 0 .. i - 1 : ColumnPtr(O, i, k) = n
          IN Fold(c[n], RowOfProduct(A, bB, i, j))
     ELSE IF n \in ColumnPtr(O, i, i) .. ColumnPtr(O, i, i) + (O - i) - 1
     THEN RowOfProduct(A, bB, i, i + (n - ColumnPtr(O, i, i)))
     ELSE c[n]]

(* What the row does to each entry of the packed triangle. *)
LEMMA WithRowIs ==
  ASSUME NEW A \in Oils, NEW bB \in Rects, NEW c \in Triangles(O), NEW i \in Idx(O)
  PROVE  /\ WithRow(A, bB, c, i) \in Triangles(O)
         /\ \A a \in Idx(O), b \in Idx(O) : a <= b =>
              WithRow(A, bB, c, i)[Pos(O, a, b)]
              = IF a < i /\ b = i THEN BatchAdd(c[Pos(O, a, b)], RowOfProduct(A, bB, i, a))
                ELSE IF a = i THEN RowOfProduct(A, bB, i, b) ELSE c[Pos(O, a, b)]
<1> DEFINE d == WithRow(A, bB, c, i)
           R(j) == RowOfProduct(A, bB, i, j)
           at(j) == ColumnPtr(O, i, j)
           body(n) == IF \E j \in 0 .. i - 1 : at(j) = n
                      THEN Fold(c[n], R(CHOOSE k \in 0 .. i - 1 : at(k) = n))
                      ELSE IF n \in at(i) .. at(i) + (O - i) - 1
                      THEN R(i + (n - at(i)))
                      ELSE c[n]
<1>0. O \in Nat /\ i \in Nat /\ i < O /\ i \in 0 .. O
  BY Size DEF Idx
<1>1. \A n \in 0 .. Triangle(O) - 1 : d[n] = body(n)
  BY DEF WithRow
<1>2. d = [n \in 0 .. Triangle(O) - 1 |-> d[n]]
  BY DEF WithRow
<1>3. \A j \in 0 .. i : at(j) = Pos(O, j, i)
  BY <1>0, ColumnPtrIs
<1>4. at(i) = RowStart(O, i) /\ RowStart(O, i) \in Nat
  <2>1. RowStart(O, i) \in Nat
    BY <1>0, RowStartIs
  <2>2. i \in 0 .. i /\ i - i = 0
    BY <1>0
  <2> QED BY <1>3, <2>1, <2>2 DEF Pos
<1>5. \A j \in Idx(O) : R(j) \in Batch
  BY RowOfProductIs
<1> HIDE DEF d, R, at
<1>6. ASSUME NEW n \in 0 .. Triangle(O) - 1 PROVE body(n) \in Batch
  <2>0. c[n] \in Batch
    BY DEF Triangles
  <2>1. CASE \E j \in 0 .. i - 1 : at(j) = n
    <3>1. (CHOOSE k \in 0 .. i - 1 : at(k) = n) \in 0 .. i - 1
      BY <2>1
    <3>2. (CHOOSE k \in 0 .. i - 1 : at(k) = n) \in Idx(O)
      BY <1>0, <3>1 DEF Idx
    <3>3. R(CHOOSE k \in 0 .. i - 1 : at(k) = n) \in Batch
      BY <1>5, <3>2
    <3>4. Fold(c[n], R(CHOOSE k \in 0 .. i - 1 : at(k) = n)) \in Batch
      BY <2>0, <3>3, BatchAddType DEF Fold
    <3> QED BY <2>1, <3>4
  <2>2. CASE ~(\E j \in 0 .. i - 1 : at(j) = n) /\ n \in at(i) .. at(i) + (O - i) - 1
    <3>1. i + (n - at(i)) \in Idx(O)
      BY <1>0, <1>4, <2>2 DEF Idx
    <3> QED BY <1>5, <2>2, <3>1
  <2>3. CASE ~(\E j \in 0 .. i - 1 : at(j) = n) /\ ~(n \in at(i) .. at(i) + (O - i) - 1)
    BY <2>0, <2>3
  <2> QED BY <2>1, <2>2, <2>3
<1>7. d \in Triangles(O)
  <2> HIDE DEF body
  <2> QED BY <1>1, <1>2, <1>6 DEF Triangles
<1>8. ASSUME NEW a \in Idx(O), NEW b \in Idx(O), a <= b
      PROVE  body(Pos(O, a, b)) = IF a < i /\ b = i THEN BatchAdd(c[Pos(O, a, b)], R(a))
                                  ELSE IF a = i THEN R(b) ELSE c[Pos(O, a, b)]
  <2> DEFINE n == Pos(O, a, b)
  <2>0. a \in Nat /\ b \in Nat /\ a < O /\ b < O /\ a \in 0 .. O
    BY Size DEF Idx
  <2>00. /\ RowStart(O, a) \in Nat /\ RowStart(O, a) <= n /\ n < RowStart(O, a) + (O - a)
         /\ n = RowStart(O, a) + (b - a)
    BY <1>0, <1>8, <2>0, RowStartIs, PosInside DEF Pos
  <2>01. ASSUME NEW j \in 0 .. i - 1, at(j) = n PROVE j = a /\ i = b
    <3>1. j \in Idx(O) /\ j <= i /\ j \in 0 .. i
      BY <1>0 DEF Idx
    <3>2. Pos(O, j, i) = Pos(O, a, b)
      BY <1>3, <2>01, <3>1
    <3> QED BY <1>0, <1>8, <3>1, <3>2, PosUnique
  <2>1. CASE a < i /\ b = i
    <3>1. a \in 0 .. i - 1 /\ at(a) = n
      BY <1>0, <1>3, <2>0, <2>1
    <3>2. (CHOOSE k \in 0 .. i - 1 : at(k) = n) = a
      <4> HIDE DEF n
      <4> QED BY <2>01, <3>1
    <3>3. body(n) = Fold(c[n], R(a))
      <4> HIDE DEF n
      <4> QED BY <3>1, <3>2
    <3> QED BY <2>1, <3>3 DEF Fold
  <2>2. CASE a = i
    <3>1. ~(\E j \in 0 .. i - 1 : at(j) = n)
      <4> HIDE DEF n
      <4> QED BY <1>0, <2>01, <2>2
    <3>2. n \in at(i) .. at(i) + (O - i) - 1 /\ i + (n - at(i)) = b
      BY <1>0, <1>4, <2>0, <2>00, <2>2
    <3>3. body(n) = R(b)
      <4> HIDE DEF n
      <4> QED BY <3>1, <3>2
    <3>4. ~(a < i)
      BY <1>0, <2>2
    <3> QED BY <2>2, <3>3, <3>4
  <2>3. CASE ~(a < i /\ b = i) /\ a # i
    <3>1. ~(\E j \in 0 .. i - 1 : at(j) = n)
      <4>1. ASSUME NEW j \in 0 .. i - 1, at(j) = n PROVE FALSE
        <5> HIDE DEF n
        <5>1. j = a /\ i = b
          BY <2>01, <4>1
        <5> QED BY <1>0, <2>3, <5>1
      <4> QED BY <4>1
    <3>2. ~(n \in at(i) .. at(i) + (O - i) - 1)
      <4>1. CASE a < i
        <5>1. RowStart(O, a) + (O - a) <= RowStart(O, i)
          BY <1>0, <4>1, RowsApart
        <5> QED BY <1>0, <1>4, <2>0, <2>00, <5>1
      <4>2. CASE i < a
        <5>1. RowStart(O, i) + (O - i) <= RowStart(O, a)
          BY <1>0, <2>0, <4>2, RowsApart
        <5> QED BY <1>0, <1>4, <2>0, <2>00, <5>1
      <4> QED BY <1>0, <2>0, <2>3, <4>1, <4>2
    <3>3. body(n) = c[n]
      <4> HIDE DEF n
      <4> QED BY <3>1, <3>2
    <3> QED BY <2>3, <3>3
  <2> QED BY <2>1, <2>2, <2>3
<1>9. ASSUME NEW a \in Idx(O), NEW b \in Idx(O), a <= b
      PROVE  d[Pos(O, a, b)] = body(Pos(O, a, b))
  <2>1. Pos(O, a, b) \in 0 .. Triangle(O) - 1
    BY <1>0, <1>9, PosInside DEF Idx
  <2> HIDE DEF body
  <2> QED BY <1>1, <2>1
<1> HIDE DEF body
<1>10. \A a \in Idx(O), b \in Idx(O) : a <= b =>
          d[Pos(O, a, b)] = IF a < i /\ b = i THEN BatchAdd(c[Pos(O, a, b)], R(a))
                            ELSE IF a = i THEN R(b) ELSE c[Pos(O, a, b)]
  BY <1>8, <1>9
<1> QED BY <1>7, <1>10 DEF d, R

(* After i rows. *)
RowsDone(A, bB, c, i) ==
  /\ c \in Triangles(O)
  /\ \A a \in Idx(O), b \in Idx(O) : a <= b /\ a < i =>
       c[Pos(O, a, b)]
       = IF a < b /\ b < i THEN BatchAdd(RowOfProduct(A, bB, a, b), RowOfProduct(A, bB, b, a))
         ELSE RowOfProduct(A, bB, a, b)

(* One more row. *)
LEMMA RowsDoneStep ==
  ASSUME NEW A \in Oils, NEW bB \in Rects, NEW i \in Idx(O), NEW c, RowsDone(A, bB, c, i)
  PROVE  RowsDone(A, bB, WithRow(A, bB, c, i), i + 1)
<1> DEFINE R(a, b) == RowOfProduct(A, bB, a, b)
           d == WithRow(A, bB, c, i)
<1>0. c \in Triangles(O) /\ i \in Nat
  BY DEF RowsDone, Idx
<1>1. /\ d \in Triangles(O)
      /\ \A a \in Idx(O), b \in Idx(O) : a <= b =>
           d[Pos(O, a, b)] = IF a < i /\ b = i THEN BatchAdd(c[Pos(O, a, b)], R(i, a))
                             ELSE IF a = i THEN R(i, b) ELSE c[Pos(O, a, b)]
  BY <1>0, WithRowIs
<1>2. \A a \in Idx(O), b \in Idx(O) : a <= b /\ a < i =>
        c[Pos(O, a, b)] = IF a < b /\ b < i THEN BatchAdd(R(a, b), R(b, a)) ELSE R(a, b)
  BY DEF RowsDone
<1> HIDE DEF d, R
<1>3. ASSUME NEW a \in Idx(O), NEW b \in Idx(O), a <= b, a < i + 1
      PROVE  d[Pos(O, a, b)] = IF a < b /\ b < i + 1 THEN BatchAdd(R(a, b), R(b, a)) ELSE R(a, b)
  <2>0. a \in Nat /\ b \in Nat
    BY DEF Idx
  <2>1. CASE a = i
    <3>1. d[Pos(O, a, b)] = R(a, b)
      BY <1>0, <1>1, <1>3, <2>0, <2>1
    <3>2. ~(a < b /\ b < i + 1)
      BY <1>0, <2>0, <2>1
    <3> QED BY <3>1, <3>2
  <2>2. CASE a < i /\ b = i
    <3>1. d[Pos(O, a, b)] = BatchAdd(c[Pos(O, a, b)], R(b, a))
      BY <1>1, <1>3, <2>2
    <3>2. c[Pos(O, a, b)] = R(a, b)
      <4>1. ~(b < i)
        BY <1>0, <2>0, <2>2
      <4> QED BY <1>2, <1>3, <2>2, <4>1
    <3>3. a < b /\ b < i + 1
      BY <1>0, <2>0, <2>2
    <3> QED BY <3>1, <3>2, <3>3
  <2>3. CASE a < i /\ b # i
    <3>1. d[Pos(O, a, b)] = c[Pos(O, a, b)]
      <4>1. a # i
        BY <1>0, <2>0, <2>3
      <4> QED BY <1>1, <1>3, <2>3, <4>1
    <3>2. b < i + 1 <=> b < i
      BY <1>0, <2>0, <2>3
    <3> QED BY <1>2, <1>3, <2>3, <3>1, <3>2
  <2> QED BY <1>0, <1>3, <2>0, <2>1, <2>2, <2>3
<1> QED BY <1>1, <1>3 DEF RowsDone, d, R

(* All rows, whatever was in C. *)
LEMMA UpperMatIs ==
  ASSUME NEW c \in Triangles(O), NEW A \in Oils, NEW bB \in Rects
  PROVE  RowsDone(A, bB, UpperMatTrXMat(c, A, bB), O)
<1> DEFINE Rec(g) == [i \in 0 .. O |-> IF i = 0 THEN c ELSE WithRow(A, bB, g[i - 1], i - 1)]
           rows == CHOOSE g : g = Rec(g)
           h == [k \in 0 .. O - 1 |-> [t \in Triangles(O) |-> WithRow(A, bB, t, k)]]
<1>0. O \in Nat
  BY Size
<1>1. h \in [0 .. O - 1 -> [Triangles(O) -> Triangles(O)]]
  <2>1. \A k \in 0 .. O - 1 : \A t \in Triangles(O) : WithRow(A, bB, t, k) \in Triangles(O)
    BY WithRowIs DEF Idx
  <2> QED BY <2>1
<1>2. PICK g : IsRec(O, Triangles(O), c, h, g)
  <2> HIDE DEF h
  <2> QED BY <1>0, <1>1, RecExists
<1>3. g \in [0 .. O -> Triangles(O)] /\ g[0] = c
  BY <1>2 DEF IsRec
<1>4. \A k \in Idx(O) : g[k + 1] = WithRow(A, bB, g[k], k)
  <2>1. TAKE k \in Idx(O)
  <2>2. k \in 0 .. O - 1 /\ g[k] \in Triangles(O)
    BY <1>0, <1>3 DEF Idx
  <2>3. h[k][g[k]] = WithRow(A, bB, g[k], k)
    BY <2>2
  <2> HIDE DEF h
  <2> QED BY <1>2, <2>2, <2>3 DEF IsRec
<1>5. g = Rec(g)
  <2>1. ASSUME NEW k \in 0 .. O PROVE g[k] = Rec(g)[k]
    <3>1. CASE k = 0
      BY <1>3, <3>1
    <3>2. CASE k # 0
      <4>1. k - 1 \in Idx(O) /\ (k - 1) + 1 = k
        BY <1>0, <3>2 DEF Idx
      <4> QED BY <1>4, <3>2, <4>1
    <3> QED BY <3>1, <3>2
  <2> QED BY <1>3, <2>1
<1>6. rows = Rec(rows)
  <2> HIDE DEF Rec
  <2> QED BY <1>5
<1>7. UpperMatTrXMat(c, A, bB) = rows[O]
  BY DEF UpperMatTrXMat, WithRow, RowOfProduct
<1> HIDE DEF rows
<1>8. rows[0] = c
  BY <1>0, <1>6
<1>9. ASSUME NEW k \in Idx(O) PROVE rows[k + 1] = WithRow(A, bB, rows[k], k)
  <2>1. k + 1 \in 0 .. O /\ k + 1 # 0 /\ (k + 1) - 1 = k
    BY <1>0 DEF Idx
  <2> QED BY <1>6, <2>1
<1> HIDE DEF Rec
<1> DEFINE Z == { k \in 0 .. O : RowsDone(A, bB, rows[k], k) }
<1>10. 0 \in Z
  <2>1. RowsDone(A, bB, c, 0)
    BY DEF RowsDone, Idx
  <2> QED BY <1>0, <1>8, <2>1
<1>11. ASSUME NEW k \in 0 .. O - 1, k \in Z PROVE k + 1 \in Z
  <2>1. k \in Idx(O) /\ k + 1 \in 0 .. O
    BY <1>0 DEF Idx
  <2>2. RowsDone(A, bB, rows[k], k)
    BY <1>11
  <2>3. RowsDone(A, bB, WithRow(A, bB, rows[k], k), k + 1)
    BY <2>1, <2>2, RowsDoneStep
  <2> QED BY <1>9, <2>1, <2>3
<1>12. \A k \in 0 .. O : k \in Z
  <2> HIDE DEF Z
  <2> QED BY <1>0, <1>10, <1>11, InductionUpTo
<1>13. O \in Z
  <2> HIDE DEF Z
  <2> QED BY <1>0, <1>12
<1> QED BY <1>7, <1>13

(* The finished P3 is O^T * S folded into its upper triangle, whatever was *)
(* in the memory before.                                                   *)
LEMMA UpperMatFolded ==
  ASSUME NEW c \in Triangles(O), NEW A \in Oils, NEW bB \in Rects
  PROVE  /\ UpperMatTrXMat(c, A, bB) \in Triangles(O)
         /\ \A e \in Idx(M) :
              Upper(UpperMatTrXMat(c, A, bB), O, e)
              = Folded(O, MatProduct(O, V, O, Transposed(V, O, Oil(A)), Rect(bB, e)))
<1> DEFINE d == UpperMatTrXMat(c, A, bB)
<1>0. O \in Nat
  BY Size
<1>1. RowsDone(A, bB, d, O)
  BY UpperMatIs
<1> HIDE DEF d
<1>2. d \in Triangles(O)
  BY <1>1 DEF RowsDone
<1>3. ASSUME NEW e \in Idx(M)
      PROVE  Upper(d, O, e) = Folded(O, MatProduct(O, V, O, Transposed(V, O, Oil(A)), Rect(bB, e)))
  <2> DEFINE R == MatProduct(O, V, O, Transposed(V, O, Oil(A)), Rect(bB, e))
  <2>1. ASSUME NEW i \in Idx(O), NEW j \in Idx(O)
        PROVE  (IF i <= j THEN d[Pos(O, i, j)][e] ELSE Zero)
               = IF i = j THEN R[i][j] ELSE IF i < j THEN Plus(R[i][j], R[j][i]) ELSE Zero
    <3>0. i \in Nat /\ j \in Nat /\ i < O /\ j < O
      BY <1>0 DEF Idx
    <3>1. /\ RowOfProduct(A, bB, i, j) \in Batch /\ RowOfProduct(A, bB, j, i) \in Batch
          /\ RowOfProduct(A, bB, i, j)[e] = R[i][j] /\ RowOfProduct(A, bB, j, i)[e] = R[j][i]
      BY RowOfProductIs
    <3> HIDE DEF R
    <3>2. CASE i = j
      <4>1. d[Pos(O, i, j)] = RowOfProduct(A, bB, i, j)
        <5>1. i <= j /\ ~(i < j)
          BY <3>0, <3>2
        <5> QED BY <1>1, <3>0, <5>1 DEF RowsDone
      <4> QED BY <3>0, <3>1, <3>2, <4>1
    <3>3. CASE i < j
      <4>1. d[Pos(O, i, j)] = BatchAdd(RowOfProduct(A, bB, i, j), RowOfProduct(A, bB, j, i))
        <5>1. i <= j
          BY <3>0, <3>3
        <5> QED BY <1>1, <3>0, <3>3, <5>1 DEF RowsDone
      <4>2. d[Pos(O, i, j)][e] = Plus(R[i][j], R[j][i])
        BY <3>1, <4>1, BatchAddType
      <4> QED BY <3>0, <3>3, <4>2
    <3>4. CASE j < i
      BY <3>0, <3>4
    <3> QED BY <3>0, <3>2, <3>3, <3>4
  <2> HIDE DEF R
  <2>2. Upper(d, O, e) = Folded(O, R)
    BY <2>1 DEF Upper, Folded
  <2> QED BY <2>2 DEF R
<1> QED BY <1>2, <1>3 DEF d

-----------------------------------------------------------------------------
(* Every place in a packed triangle is some entry's.                       *)
LEMMA PosOnto ==
  ASSUME NEW dim \in Nat
  PROVE  \A p \in Idx(Triangle(dim)) :
           \E i \in Idx(dim), j \in Idx(dim) : i <= j /\ p = Pos(dim, i, j)
<1> DEFINE Found(p) == \E i \in Idx(dim), j \in Idx(dim) : i <= j /\ p = Pos(dim, i, j)
           Z == { r \in 0 .. dim : \A p \in 0 .. RowStart(dim, r) - 1 : Found(p) }
<1>1. 0 \in Z
  BY RowStartIs
<1>2. ASSUME NEW r \in 0 .. dim - 1, r \in Z PROVE r + 1 \in Z
  <2>1. r \in Idx(dim) /\ r \in 0 .. dim /\ r + 1 \in 0 .. dim /\ r \in Nat
    BY DEF Idx
  <2>2. RowStart(dim, r + 1) = RowStart(dim, r) + (dim - r) /\ RowStart(dim, r) \in Nat
    BY <2>1, RowStartIs
  <2>3. ASSUME NEW p \in 0 .. RowStart(dim, r + 1) - 1 PROVE Found(p)
    <3>1. CASE p < RowStart(dim, r)
      <4>1. p \in 0 .. RowStart(dim, r) - 1
        BY <2>2, <3>1
      <4> QED BY <1>2, <4>1
    <3>2. CASE p >= RowStart(dim, r)
      <4> DEFINE j == r + (p - RowStart(dim, r))
      <4>1. j \in Idx(dim) /\ r <= j /\ p = Pos(dim, r, j)
        BY <2>1, <2>2, <3>2 DEF Idx, Pos
      <4> HIDE DEF j
      <4> QED BY <2>1, <4>1
    <3> QED BY <2>2, <3>1, <3>2
  <2> QED BY <2>1, <2>3
<1>3. \A r \in 0 .. dim : r \in Z
  <2> HIDE DEF Z
  <2> QED BY <1>1, <1>2, InductionUpTo
<1>4. \A p \in 0 .. RowStart(dim, dim) - 1 : Found(p)
  <2> HIDE DEF Found
  <2> QED BY <1>3
<1> QED BY <1>4, RowStartEnd DEF Idx

-----------------------------------------------------------------------------
(* A row of a packed triangle against a vector. *)
LEMMA UpperRow ==
  ASSUME NEW dim \in Nat, NEW tri \in Triangles(dim), NEW e \in Idx(M), NEW x \in Vec(dim),
         NEW i \in Idx(dim)
  PROVE  /\ dim - i \in Nat
         /\ \A k \in Idx(dim - i) : /\ tri[RowStart(dim, i) + k] \in Batch
                                    /\ tri[RowStart(dim, i) + k][e] \in F
                                    /\ i + k \in Idx(dim) /\ x[i + k] \in F
         /\ Sum(dim - i, [k \in Idx(dim - i) |-> Times(tri[RowStart(dim, i) + k][e], x[i + k])])
            = Apply(dim, dim, Upper(tri, dim, e), x)[i]
<1> DEFINE U == Upper(tri, dim, e)
           f == [k \in Idx(dim) |-> Times(U[i][k], x[k])]
           g == [k \in Idx(dim - i) |-> Times(tri[RowStart(dim, i) + k][e], x[i + k])]
<1>0. i \in Nat /\ dim - i \in Nat /\ i + (dim - i) = dim
  BY DEF Idx
<1>1. U \in Mats(dim, dim)
  BY UpperType
<1>2. \A k \in Idx(dim - i) : /\ tri[RowStart(dim, i) + k] \in Batch
                              /\ tri[RowStart(dim, i) + k][e] \in F
                              /\ i + k \in Idx(dim) /\ x[i + k] \in F
                              /\ U[i][i + k] = tri[RowStart(dim, i) + k][e]
  <2>1. TAKE k \in Idx(dim - i)
  <2>2. i + k \in Idx(dim) /\ i <= i + k /\ (i + k) - i = k
    BY <1>0 DEF Idx
  <2>3. Pos(dim, i, i + k) = RowStart(dim, i) + k
    BY <2>2 DEF Pos
  <2>4. tri[Pos(dim, i, i + k)] \in Batch /\ U[i][i + k] = tri[Pos(dim, i, i + k)][e]
    BY <2>2, UpperType
  <2>5. x[i + k] \in F
    BY <2>2 DEF Vec
  <2> QED BY <2>2, <2>3, <2>4, <2>5 DEF Batch, Idx
<1>3. \A k \in Idx(i) : U[i][k] = Zero /\ x[k] \in F /\ k \in Idx(dim)
  <2>1. TAKE k \in Idx(i)
  <2>2. k \in Idx(dim) /\ k < i
    BY <1>0 DEF Idx
  <2> QED BY <2>2, UpperType DEF Vec
<1>4. Apply(dim, dim, U, x)[i] = Sum(dim, f)
  BY DEF Apply, Inner
<1> HIDE DEF U
<1>5. \A k \in Idx(i) : f[k] = Zero
  BY <1>3, TimesZero
<1>6. \A k \in Idx(dim - i) : g[k] \in F /\ g[k] = f[i + k]
  BY <1>2, Ring
<1>7. Sum(dim - i, g) = Sum(dim, f)
  <2> HIDE DEF f, g
  <2>1. Sum(i + (dim - i), f) = Sum(dim - i, g)
    BY <1>0, <1>5, <1>6, SumFrom
  <2> QED BY <1>0, <2>1
<1> HIDE DEF f
<1> QED BY <1>0, <1>2, <1>4, <1>7 DEF U

(* The first n rows, each times its own variable. *)
LongRow(tri, x, dim, i) ==
  Prod(dim - i, [k \in 0 .. dim - i - 1 |-> tri[RowStart(dim, i) + k]],
                [k \in 0 .. dim - i - 1 |-> x[i + k]])

(* It is the row of A x. *)
LEMMA LongRowIs ==
  ASSUME NEW dim \in Nat, NEW tri \in Triangles(dim), NEW x \in Vec(dim), NEW i \in Idx(dim)
  PROVE  /\ LongRow(tri, x, dim, i) \in Batch
         /\ \A e \in Idx(M) : LongRow(tri, x, dim, i)[e] = Apply(dim, dim, Upper(tri, dim, e), x)[i]
<1> DEFINE aa == [k \in 0 .. dim - i - 1 |-> tri[RowStart(dim, i) + k]]
           bb == [k \in 0 .. dim - i - 1 |-> x[i + k]]
<1>0. 0 \in Idx(M)
  BY Size DEF Idx
<1>1. dim - i \in Nat /\ i \in Nat
  BY DEF Idx
<1>2. \A k \in Idx(dim - i) : /\ aa[k] \in Batch /\ bb[k] \in F
                              /\ aa[k] = tri[RowStart(dim, i) + k] /\ bb[k] = x[i + k]
  <2>1. \A k \in Idx(dim - i) : tri[RowStart(dim, i) + k] \in Batch /\ x[i + k] \in F
    BY <1>0, UpperRow
  <2>2. Idx(dim - i) = 0 .. dim - i - 1
    BY <1>1 DEF Idx
  <2> QED BY <2>1, <2>2
<1>3. LongRow(tri, x, dim, i) = Prod(dim - i, aa, bb)
  BY DEF LongRow
<1> HIDE DEF aa, bb
<1>4. /\ Prod(dim - i, aa, bb) \in Batch
      /\ \A e \in Idx(M) : Prod(dim - i, aa, bb)[e] = Sum(dim - i, [k \in Idx(dim - i) |-> Times(aa[k][e], bb[k])])
  BY <1>1, <1>2, ProdAt
<1>5. ASSUME NEW e \in Idx(M)
      PROVE  Prod(dim - i, aa, bb)[e] = Apply(dim, dim, Upper(tri, dim, e), x)[i]
  <2>1. [k \in Idx(dim - i) |-> Times(aa[k][e], bb[k])]
        = [k \in Idx(dim - i) |-> Times(tri[RowStart(dim, i) + k][e], x[i + k])]
    BY <1>2
  <2>2. Prod(dim - i, aa, bb)[e] = Sum(dim - i, [k \in Idx(dim - i) |-> Times(aa[k][e], bb[k])])
    BY <1>4
  <2>3. Sum(dim - i, [k \in Idx(dim - i) |-> Times(tri[RowStart(dim, i) + k][e], x[i + k])])
        = Apply(dim, dim, Upper(tri, dim, e), x)[i]
    BY UpperRow
  <2> QED BY <2>1, <2>2, <2>3
<1> QED BY <1>3, <1>4, <1>5

TailTerms(x, dim) ==
  [t \in 0 .. Triangle(Tail) - 1 |->
     LET p == CHOOSE q \in (0 .. Tail - 1) \X (0 .. Tail - 1) :
                q[1] <= q[2] /\ RowStart(Tail, q[1]) + (q[2] - q[1]) = t
     IN Times(x[(dim - Tail) + p[1]], x[(dim - Tail) + p[2]])]

(* The packed products of the last Tail variables, in the triangle's order. *)
LEMMA TailTermsIs ==
  ASSUME NEW x \in Vec(V)
  PROVE  /\ \A t \in Idx(Triangle(Tail)) : TailTerms(x, V)[t] \in F
         /\ \A i \in Idx(Tail), j \in Idx(Tail) : i <= j =>
              /\ (V - Tail) + i \in Idx(V) /\ (V - Tail) + j \in Idx(V)
              /\ TailTerms(x, V)[Pos(Tail, i, j)] = Times(x[(V - Tail) + i], x[(V - Tail) + j])
<1> DEFINE Good(t, q) == q[1] <= q[2] /\ RowStart(Tail, q[1]) + (q[2] - q[1]) = t
           p(t) == CHOOSE q \in (0 .. Tail - 1) \X (0 .. Tail - 1) : Good(t, q)
<1>0. Tail \in Nat /\ V \in Nat /\ V - Tail \in Nat
  BY Size
<1>1. \A i \in Idx(Tail) : (V - Tail) + i \in Idx(V) /\ x[(V - Tail) + i] \in F
  <2>1. TAKE i \in Idx(Tail)
  <2>2. (V - Tail) + i \in Idx(V)
    BY <1>0 DEF Idx
  <2> QED BY <2>2 DEF Vec
<1>2. ASSUME NEW i \in Idx(Tail), NEW j \in Idx(Tail), i <= j
      PROVE  /\ Pos(Tail, i, j) \in Idx(Triangle(Tail))
             /\ TailTerms(x, V)[Pos(Tail, i, j)] = Times(x[(V - Tail) + i], x[(V - Tail) + j])
  <2> DEFINE t == Pos(Tail, i, j)
  <2>1. t \in Idx(Triangle(Tail)) /\ t \in 0 .. Triangle(Tail) - 1
    BY <1>0, <1>2, PosInside DEF Idx
  <2>2. <<i, j>> \in (0 .. Tail - 1) \X (0 .. Tail - 1) /\ Good(t, <<i, j>>)
    BY <1>2 DEF Idx, Pos
  <2>3. p(t) \in (0 .. Tail - 1) \X (0 .. Tail - 1) /\ Good(t, p(t))
    <3> HIDE DEF Good, t
    <3> QED BY <2>2
  <2>4. p(t)[1] \in Idx(Tail) /\ p(t)[2] \in Idx(Tail) /\ p(t)[1] <= p(t)[2]
        /\ Pos(Tail, p(t)[1], p(t)[2]) = Pos(Tail, i, j)
    <3> HIDE DEF p
    <3> QED BY <2>3 DEF Idx, Pos
  <2>5. p(t)[1] = i /\ p(t)[2] = j
    <3> HIDE DEF p, t
    <3> QED BY <1>0, <1>2, <2>4, PosUnique
  <2>6. TailTerms(x, V)[t] = Times(x[(V - Tail) + p(t)[1]], x[(V - Tail) + p(t)[2]])
    <3> HIDE DEF t
    <3> QED BY <2>1 DEF TailTerms
  <2> HIDE DEF p
  <2> QED BY <2>1, <2>5, <2>6
<1>3. ASSUME NEW t \in Idx(Triangle(Tail)) PROVE TailTerms(x, V)[t] \in F
  <2>1. PICK i \in Idx(Tail), j \in Idx(Tail) : i <= j /\ t = Pos(Tail, i, j)
    BY <1>0, PosOnto
  <2> QED BY <1>1, <1>2, <2>1, Ring
<1> QED BY <1>1, <1>2, <1>3

(* batch_quad_trimat_eval is x^T * A * x. *)
LEMMA QuadTrimatEvalIs ==
  ASSUME NEW tri \in Triangles(V), NEW x \in Vec(V)
  PROVE  /\ QuadTrimatEval(tri, x, V) \in Batch
         /\ \A e \in Idx(M) :
              QuadTrimatEval(tri, x, V)[e] = Inner(V, x, Apply(V, V, Upper(tri, V, e), x))
<1> DEFINE n == LongRows(V)
           g == [i \in Idx(n) |-> BatchScale(LongRow(tri, x, V, i), x[i])]
           Rec(a) == [i \in 0 .. n |-> IF i = 0 THEN ZeroBatch
                                       ELSE BatchAdd(a[i - 1], BatchScale(LongRow(tri, x, V, i - 1), x[i - 1]))]
           yy == CHOOSE a : a = Rec(a)
           first == RowStart(V, V - Tail)
           AA == [t \in 0 .. Triangle(Tail) - 1 |-> tri[first + t]]
           qt == TailTerms(x, V)
<1>0. V \in Nat /\ Tail \in Nat /\ n \in Nat /\ n = V - Tail /\ n + Tail = V /\ n \in 0 .. V /\ Tail \in 0 .. V
  BY Size DEF LongRows
<1>1. QuadTrimatEval(tri, x, V) = BatchAdd(yy[n], Prod(Triangle(Tail), AA, qt))
  BY DEF QuadTrimatEval, LongRow, TailTerms
<1> HIDE DEF n
<1>2. \A i \in Idx(n) : /\ i \in Idx(V) /\ x[i] \in F /\ LongRow(tri, x, V, i) \in Batch
                        /\ g[i] \in Batch /\ g[i] = BatchScale(LongRow(tri, x, V, i), x[i])
  <2>1. TAKE i \in Idx(n)
  <2>2. i \in Idx(V)
    BY <1>0 DEF Idx
  <2>3. x[i] \in F /\ LongRow(tri, x, V, i) \in Batch
    BY <1>0, <2>2, LongRowIs DEF Vec
  <2> QED BY <2>2, <2>3, BatchScaleType
<1>3. PICK c : Adds(n, g, c) /\ DOMAIN c = 0 .. n /\ c = [k \in 0 .. n |-> c[k]]
  <2> HIDE DEF g
  <2> QED BY <1>0, <1>2, AddsExists
<1> HIDE DEF g
<1>4. c = Rec(c)
  <2>1. ASSUME NEW k \in 0 .. n PROVE c[k] = Rec(c)[k]
    <3>1. CASE k = 0
      BY <1>3, <3>1 DEF Adds
    <3>2. CASE k # 0
      <4>1. k - 1 \in Idx(n) /\ (k - 1) + 1 = k
        BY <1>0, <3>2 DEF Idx
      <4>2. c[k] = BatchAdd(c[k - 1], BatchScale(LongRow(tri, x, V, k - 1), x[k - 1]))
        BY <1>2, <1>3, <4>1 DEF Adds
      <4> QED BY <3>2, <4>2
    <3> QED BY <3>1, <3>2
  <2> QED BY <1>3, <2>1
<1>5. yy = Rec(yy)
  <2> HIDE DEF Rec
  <2> QED BY <1>4
<1> HIDE DEF yy
<1>6. Adds(n, g, yy)
  <2>1. yy[0] = ZeroBatch
    BY <1>0, <1>5
  <2>2. ASSUME NEW k \in Idx(n) PROVE yy[k + 1] = BatchAdd(yy[k], g[k])
    <3>1. k + 1 \in 0 .. n /\ k + 1 # 0 /\ (k + 1) - 1 = k
      BY <1>0 DEF Idx
    <3>2. yy[k + 1] = BatchAdd(yy[k], BatchScale(LongRow(tri, x, V, k), x[k]))
      BY <1>5, <3>1
    <3> QED BY <1>2, <3>2
  <2> QED BY <2>1, <2>2 DEF Adds
<1> HIDE DEF Rec
<1>7. yy[n] \in Batch /\ \A e \in Idx(M) : yy[n][e] = Sum(n, [k \in Idx(n) |-> g[k][e]])
  BY <1>0, <1>2, <1>6, AddsSum
<1>8. ASSUME NEW t \in Idx(Triangle(Tail)) PROVE AA[t] \in Batch /\ AA[t] = tri[first + t] /\ qt[t] \in F
  <2>1. PICK i \in Idx(Tail), j \in Idx(Tail) : i <= j /\ t = Pos(Tail, i, j)
    BY <1>0, PosOnto
  <2>2. i \in Nat /\ i < Tail /\ i \in 0 .. Tail /\ n + i \in Idx(V) /\ n + j \in Idx(V) /\ n + i <= n + j /\ j \in Nat
    BY <1>0, <2>1 DEF Idx
  <2>3. RowStart(V, n + i) = first + RowStart(Tail, i) /\ first \in Nat /\ RowStart(Tail, i) \in Nat
    BY <1>0, <2>2, TailRows, RowStartIs
  <2>4. Pos(V, n + i, n + j) = first + t
    <3> HIDE DEF first
    <3> QED BY <1>0, <2>1, <2>2, <2>3 DEF Pos
  <2>5. Pos(V, n + i, n + j) \in 0 .. Triangle(V) - 1
    BY <1>0, <2>2, PosInside DEF Idx
  <2>6. tri[first + t] \in Batch
    BY <2>4, <2>5 DEF Triangles
  <2>7. AA[t] = tri[first + t]
    BY DEF Idx
  <2> QED BY <2>6, <2>7, TailTermsIs
<1>9. Triangle(Tail) \in Nat
  BY <1>0, RowStartEnd
<1> HIDE DEF AA, qt
<1>10. /\ Prod(Triangle(Tail), AA, qt) \in Batch
       /\ \A e \in Idx(M) : Prod(Triangle(Tail), AA, qt)[e]
                            = Sum(Triangle(Tail), [k \in Idx(Triangle(Tail)) |-> Times(AA[k][e], qt[k])])
  BY <1>8, <1>9, ProdAt
<1>11. ASSUME NEW e \in Idx(M)
       PROVE  QuadTrimatEval(tri, x, V)[e] = Inner(V, x, Apply(V, V, Upper(tri, V, e), x))
  <2> DEFINE ux == Apply(V, V, Upper(tri, V, e), x)
             f == [i \in Idx(V) |-> Times(x[i], ux[i])]
             f1 == [k \in Idx(n) |-> g[k][e]]
             f2 == [q \in Idx(Tail) |-> Times(x[n + q], ux[n + q])]
             ft == [k \in Idx(Triangle(Tail)) |-> Times(AA[k][e], qt[k])]
  <2>1. \A i \in Idx(V) : x[i] \in F /\ ux[i] \in F
    <3>1. ux \in Vec(V)
      BY <1>0, UpperType, ApplyType
    <3> HIDE DEF ux
    <3> QED BY <3>1 DEF Vec
  <2>2. Inner(V, x, ux) = Sum(V, f)
    BY DEF Inner
  <2> HIDE DEF ux
  <2>3. \A k \in Idx(n) : f1[k] = f[k] /\ f1[k] \in F
    <3>1. TAKE k \in Idx(n)
    <3>2. g[k][e] = Times(LongRow(tri, x, V, k)[e], x[k])
      BY <1>2, BatchScaleType
    <3>3. LongRow(tri, x, V, k)[e] = ux[k]
      BY <1>0, <1>2, LongRowIs DEF ux
    <3>4. f1[k] = g[k][e] /\ f[k] = Times(x[k], ux[k]) /\ x[k] \in F /\ ux[k] \in F
      BY <1>2, <2>1
    <3> HIDE DEF f1, f
    <3> QED BY <3>2, <3>3, <3>4, Commutes, Ring
  <2>4. ASSUME NEW q \in Idx(Tail)
        PROVE  f2[q] = Sum(Tail - q, [k \in Idx(Tail - q) |-> ft[RowStart(Tail, q) + k]])
    <3> DEFINE i == n + q
               f3 == [k \in Idx(V - i) |-> Times(tri[RowStart(V, i) + k][e], x[i + k])]
               f4 == [k \in Idx(Tail - q) |-> ft[RowStart(Tail, q) + k]]
    <3>1. i \in Idx(V) /\ V - i = Tail - q /\ q \in Nat /\ q \in 0 .. Tail /\ Tail - q \in Nat
      BY <1>0 DEF Idx
    <3>2. RowStart(V, i) = first + RowStart(Tail, q) /\ first \in Nat /\ RowStart(Tail, q) \in Nat
      BY <1>0, <3>1, TailRows, RowStartIs
    <3> HIDE DEF i, first
    <3>3. ASSUME NEW k \in Idx(Tail - q) PROVE f4[k] = Times(f3[k], x[i]) /\ f3[k] \in F
      <4>1. q + k \in Idx(Tail) /\ q <= q + k /\ k \in Nat /\ (q + k) - q = k
        BY <1>0, <3>1 DEF Idx
      <4>2. Pos(Tail, q, q + k) = RowStart(Tail, q) + k /\ Pos(Tail, q, q + k) \in Idx(Triangle(Tail))
        BY <1>0, <4>1, PosInside DEF Pos
      <4>3. qt[RowStart(Tail, q) + k] = Times(x[i], x[i + k])
        <5>1. TailTerms(x, V)[Pos(Tail, q, q + k)] = Times(x[(V - Tail) + q], x[(V - Tail) + (q + k)])
          BY <4>1, TailTermsIs
        <5>2. (V - Tail) + q = i /\ (V - Tail) + (q + k) = i + k
          BY <1>0, <3>1, <4>1 DEF i
        <5> QED BY <4>2, <5>1, <5>2 DEF qt
      <4>4. AA[RowStart(Tail, q) + k] = tri[RowStart(V, i) + k]
        <5>1. AA[RowStart(Tail, q) + k] = tri[first + (RowStart(Tail, q) + k)]
          BY <1>8, <4>2 DEF first
        <5>2. first + (RowStart(Tail, q) + k) = RowStart(V, i) + k
          BY <3>2, <4>1
        <5> QED BY <5>1, <5>2
      <4>5. k \in Idx(V - i) /\ tri[RowStart(V, i) + k][e] \in F /\ x[i + k] \in F /\ x[i] \in F
        BY <1>0, <2>1, <3>1, UpperRow
      <4>6. f4[k] = Times(tri[RowStart(V, i) + k][e], Times(x[i], x[i + k]))
        BY <4>2, <4>3, <4>4
      <4>7. f3[k] = Times(tri[RowStart(V, i) + k][e], x[i + k])
        BY <4>5
      <4>8. Times(x[i], x[i + k]) = Times(x[i + k], x[i])
        BY <4>5, Commutes
      <4> HIDE DEF f3, f4
      <4>9. Times(tri[RowStart(V, i) + k][e], Times(x[i + k], x[i])) = Times(Times(tri[RowStart(V, i) + k][e], x[i + k]), x[i])
        BY <4>5, TimesAssoc
      <4> QED BY <4>5, <4>6, <4>7, <4>8, <4>9, Ring
    <3>4. Sum(V - i, f3) = ux[i]
      BY <1>0, <3>1, UpperRow DEF ux
    <3>5. f2[q] = Times(x[i], ux[i])
      BY DEF i
    <3>6. x[i] \in F /\ ux[i] \in F
      BY <2>1, <3>1
    <3>7. Sum(Tail - q, f4) = Times(Sum(Tail - q, f3), x[i])
      <4> HIDE DEF f3, f4
      <4> QED BY <3>1, <3>3, <3>6, SumTimes
    <3> HIDE DEF f3
    <3>8. Sum(Tail - q, f4) = f2[q]
      <4> HIDE DEF f4, f2
      <4> QED BY <3>1, <3>4, <3>5, <3>6, <3>7, Commutes
    <3> QED BY <3>8
  <2>5. Sum(Triangle(Tail), ft) = Sum(Tail, f2)
    <3>1. \A p \in Idx(Triangle(Tail)) : ft[p] \in F
      <4>1. TAKE p \in Idx(Triangle(Tail))
      <4>2. AA[p] \in Batch /\ qt[p] \in F
        BY <1>8
      <4>3. AA[p][e] \in F
        BY <4>2 DEF Batch, Idx
      <4> QED BY <4>2, <4>3, Ring
    <3> HIDE DEF ft, f2
    <3>2. \A i \in Idx(Tail) : f2[i] = LineSum(Tail, ft, i)
      BY <2>4 DEF LineSum
    <3>3. Tail \in Nat
      BY <1>0
    <3> QED BY <3>1, <3>2, <3>3, PackedSum
  <2>6. Sum(V, f) = Plus(Sum(n, f), Sum(Tail, f2))
    <3>1. \A k \in Idx(n + Tail) : f[k] \in F
      BY <1>0, <2>1, Ring
    <3>2. \A q \in Idx(Tail) : f2[q] = f[n + q]
      <4>1. TAKE q \in Idx(Tail)
      <4>2. n + q \in Idx(V)
        BY <1>0 DEF Idx
      <4> QED BY <4>2
    <3> HIDE DEF f, f2
    <3>3. Sum(n + Tail, f) = Plus(Sum(n, f), Sum(Tail, f2))
      BY <1>0, <3>1, <3>2, SumSplit
    <3> QED BY <1>0, <3>3
  <2>7. Sum(n, f1) = Sum(n, f)
    <3> HIDE DEF f1, f
    <3> QED BY <1>0, <2>3, SumEq
  <2>8. QuadTrimatEval(tri, x, V)[e] = Plus(Sum(n, f1), Sum(Triangle(Tail), ft))
    <3>1. BatchAdd(yy[n], Prod(Triangle(Tail), AA, qt))[e] = Plus(yy[n][e], Prod(Triangle(Tail), AA, qt)[e])
      BY <1>7, <1>10, BatchAddType
    <3> QED BY <1>1, <1>7, <1>10, <3>1 DEF AA, qt
  <2> HIDE DEF f, f1, f2, ft
  <2> QED BY <2>2, <2>5, <2>6, <2>7, <2>8 DEF ux
<1>12. QuadTrimatEval(tri, x, V) \in Batch
  BY <1>1, <1>7, <1>10, BatchAddType DEF AA, qt
<1> QED BY <1>11, <1>12

-----------------------------------------------------------------------------
(* The public map: a term of P1's or P3's part, the part, and P2's.        *)
LineTerm(tri, dim, v, i) ==
  Prod(dim - i, [k \in 0 .. dim - i - 1 |-> tri[RowStart(dim, i) + k]],
                [k \in 0 .. dim - i - 1 |-> Times(v[i], v[i + k])])
TriSum(tri, dim, v) ==
  LET sum[i \in 0 .. dim] ==
        IF i = 0 THEN ZeroBatch ELSE BatchAdd(sum[i - 1], LineTerm(tri, dim, v, i - 1))
  IN sum[dim]
RowTerm(p2, x, xo, i) ==
  Prod(O, [j \in 0 .. O - 1 |-> p2[(i * O) + j]], [j \in 0 .. O - 1 |-> Times(x[i], xo[j])])
RowSum(p2, x, xo) ==
  LET p2Sum[i \in 0 .. V] ==
        IF i = 0 THEN ZeroBatch ELSE BatchAdd(p2Sum[i - 1], RowTerm(p2, x, xo, i - 1))
  IN p2Sum[V]

(* The public map has these three parts. *)
LEMMA PublicMapParts ==
  ASSUME NEW p1, NEW p2, NEW p3, NEW x
  PROVE  PublicMap(p1, p2, p3, x)
         = BatchAdd(TriSum(p1, V, x),
                    BatchAdd(RowSum(p2, x, [i \in 0 .. O - 1 |-> x[V + i]]),
                             TriSum(p3, O, [i \in 0 .. O - 1 |-> x[V + i]])))
  BY DEF PublicMap, TriSum, LineTerm, RowSum, RowTerm

LEMMA LineTermIs ==
  ASSUME NEW dim \in Nat, NEW tri \in Triangles(dim), NEW z \in Vec(dim),
         NEW v, \A i \in Idx(dim) : v[i] = z[i], NEW i \in Idx(dim)
  PROVE  /\ LineTerm(tri, dim, v, i) \in Batch
         /\ \A e \in Idx(M) :
              LineTerm(tri, dim, v, i)[e] = Times(z[i], Apply(dim, dim, Upper(tri, dim, e), z)[i])
<1> DEFINE aa == [k \in 0 .. dim - i - 1 |-> tri[RowStart(dim, i) + k]]
           bb == [k \in 0 .. dim - i - 1 |-> Times(v[i], v[i + k])]
<1>0. 0 \in Idx(M)
  BY Size DEF Idx
<1>1. dim - i \in Nat /\ i \in Nat /\ z[i] \in F
  BY DEF Idx, Vec
<1>2. \A k \in Idx(dim - i) : /\ aa[k] \in Batch /\ bb[k] \in F
                              /\ aa[k] = tri[RowStart(dim, i) + k] /\ bb[k] = Times(z[i], z[i + k])
                              /\ z[i + k] \in F
  <2>1. TAKE k \in Idx(dim - i)
  <2>2. tri[RowStart(dim, i) + k] \in Batch /\ i + k \in Idx(dim) /\ z[i + k] \in F
    BY <1>0, UpperRow
  <2>3. k \in 0 .. dim - i - 1
    BY <1>1 DEF Idx
  <2>4. v[i] = z[i] /\ v[i + k] = z[i + k]
    BY <2>2
  <2> QED BY <1>1, <2>2, <2>3, <2>4, Ring
<1>3. LineTerm(tri, dim, v, i) = Prod(dim - i, aa, bb)
  BY DEF LineTerm
<1> HIDE DEF aa, bb
<1>4. /\ Prod(dim - i, aa, bb) \in Batch
      /\ \A e \in Idx(M) : Prod(dim - i, aa, bb)[e] = Sum(dim - i, [k \in Idx(dim - i) |-> Times(aa[k][e], bb[k])])
  BY <1>1, <1>2, ProdAt
<1>5. ASSUME NEW e \in Idx(M)
      PROVE  Prod(dim - i, aa, bb)[e] = Times(z[i], Apply(dim, dim, Upper(tri, dim, e), z)[i])
  <2> DEFINE f == [k \in Idx(dim - i) |-> Times(tri[RowStart(dim, i) + k][e], z[i + k])]
             g == [k \in Idx(dim - i) |-> Times(aa[k][e], bb[k])]
  <2>1. Prod(dim - i, aa, bb)[e] = Sum(dim - i, g)
    BY <1>4
  <2>2. Sum(dim - i, f) = Apply(dim, dim, Upper(tri, dim, e), z)[i]
    BY UpperRow
  <2>3. ASSUME NEW k \in Idx(dim - i) PROVE f[k] \in F /\ g[k] = Times(f[k], z[i])
    <3>1. tri[RowStart(dim, i) + k][e] \in F /\ z[i + k] \in F
      BY UpperRow
    <3>2. /\ f[k] = Times(tri[RowStart(dim, i) + k][e], z[i + k])
          /\ g[k] = Times(tri[RowStart(dim, i) + k][e], Times(z[i], z[i + k]))
      BY <1>2
    <3> HIDE DEF f, g
    <3>3. Times(z[i], z[i + k]) = Times(z[i + k], z[i])
      BY <1>1, <3>1, Commutes
    <3>4. Times(tri[RowStart(dim, i) + k][e], Times(z[i + k], z[i]))
          = Times(Times(tri[RowStart(dim, i) + k][e], z[i + k]), z[i])
      BY <1>1, <3>1, TimesAssoc
    <3> QED BY <3>1, <3>2, <3>3, <3>4, Ring
  <2>4. Sum(dim - i, g) = Times(Sum(dim - i, f), z[i])
    <3> HIDE DEF f, g
    <3> QED BY <1>1, <2>3, SumTimes
  <2>5. Sum(dim - i, f) \in F
    <3> HIDE DEF f
    <3> QED BY <1>1, <2>3, SumType
  <2> HIDE DEF f, g
  <2>6. Times(Sum(dim - i, f), z[i]) = Times(z[i], Sum(dim - i, f))
    BY <1>1, <2>5, Commutes
  <2> QED BY <2>1, <2>2, <2>4, <2>6
<1> QED BY <1>3, <1>4, <1>5

(* P1's and P3's part is a quadratic form. *)
LEMMA TriSumIs ==
  ASSUME NEW dim \in Nat, NEW tri \in Triangles(dim), NEW z \in Vec(dim),
         NEW v, \A i \in Idx(dim) : v[i] = z[i]
  PROVE  /\ TriSum(tri, dim, v) \in Batch
         /\ \A e \in Idx(M) :
              TriSum(tri, dim, v)[e] = Inner(dim, z, Apply(dim, dim, Upper(tri, dim, e), z))
<1> DEFINE g == [i \in Idx(dim) |-> LineTerm(tri, dim, v, i)]
           Rec(a) == [i \in 0 .. dim |-> IF i = 0 THEN ZeroBatch
                                         ELSE BatchAdd(a[i - 1], LineTerm(tri, dim, v, i - 1))]
           sum == CHOOSE a : a = Rec(a)
<1>1. \A i \in Idx(dim) : g[i] \in Batch /\ g[i] = LineTerm(tri, dim, v, i)
  BY LineTermIs
<1>2. PICK c : Adds(dim, g, c) /\ DOMAIN c = 0 .. dim /\ c = [k \in 0 .. dim |-> c[k]]
  <2> HIDE DEF g
  <2> QED BY <1>1, AddsExists
<1> HIDE DEF g
<1>3. c = Rec(c)
  <2>1. ASSUME NEW k \in 0 .. dim PROVE c[k] = Rec(c)[k]
    <3>1. CASE k = 0
      BY <1>2, <3>1 DEF Adds
    <3>2. CASE k # 0
      <4>1. k - 1 \in Idx(dim) /\ (k - 1) + 1 = k
        BY <3>2 DEF Idx
      <4>2. c[k] = BatchAdd(c[k - 1], LineTerm(tri, dim, v, k - 1))
        BY <1>1, <1>2, <4>1 DEF Adds
      <4> QED BY <3>2, <4>2
    <3> QED BY <3>1, <3>2
  <2> QED BY <1>2, <2>1
<1>4. sum = Rec(sum)
  <2> HIDE DEF Rec
  <2> QED BY <1>3
<1>5. TriSum(tri, dim, v) = sum[dim]
  BY DEF TriSum
<1> HIDE DEF sum
<1>6. Adds(dim, g, sum)
  <2>1. sum[0] = ZeroBatch
    BY <1>4
  <2>2. ASSUME NEW k \in Idx(dim) PROVE sum[k + 1] = BatchAdd(sum[k], g[k])
    <3>1. k + 1 \in 0 .. dim /\ k + 1 # 0 /\ (k + 1) - 1 = k
      BY DEF Idx
    <3>2. sum[k + 1] = BatchAdd(sum[k], LineTerm(tri, dim, v, k))
      BY <1>4, <3>1
    <3> QED BY <1>1, <3>2
  <2> QED BY <2>1, <2>2 DEF Adds
<1> HIDE DEF Rec
<1>7. sum[dim] \in Batch /\ \A e \in Idx(M) : sum[dim][e] = Sum(dim, [k \in Idx(dim) |-> g[k][e]])
  BY <1>1, <1>6, AddsSum
<1>8. ASSUME NEW e \in Idx(M)
      PROVE  [k \in Idx(dim) |-> g[k][e]]
             = [k \in Idx(dim) |-> Times(z[k], Apply(dim, dim, Upper(tri, dim, e), z)[k])]
  <2>1. \A k \in Idx(dim) : g[k][e] = Times(z[k], Apply(dim, dim, Upper(tri, dim, e), z)[k])
    BY <1>1, LineTermIs
  <2> QED BY <2>1
<1> QED BY <1>5, <1>7, <1>8 DEF Inner

LEMMA RowTermIs ==
  ASSUME NEW p2 \in Rects, NEW z \in Vec(V), NEW q \in Vec(O), NEW x, \A i \in Idx(V) : x[i] = z[i],
         NEW xo, \A j \in Idx(O) : xo[j] = q[j], NEW i \in Idx(V)
  PROVE  /\ RowTerm(p2, x, xo, i) \in Batch
         /\ \A e \in Idx(M) :
              RowTerm(p2, x, xo, i)[e] = Times(z[i], Apply(V, O, Rect(p2, e), q)[i])
<1> DEFINE aa == [j \in 0 .. O - 1 |-> p2[(i * O) + j]]
           bb == [j \in 0 .. O - 1 |-> Times(x[i], xo[j])]
<1>0. O \in Nat /\ V \in Nat /\ z[i] \in F
  BY Size DEF Vec
<1>1. \A j \in Idx(O) : /\ aa[j] \in Batch /\ bb[j] \in F /\ q[j] \in F
                        /\ aa[j] = p2[(i * O) + j] /\ bb[j] = Times(z[i], q[j])
  <2>1. TAKE j \in Idx(O)
  <2>2. p2[(i * O) + j] \in Batch
    BY Size, RectIndex DEF Rects
  <2>3. q[j] \in F /\ j \in 0 .. O - 1
    BY DEF Vec, Idx
  <2>4. x[i] = z[i] /\ xo[j] = q[j]
    OBVIOUS
  <2> QED BY <1>0, <2>2, <2>3, <2>4, Ring
<1>2. RowTerm(p2, x, xo, i) = Prod(O, aa, bb)
  BY DEF RowTerm
<1> HIDE DEF aa, bb
<1>3. /\ Prod(O, aa, bb) \in Batch
      /\ \A e \in Idx(M) : Prod(O, aa, bb)[e] = Sum(O, [k \in Idx(O) |-> Times(aa[k][e], bb[k])])
  BY <1>0, <1>1, ProdAt
<1>4. ASSUME NEW e \in Idx(M) PROVE Prod(O, aa, bb)[e] = Times(z[i], Apply(V, O, Rect(p2, e), q)[i])
  <2> DEFINE R == Rect(p2, e)
             f == [k \in Idx(O) |-> Times(R[i][k], q[k])]
             g == [k \in Idx(O) |-> Times(aa[k][e], bb[k])]
  <2>1. Apply(V, O, R, q)[i] = Sum(O, f)
    BY DEF Apply, Inner
  <2>2. ASSUME NEW k \in Idx(O) PROVE f[k] \in F /\ g[k] = Times(f[k], z[i])
    <3>1. R[i][k] = aa[k][e]
      BY <1>1, RectType
    <3>2. aa[k][e] \in F /\ q[k] \in F /\ bb[k] = Times(z[i], q[k])
      BY <1>1 DEF Batch, Idx
    <3>3. f[k] = Times(R[i][k], q[k]) /\ g[k] = Times(aa[k][e], bb[k])
      OBVIOUS
    <3> HIDE DEF f, g, R
    <3>4. Times(z[i], q[k]) = Times(q[k], z[i])
      BY <1>0, <3>2, Commutes
    <3>5. Times(aa[k][e], Times(q[k], z[i])) = Times(Times(aa[k][e], q[k]), z[i])
      BY <1>0, <3>2, TimesAssoc
    <3> QED BY <3>1, <3>2, <3>3, <3>4, <3>5, Ring
  <2>3. Prod(O, aa, bb)[e] = Sum(O, g)
    BY <1>3
  <2> HIDE DEF f, g
  <2>4. Sum(O, g) = Times(Sum(O, f), z[i]) /\ Sum(O, f) \in F
    BY <1>0, <2>2, SumTimes, SumType
  <2>5. Times(Sum(O, f), z[i]) = Times(z[i], Sum(O, f))
    BY <1>0, <2>4, Commutes
  <2> QED BY <2>1, <2>3, <2>4, <2>5
<1> QED BY <1>2, <1>3, <1>4

(* P2's part is a bilinear form. *)
LEMMA RowSumIs ==
  ASSUME NEW p2 \in Rects, NEW z \in Vec(V), NEW q \in Vec(O), NEW x, \A i \in Idx(V) : x[i] = z[i],
         NEW xo, \A j \in Idx(O) : xo[j] = q[j]
  PROVE  /\ RowSum(p2, x, xo) \in Batch
         /\ \A e \in Idx(M) :
              RowSum(p2, x, xo)[e] = Inner(V, z, Apply(V, O, Rect(p2, e), q))
<1> DEFINE g == [i \in Idx(V) |-> RowTerm(p2, x, xo, i)]
           Rec(a) == [i \in 0 .. V |-> IF i = 0 THEN ZeroBatch
                                       ELSE BatchAdd(a[i - 1], RowTerm(p2, x, xo, i - 1))]
           sum == CHOOSE a : a = Rec(a)
<1>0. V \in Nat
  BY Size
<1>1. \A i \in Idx(V) : g[i] \in Batch /\ g[i] = RowTerm(p2, x, xo, i)
  BY RowTermIs
<1>2. PICK c : Adds(V, g, c) /\ DOMAIN c = 0 .. V /\ c = [k \in 0 .. V |-> c[k]]
  <2> HIDE DEF g
  <2> QED BY <1>0, <1>1, AddsExists
<1> HIDE DEF g
<1>3. c = Rec(c)
  <2>1. ASSUME NEW k \in 0 .. V PROVE c[k] = Rec(c)[k]
    <3>1. CASE k = 0
      BY <1>2, <3>1 DEF Adds
    <3>2. CASE k # 0
      <4>1. k - 1 \in Idx(V) /\ (k - 1) + 1 = k
        BY <1>0, <3>2 DEF Idx
      <4>2. c[k] = BatchAdd(c[k - 1], RowTerm(p2, x, xo, k - 1))
        BY <1>1, <1>2, <4>1 DEF Adds
      <4> QED BY <3>2, <4>2
    <3> QED BY <3>1, <3>2
  <2> QED BY <1>2, <2>1
<1>4. sum = Rec(sum)
  <2> HIDE DEF Rec
  <2> QED BY <1>3
<1>5. RowSum(p2, x, xo) = sum[V]
  BY DEF RowSum
<1> HIDE DEF sum
<1>6. Adds(V, g, sum)
  <2>1. sum[0] = ZeroBatch
    BY <1>0, <1>4
  <2>2. ASSUME NEW k \in Idx(V) PROVE sum[k + 1] = BatchAdd(sum[k], g[k])
    <3>1. k + 1 \in 0 .. V /\ k + 1 # 0 /\ (k + 1) - 1 = k
      BY <1>0 DEF Idx
    <3>2. sum[k + 1] = BatchAdd(sum[k], RowTerm(p2, x, xo, k))
      BY <1>4, <3>1
    <3> QED BY <1>1, <3>2
  <2> QED BY <2>1, <2>2 DEF Adds
<1> HIDE DEF Rec
<1>7. sum[V] \in Batch /\ \A e \in Idx(M) : sum[V][e] = Sum(V, [k \in Idx(V) |-> g[k][e]])
  BY <1>0, <1>1, <1>6, AddsSum
<1>8. ASSUME NEW e \in Idx(M)
      PROVE  [k \in Idx(V) |-> g[k][e]]
             = [k \in Idx(V) |-> Times(z[k], Apply(V, O, Rect(p2, e), q)[k])]
  <2>1. ASSUME NEW k \in Idx(V)
        PROVE  g[k][e] = Times(z[k], Apply(V, O, Rect(p2, e), q)[k])
    <3>1. RowTerm(p2, x, xo, k)[e] = Times(z[k], Apply(V, O, Rect(p2, e), q)[k])
      BY RowTermIs
    <3>2. g[k] = RowTerm(p2, x, xo, k)
      BY <1>1
    <3> QED BY <3>1, <3>2
  <2> QED BY <2>1
<1> QED BY <1>5, <1>7, <1>8 DEF Inner

(* At each equation the public map is the sum of three forms. *)
LEMMA PublicMapIs ==
  ASSUME NEW p1 \in Triangles(V), NEW p2 \in Rects, NEW p3 \in Triangles(O),
         NEW z \in Vec(V), NEW q \in Vec(O), NEW x,
         \A i \in Idx(V) : x[i] = z[i], \A j \in Idx(O) : x[V + j] = q[j]
  PROVE  /\ PublicMap(p1, p2, p3, x) \in Batch
         /\ \A e \in Idx(M) :
              PublicMap(p1, p2, p3, x)[e]
              = Plus(Inner(V, z, Apply(V, V, Upper(p1, V, e), z)),
                     Plus(Inner(V, z, Apply(V, O, Rect(p2, e), q)),
                          Inner(O, q, Apply(O, O, Upper(p3, O, e), q))))
<1> DEFINE xo == [i \in 0 .. O - 1 |-> x[V + i]]
           a == TriSum(p1, V, x)
           b == RowSum(p2, x, xo)
           c == TriSum(p3, O, xo)
<1>0. V \in Nat /\ O \in Nat
  BY Size
<1>1. \A j \in Idx(O) : xo[j] = q[j]
  BY DEF Idx
<1>2. PublicMap(p1, p2, p3, x) = BatchAdd(a, BatchAdd(b, c))
  BY PublicMapParts
<1> HIDE DEF xo
<1>3. a \in Batch /\ \A e \in Idx(M) : a[e] = Inner(V, z, Apply(V, V, Upper(p1, V, e), z))
  BY <1>0, TriSumIs
<1>4. b \in Batch /\ \A e \in Idx(M) : b[e] = Inner(V, z, Apply(V, O, Rect(p2, e), q))
  BY <1>1, RowSumIs
<1>5. c \in Batch /\ \A e \in Idx(M) : c[e] = Inner(O, q, Apply(O, O, Upper(p3, O, e), q))
  BY <1>0, <1>1, TriSumIs
<1> HIDE DEF a, b, c
<1>6. BatchAdd(b, c) \in Batch /\ \A e \in Idx(M) : BatchAdd(b, c)[e] = Plus(b[e], c[e])
  BY <1>4, <1>5, BatchAddType
<1>7. /\ BatchAdd(a, BatchAdd(b, c)) \in Batch
      /\ \A e \in Idx(M) : BatchAdd(a, BatchAdd(b, c))[e] = Plus(a[e], BatchAdd(b, c)[e])
  BY <1>3, <1>6, BatchAddType
<1> QED BY <1>2, <1>3, <1>4, <1>5, <1>6, <1>7

-----------------------------------------------------------------------------
(* A signature is the vinegar part moved by an oil vector, and the oil part. *)
LEMMA SignatureIs ==
  ASSUME O_ \in Oils, NEW v \in Vec(V), NEW q \in Vec(O)
  PROVE  /\ \A i \in Idx(V) : Signature(v, q)[i] = VecAdd(V, v, Apply(V, O, Oil(O_), q))[i]
         /\ \A j \in Idx(O) : Signature(v, q)[V + j] = q[j]
<1>0. V \in Nat /\ O \in Nat
  BY Size
<1>1. ASSUME NEW i \in Idx(V)
      PROVE  OilProd(O_, q)[i] = Apply(V, O, Oil(O_), q)[i]
  <2> DEFINE cc == [j \in 0 .. O - 1 |-> Col(O_, j, i)]
  <2>1. \A j \in Idx(O) : cc[j] \in F /\ q[j] \in F /\ cc[j] = Oil(O_)[i][j]
    BY OilType DEF Idx, Vec
  <2>2. OilProd(O_, q)[i] = Dot(O, cc, q)
    BY DEF OilProd, Idx
  <2> HIDE DEF cc
  <2>3. Dot(O, cc, q) = Sum(O, [k \in Idx(O) |-> Times(cc[k], q[k])])
    BY <1>0, <2>1, DotIs
  <2>4. [k \in Idx(O) |-> Times(cc[k], q[k])] = [k \in Idx(O) |-> Times(Oil(O_)[i][k], q[k])]
    BY <2>1
  <2> QED BY <2>2, <2>3, <2>4 DEF Apply, Inner
<1>2. ASSUME NEW i \in Idx(V)
      PROVE  Signature(v, q)[i] = VecAdd(V, v, Apply(V, O, Oil(O_), q))[i]
  <2>1. i \in 0 .. (V + O) - 1 /\ i < V
    BY <1>0 DEF Idx
  <2>2. Signature(v, q)[i] = Plus(v[i], OilProd(O_, q)[i])
    BY <2>1 DEF Signature
  <2> QED BY <1>1, <2>2 DEF VecAdd
<1>3. ASSUME NEW j \in Idx(O) PROVE Signature(v, q)[V + j] = q[j]
  <2>1. V + j \in 0 .. (V + O) - 1 /\ ~(V + j < V) /\ (V + j) - V = j
    BY <1>0 DEF Idx
  <2> QED BY <2>1 DEF Signature
<1> QED BY <1>2, <1>3

(* The columns of the system's matrix. *)
LEMMA MatFromSIs ==
  ASSUME NEW s \in Rects, NEW v \in Vec(V), NEW i \in Idx(O)
  PROVE  /\ MatFromS(s, v, i) \in Batch
         /\ \A e \in Idx(M) :
              MatFromS(s, v, i)[e] = Apply(O, V, Transposed(V, O, Rect(s, e)), v)[i]
<1> DEFINE aa == [k \in 0 .. V - 1 |-> s[(k * O) + i]]
<1>0. V \in Nat /\ O \in Nat
  BY Size
<1>1. \A k \in Idx(V) : aa[k] \in Batch /\ v[k] \in F /\ aa[k] = s[(k * O) + i]
  <2>1. TAKE k \in Idx(V)
  <2>2. s[(k * O) + i] \in Batch
    BY Size, RectIndex DEF Rects
  <2> QED BY <2>2 DEF Idx, Vec
<1>2. MatFromS(s, v, i) = Prod(V, aa, v)
  BY DEF MatFromS
<1> HIDE DEF aa
<1>3. /\ Prod(V, aa, v) \in Batch
      /\ \A e \in Idx(M) : Prod(V, aa, v)[e] = Sum(V, [k \in Idx(V) |-> Times(aa[k][e], v[k])])
  BY <1>0, <1>1, ProdAt
<1>4. ASSUME NEW e \in Idx(M)
      PROVE  Prod(V, aa, v)[e] = Apply(O, V, Transposed(V, O, Rect(s, e)), v)[i]
  <2> DEFINE T == Transposed(V, O, Rect(s, e))
  <2>1. \A k \in Idx(V) : T[i][k] = aa[k][e]
    BY <1>0, <1>1, RectType, TransposedType
  <2>2. Apply(O, V, T, v)[i] = Sum(V, [k \in Idx(V) |-> Times(T[i][k], v[k])])
    BY DEF Apply, Inner
  <2> HIDE DEF T
  <2>3. [k \in Idx(V) |-> Times(T[i][k], v[k])] = [k \in Idx(V) |-> Times(aa[k][e], v[k])]
    BY <2>1
  <2> QED BY <1>3, <2>2, <2>3 DEF T
<1> QED BY <1>2, <1>3, <1>4

(* vinegar^T * (P1 + P1^T). *)
LEMMA P1VinegarIs ==
  ASSUME P1 \in Triangles(V), NEW v \in Vec(V)
  PROVE  \A k \in Idx(V) : /\ P1Vinegar(v)[k] \in Batch
                           /\ \A e \in Idx(M) :
                                P1Vinegar(v)[k][e] = Apply(V, V, Symmetric(P1, e), v)[k]
<1> DEFINE c == [k \in 0 .. V - 1 |-> ZeroBatch]
<1>0. V \in Nat /\ V * 1 = V /\ 1 \in Nat \ {0} /\ 0 \in Idx(1)
  BY Size DEF Idx
<1>1. c \in [0 .. (V * 1) - 1 -> Batch] /\ v \in [0 .. (V * 1) - 1 -> F]
  BY <1>0, ZeroBatchType DEF Vec, Idx
<1>2. P1Vinegar(v) = TwoTrimatMadd(c, P1, v, 1)
  BY DEF P1Vinegar
<1>3. \A k \in Idx(V) : c[k] = ZeroBatch
  BY DEF Idx
<1> HIDE DEF c
<1>4. /\ TwoTrimatMadd(c, P1, v, 1) \in [0 .. (V * 1) - 1 -> Batch]
      /\ \A e \in Idx(M), i \in Idx(V), j \in Idx(1) :
              TwoTrimatMadd(c, P1, v, 1)[(i * 1) + j][e]
              = Plus(c[(i * 1) + j][e],
                     Sum(V, [k \in Idx(V) |-> Times(Symmetric(P1, e)[i][k], Col(v, j, k))]))
  BY <1>0, <1>1, TwoTrimatMaddIs
<1>5. ASSUME NEW i \in Idx(V), NEW e \in Idx(M)
      PROVE  P1Vinegar(v)[i][e] = Apply(V, V, Symmetric(P1, e), v)[i]
  <2>1. (i * 1) + 0 = i
    BY <1>0 DEF Idx
  <2>2. TwoTrimatMadd(c, P1, v, 1)[i][e]
        = Plus(c[i][e], Sum(V, [k \in Idx(V) |-> Times(Symmetric(P1, e)[i][k], Col(v, 0, k))]))
    BY <1>0, <1>4, <2>1
  <2>3. [k \in Idx(V) |-> Times(Symmetric(P1, e)[i][k], Col(v, 0, k))]
        = [k \in Idx(V) |-> Times(Symmetric(P1, e)[i][k], v[k])]
    <3>1. \A k \in Idx(V) : (0 * V) + k = k
      BY <1>0 DEF Idx
    <3> QED BY <3>1 DEF Col
  <2>4. c[i][e] = Zero
    BY <1>3, ZeroBatchType
  <2>5. Inner(V, Symmetric(P1, e)[i], v) \in F
    BY <1>0, SymmetricType, MatRow, InnerType
  <2>6. Apply(V, V, Symmetric(P1, e), v)[i] = Inner(V, Symmetric(P1, e)[i], v)
    BY DEF Apply
  <2> QED BY <1>2, <2>2, <2>3, <2>4, <2>5, <2>6, Ring DEF Inner
<1>6. \A k \in Idx(V) : P1Vinegar(v)[k] \in Batch
  BY <1>0, <1>2, <1>4 DEF Idx
<1> QED BY <1>5, <1>6

(* A column of the matrix that l1_mat_from_p2 builds. *)
LEMMA MatFromP2Is ==
  ASSUME P1 \in Triangles(V), O_ \in Oils, NEW s \in Rects, NEW v \in Vec(V), NEW i \in Idx(O)
  PROVE  /\ MatFromP2(s, v, i) \in Batch
         /\ \A e \in Idx(M) :
              MatFromP2(s, v, i)[e]
              = VecAdd(O, Apply(O, V, Transposed(V, O, Rect(s, e)), v),
                          Apply(O, V, Transposed(V, O, Oil(O_)), Apply(V, V, Symmetric(P1, e), v)))[i]
<1> DEFINE bb == [j \in 0 .. V - 1 |-> Col(O_, i, j)]
           aa == P1Vinegar(v)
<1>0. V \in Nat /\ O \in Nat
  BY Size
<1>1. MatFromP2(s, v, i) = BatchAdd(MatFromS(s, v, i), Prod(V, aa, bb))
  BY DEF MatFromP2
<1>2. \A k \in Idx(V) : bb[k] \in F /\ aa[k] \in Batch /\ bb[k] = Oil(O_)[k][i]
  BY P1VinegarIs, OilType DEF Idx
<1> HIDE DEF aa, bb
<1>3. /\ Prod(V, aa, bb) \in Batch
      /\ \A e \in Idx(M) : Prod(V, aa, bb)[e] = Sum(V, [k \in Idx(V) |-> Times(aa[k][e], bb[k])])
  BY <1>0, <1>2, ProdAt
<1>4. MatFromS(s, v, i) \in Batch
  BY MatFromSIs
<1>5. ASSUME NEW e \in Idx(M)
      PROVE  MatFromP2(s, v, i)[e]
              = VecAdd(O, Apply(O, V, Transposed(V, O, Rect(s, e)), v),
                          Apply(O, V, Transposed(V, O, Oil(O_)), Apply(V, V, Symmetric(P1, e), v)))[i]
  <2> DEFINE q == Apply(V, V, Symmetric(P1, e), v)
             T == Transposed(V, O, Oil(O_))
  <2>1. \A k \in Idx(V) : T[i][k] = bb[k]
    BY <1>0, <1>2, OilType, TransposedType
  <2>2. \A k \in Idx(V) : q[k] = aa[k][e] /\ q[k] \in F
    <3>1. q \in Vec(V)
      BY <1>0, SymmetricType, ApplyType
    <3>2. \A k \in Idx(V) : q[k] = aa[k][e]
      BY P1VinegarIs DEF aa
    <3> HIDE DEF q
    <3> QED BY <3>1, <3>2 DEF Vec
  <2>3. Apply(O, V, T, q)[i] = Sum(V, [k \in Idx(V) |-> Times(T[i][k], q[k])])
    BY DEF Apply, Inner
  <2> HIDE DEF q, T
  <2>4. [k \in Idx(V) |-> Times(T[i][k], q[k])] = [k \in Idx(V) |-> Times(aa[k][e], bb[k])]
    BY <1>2, <2>1, <2>2, Commutes
  <2>5. Prod(V, aa, bb)[e] = Apply(O, V, T, q)[i]
    BY <1>3, <2>3, <2>4
  <2>6. BatchAdd(MatFromS(s, v, i), Prod(V, aa, bb))[e] = Plus(MatFromS(s, v, i)[e], Prod(V, aa, bb)[e])
    BY <1>3, <1>4, BatchAddType
  <2>7. MatFromS(s, v, i)[e] = Apply(O, V, Transposed(V, O, Rect(s, e)), v)[i]
    BY MatFromSIs
  <2> QED BY <1>1, <2>5, <2>6, <2>7 DEF VecAdd, q, T
<1>6. MatFromP2(s, v, i) \in Batch
  BY <1>1, <1>3, <1>4, BatchAddType
<1> QED BY <1>5, <1>6

(* The left-hand side of the system, as a form of the vinegar and the oil  *)
(* part.                                                                   *)
LEMMA SystemFromS ==
  ASSUME NEW s \in Rects, NEW v \in Vec(V), NEW q \in Vec(O), NEW mat,
         \A i \in Idx(O) : mat[i] = MatFromS(s, v, i)
  PROVE  \A e \in Idx(M) : Prod(O, mat, q)[e] = Inner(V, v, Apply(V, O, Rect(s, e), q))
<1>0. V \in Nat /\ O \in Nat
  BY Size
<1>1. \A i \in Idx(O) : mat[i] \in Batch /\ q[i] \in F
  BY MatFromSIs DEF Vec
<1>2. \A e \in Idx(M) : Prod(O, mat, q)[e] = Sum(O, [k \in Idx(O) |-> Times(mat[k][e], q[k])])
  BY <1>0, <1>1, ProdAt
<1>3. ASSUME NEW e \in Idx(M) PROVE Prod(O, mat, q)[e] = Inner(V, v, Apply(V, O, Rect(s, e), q))
  <2> DEFINE T == Transposed(V, O, Rect(s, e))
             r == Apply(O, V, T, v)
  <2>1. [k \in Idx(O) |-> Times(mat[k][e], q[k])] = [k \in Idx(O) |-> Times(r[k], q[k])]
    <3>1. \A k \in Idx(O) : mat[k][e] = r[k]
      BY MatFromSIs
    <3> HIDE DEF r
    <3> QED BY <3>1
  <2>2. Prod(O, mat, q)[e] = Inner(O, r, q)
    <3> HIDE DEF r
    <3> QED BY <1>2, <2>1 DEF Inner
  <2>3. Rect(s, e) \in Mats(V, O)
    BY RectType
  <2>4. Inner(V, v, Apply(V, O, Rect(s, e), q)) = Inner(O, r, q)
    BY <1>0, <2>3, Adjoint
  <2> QED BY <2>2, <2>4
<1> QED BY <1>3

(* The same from P2 and P1. *)
LEMMA SystemFromP2 ==
  ASSUME P1 \in Triangles(V), O_ \in Oils, NEW s \in Rects, NEW v \in Vec(V), NEW q \in Vec(O),
         NEW mat, \A i \in Idx(O) : mat[i] = MatFromP2(s, v, i)
  PROVE  \A e \in Idx(M) :
           Prod(O, mat, q)[e]
           = Plus(Inner(V, v, Apply(V, O, Rect(s, e), q)),
                  Inner(V, Apply(V, V, Symmetric(P1, e), v), Apply(V, O, Oil(O_), q)))
<1>0. V \in Nat /\ O \in Nat
  BY Size
<1>1. \A i \in Idx(O) : mat[i] \in Batch /\ q[i] \in F
  BY MatFromP2Is DEF Vec
<1>2. \A e \in Idx(M) : Prod(O, mat, q)[e] = Sum(O, [k \in Idx(O) |-> Times(mat[k][e], q[k])])
  BY <1>0, <1>1, ProdAt
<1>3. ASSUME NEW e \in Idx(M)
      PROVE  Prod(O, mat, q)[e]
             = Plus(Inner(V, v, Apply(V, O, Rect(s, e), q)),
                    Inner(V, Apply(V, V, Symmetric(P1, e), v), Apply(V, O, Oil(O_), q)))
  <2> DEFINE a == Apply(O, V, Transposed(V, O, Rect(s, e)), v)
             u == Apply(V, V, Symmetric(P1, e), v)
             b == Apply(O, V, Transposed(V, O, Oil(O_)), u)
             r == VecAdd(O, a, b)
  <2>1. [k \in Idx(O) |-> Times(mat[k][e], q[k])] = [k \in Idx(O) |-> Times(r[k], q[k])]
    <3>1. \A k \in Idx(O) : mat[k][e] = r[k]
      BY MatFromP2Is
    <3> HIDE DEF r
    <3> QED BY <3>1
  <2>2. Prod(O, mat, q)[e] = Inner(O, r, q)
    <3> HIDE DEF r
    <3> QED BY <1>2, <2>1 DEF Inner
  <2>3. Rect(s, e) \in Mats(V, O) /\ Oil(O_) \in Mats(V, O)
    BY RectType, OilType
  <2>4. u \in Vec(V)
    BY <1>0, SymmetricType, ApplyType
  <2> HIDE DEF u
  <2>5. Inner(V, v, Apply(V, O, Rect(s, e), q)) = Inner(O, a, q)
    BY <1>0, <2>3, Adjoint
  <2>6. Inner(V, u, Apply(V, O, Oil(O_), q)) = Inner(O, b, q)
    BY <1>0, <2>3, <2>4, Adjoint
  <2>7. a \in Vec(O) /\ b \in Vec(O)
    BY <1>0, <2>3, <2>4, TransposedType, ApplyType
  <2> HIDE DEF a, b
  <2>8. Inner(O, r, q) = Plus(Inner(O, a, q), Inner(O, b, q))
    BY <1>0, <2>7, InnerPlus
  <2> QED BY <2>2, <2>5, <2>6, <2>8 DEF u
<1> QED BY <1>3

-----------------------------------------------------------------------------
(* Adding A * B and A^T * B one after the other is adding (A + A^T) * B.   *)
LEMMA ProductPlus ==
  ASSUME NEW m \in Nat, NEW n \in Nat, NEW p \in Nat,
         NEW A \in Mats(m, n), NEW C \in Mats(m, n), NEW B \in Mats(n, p), NEW D \in Mats(m, p)
  PROVE  MatAdd(m, p, D, MatProduct(m, n, p, MatAdd(m, n, A, C), B))
         = MatAdd(m, p, MatAdd(m, p, D, MatProduct(m, n, p, A, B)), MatProduct(m, n, p, C, B))
<1> DEFINE T == Transposed(n, p, B)
<1>1. T \in Mats(p, n)
  BY TransposedType
<1>2. ASSUME NEW i \in Idx(m)
      PROVE  VecAdd(p, D[i], Apply(p, n, T, VecAdd(n, A[i], C[i])))
             = VecAdd(p, VecAdd(p, D[i], Apply(p, n, T, A[i])), Apply(p, n, T, C[i]))
  <2> DEFINE a == Apply(p, n, T, A[i])
             c == Apply(p, n, T, C[i])
  <2>1. A[i] \in Vec(n) /\ C[i] \in Vec(n) /\ D[i] \in Vec(p)
    BY MatRow
  <2> HIDE DEF T
  <2>2. Apply(p, n, T, VecAdd(n, A[i], C[i])) = VecAdd(p, a, c)
    BY <1>1, <2>1, ApplyPlus
  <2>3. a \in Vec(p) /\ c \in Vec(p)
    BY <1>1, <2>1, ApplyType
  <2> HIDE DEF a, c
  <2>4. \A k \in Idx(p) : Plus(D[i][k], Plus(a[k], c[k])) = Plus(Plus(D[i][k], a[k]), c[k])
    BY <2>1, <2>3, PlusAssoc DEF Vec
  <2>5. VecAdd(p, D[i], VecAdd(p, a, c)) = VecAdd(p, VecAdd(p, D[i], a), c)
    BY <2>4 DEF VecAdd
  <2> QED BY <2>2, <2>5 DEF a, c
<1> HIDE DEF T
<1>3. \A i \in Idx(m) : MatAdd(m, n, A, C)[i] = VecAdd(n, A[i], C[i])
  BY DEF MatAdd
<1> QED BY <1>2, <1>3 DEF MatAdd, MatProduct, T

(* A batch is what it is at every equation. *)
LEMMA BatchUnique ==
  ASSUME NEW a \in Batch, NEW b \in Batch, \A e \in Idx(M) : a[e] = b[e]
  PROVE  a = b
<1>1. a = [e \in 0 .. M - 1 |-> a[e]] /\ b = [e \in 0 .. M - 1 |-> b[e]]
  BY DEF Batch
<1>2. [e \in 0 .. M - 1 |-> a[e]] = [e \in 0 .. M - 1 |-> b[e]]
  BY DEF Idx
<1> QED BY <1>1, <1>2

(* A rectangle of batches is what it is at every equation. *)
LEMMA RectUnique ==
  ASSUME NEW c \in Rects, NEW d \in Rects, \A e \in Idx(M) : Rect(c, e) = Rect(d, e)
  PROVE  c = d
<1>1. ASSUME NEW n \in 0 .. (V * O) - 1
      PROVE  c[n] = d[n]
  <2> DEFINE i == n \div O
             j == n % O
  <2>1. i \in Idx(V) /\ j \in Idx(O) /\ n = (i * O) + j
    BY Size, RectParts
  <2> HIDE DEF i, j
  <2>2. c[n] \in Batch /\ d[n] \in Batch
    BY DEF Rects
  <2>3. \A e \in Idx(M) : c[n][e] = d[n][e]
    <3>1. TAKE e \in Idx(M)
    <3>2. Rect(c, e)[i][j] = c[n][e] /\ Rect(d, e)[i][j] = d[n][e]
      BY <2>1, RectType
    <3> QED BY <3>2
  <2> QED BY <2>2, <2>3, BatchUnique
<1>2. /\ c = [n \in 0 .. (V * O) - 1 |-> c[n]]
      /\ d = [n \in 0 .. (V * O) - 1 |-> d[n]]
  BY DEF Rects
<1>3. [n \in 0 .. (V * O) - 1 |-> c[n]] = [n \in 0 .. (V * O) - 1 |-> d[n]]
  BY <1>1
<1> QED BY <1>2, <1>3

(* The S of key generation, added in two steps, is that of expand_sk. *)
LEMMA ExpandedInTwo ==
  ASSUME NEW o \in Oils, NEW p1 \in Triangles(V), NEW p2 \in Rects
  PROVE  TrimatTrMadd(TrimatMadd(p2, p1, o), p1, o) = TwoTrimatMadd(p2, p1, o, O)
<1> DEFINE half == TrimatMadd(p2, p1, o)
           full == TrimatTrMadd(half, p1, o)
           once == TwoTrimatMadd(p2, p1, o, O)
<1>0. V \in Nat /\ O \in Nat
  BY Size
<1>1. /\ half \in Rects
      /\ \A e \in Idx(M) :
           Rect(half, e) = MatAdd(V, O, Rect(p2, e), MatProduct(V, V, O, Upper(p1, V, e), Oil(o)))
  BY TrimatMaddIs
<1> HIDE DEF half
<1>2. /\ full \in Rects
      /\ \A e \in Idx(M) :
           Rect(full, e)
           = MatAdd(V, O, Rect(half, e),
                    MatProduct(V, V, O, Transposed(V, V, Upper(p1, V, e)), Oil(o)))
  BY <1>1, TrimatTrMaddIs
<1>3. /\ once \in Rects
      /\ \A e \in Idx(M) :
           Rect(once, e) = MatAdd(V, O, Rect(p2, e), MatProduct(V, V, O, Symmetric(p1, e), Oil(o)))
  BY ExpandedIs
<1> HIDE DEF full, once
<1>4. ASSUME NEW e \in Idx(M) PROVE Rect(full, e) = Rect(once, e)
  <2> DEFINE A == Upper(p1, V, e)
             T == Transposed(V, V, A)
             D == Rect(p2, e)
             B == Oil(o)
  <2>1. A \in Mats(V, V) /\ D \in Mats(V, O) /\ B \in Mats(V, O)
    BY <1>0, UpperType, RectType, OilType
  <2>2. T \in Mats(V, V)
    <3> HIDE DEF A
    <3> QED BY <1>0, <2>1, TransposedType
  <2>3. Symmetric(p1, e) = MatAdd(V, V, A, T)
    BY DEF Symmetric
  <2>4. /\ Rect(full, e) = MatAdd(V, O, MatAdd(V, O, D, MatProduct(V, V, O, A, B)), MatProduct(V, V, O, T, B))
        /\ Rect(once, e) = MatAdd(V, O, D, MatProduct(V, V, O, MatAdd(V, V, A, T), B))
    BY <1>1, <1>2, <1>3, <2>3
  <2> HIDE DEF A, T, D, B
  <2> QED BY <1>0, <2>1, <2>2, <2>4, ProductPlus
<1> QED BY <1>2, <1>3, <1>4, RectUnique DEF full, once, half

-----------------------------------------------------------------------------
(* A key: what is chosen, and P3 from it, whatever was in its memory.      *)
KeyPair(o, p1, p2, p3) ==
  /\ o \in Oils /\ p1 \in Triangles(V) /\ p2 \in Rects
  /\ \E c \in Triangles(O) : p3 = UpperMatTrXMat(c, o, TrimatMadd(p2, p1, o))

(* P3 is the folded product, and S the full sum, at every equation. *)
LEMMA KeyPairIs ==
  ASSUME NEW o, NEW p1, NEW p2, NEW p3, KeyPair(o, p1, p2, p3)
  PROVE  /\ o \in Oils /\ p1 \in Triangles(V) /\ p2 \in Rects /\ p3 \in Triangles(O)
         /\ \A e \in Idx(M) :
              /\ Sizes(V, O, Upper(p1, V, e), Rect(p2, e), Oil(o))
              /\ Upper(p3, O, e)
                 = Folded(O, Square(V, O, Upper(p1, V, e), Rect(p2, e), Oil(o)))
              /\ Rect(TrimatTrMadd(TrimatMadd(p2, p1, o), p1, o), e)
                 = FullS(V, O, Upper(p1, V, e), Rect(p2, e), Oil(o))
<1>0. V \in Nat /\ O \in Nat
  BY Size
<1>1. o \in Oils /\ p1 \in Triangles(V) /\ p2 \in Rects
  BY DEF KeyPair
<1>2. PICK c \in Triangles(O) : p3 = UpperMatTrXMat(c, o, TrimatMadd(p2, p1, o))
  BY DEF KeyPair
<1> DEFINE half == TrimatMadd(p2, p1, o)
           full == TrimatTrMadd(half, p1, o)
<1>3. /\ half \in Rects
      /\ \A e \in Idx(M) : Rect(half, e) = HalfS(V, O, Upper(p1, V, e), Rect(p2, e), Oil(o))
  BY <1>1, TrimatMaddIs DEF HalfS
<1> HIDE DEF half
<1>4. \A e \in Idx(M) : Rect(full, e) = FullS(V, O, Upper(p1, V, e), Rect(p2, e), Oil(o))
  BY <1>1, <1>3, TrimatTrMaddIs DEF FullS
<1>5. p3 = UpperMatTrXMat(c, o, half)
  BY <1>2 DEF half
<1>6. /\ p3 \in Triangles(O)
      /\ \A e \in Idx(M) :
           Upper(p3, O, e) = Folded(O, MatProduct(O, V, O, Transposed(V, O, Oil(o)), Rect(half, e)))
  BY <1>1, <1>3, <1>5, UpperMatFolded
<1>7. \A e \in Idx(M) :
        Upper(p3, O, e) = Folded(O, Square(V, O, Upper(p1, V, e), Rect(p2, e), Oil(o)))
  BY <1>3, <1>6 DEF Square
<1>8. \A e \in Idx(M) : Sizes(V, O, Upper(p1, V, e), Rect(p2, e), Oil(o))
  BY <1>0, <1>1, UpperType, RectType, OilType DEF Sizes
<1> QED BY <1>1, <1>4, <1>6, <1>7, <1>8 DEF half

(* The public map of a signature, at one equation.                         *)
LEMMA MapOfSignature ==
  ASSUME KeyPair(O_, P1, P2, P3), NEW v \in Vec(V), NEW q \in Vec(O)
  PROVE  /\ PublicMap(P1, P2, P3, Signature(v, q)) \in Batch
         /\ \A e \in Idx(M) :
              PublicMap(P1, P2, P3, Signature(v, q))[e]
              = Quad(V, O, Upper(P1, V, e), Rect(P2, e), Oil(O_),
                     VecAdd(V, v, Apply(V, O, Oil(O_), q)), q)
<1> DEFINE z == VecAdd(V, v, Apply(V, O, Oil(O_), q))
           x == Signature(v, q)
<1>0. V \in Nat /\ O \in Nat
  BY Size
<1>1. /\ O_ \in Oils /\ P1 \in Triangles(V) /\ P2 \in Rects /\ P3 \in Triangles(O)
      /\ \A e \in Idx(M) :
           /\ Sizes(V, O, Upper(P1, V, e), Rect(P2, e), Oil(O_))
           /\ Upper(P3, O, e) = Folded(O, Square(V, O, Upper(P1, V, e), Rect(P2, e), Oil(O_)))
  BY KeyPairIs
<1>2. z \in Vec(V)
  <2>1. Oil(O_) \in Mats(V, O)
    BY <1>1, OilType
  <2>2. Apply(V, O, Oil(O_), q) \in Vec(V)
    BY <1>0, <2>1, ApplyType
  <2> QED BY <1>0, <2>2, VecAddType
<1>3. (\A i \in Idx(V) : x[i] = z[i]) /\ (\A j \in Idx(O) : x[V + j] = q[j])
  BY <1>1, SignatureIs
<1> HIDE DEF x, z
<1>4. /\ PublicMap(P1, P2, P3, x) \in Batch
      /\ \A e \in Idx(M) :
           PublicMap(P1, P2, P3, x)[e]
           = Plus(Inner(V, z, Apply(V, V, Upper(P1, V, e), z)),
                  Plus(Inner(V, z, Apply(V, O, Rect(P2, e), q)),
                       Inner(O, q, Apply(O, O, Upper(P3, O, e), q))))
  BY <1>1, <1>2, <1>3, PublicMapIs
<1>5. ASSUME NEW e \in Idx(M)
      PROVE  Inner(O, q, Apply(O, O, Upper(P3, O, e), q))
             = Inner(O, q, Apply(O, O, Square(V, O, Upper(P1, V, e), Rect(P2, e), Oil(O_)), q))
  <2> DEFINE R == Square(V, O, Upper(P1, V, e), Rect(P2, e), Oil(O_))
  <2>1. R \in Mats(O, O)
    BY <1>1, STypes
  <2>2. Upper(P3, O, e) = Folded(O, R)
    BY <1>1
  <2> HIDE DEF R
  <2>3. Inner(O, q, Apply(O, O, Folded(O, R), q)) = Inner(O, q, Apply(O, O, R, q))
    BY <1>0, <2>1, FoldedForm
  <2> QED BY <2>2, <2>3 DEF R
<1>6. \A e \in Idx(M) :
        PublicMap(P1, P2, P3, x)[e] = Quad(V, O, Upper(P1, V, e), Rect(P2, e), Oil(O_), z, q)
  BY <1>4, <1>5 DEF Quad
<1> QED BY <1>4, <1>6 DEF x, z

(* The public map vanishes on the oil space. *)
LEMMA KeyVanishes ==
  ASSUME KeyPair(O_, P1, P2, P3), NEW q \in Vec(O)
  PROVE  PublicMap(P1, P2, P3, Signature([k \in 0 .. V - 1 |-> Zero], q)) = ZeroBatch
<1>0. V \in Nat
  BY Size
<1>1. ZeroVec(V) \in Vec(V) /\ [k \in 0 .. V - 1 |-> Zero] = ZeroVec(V)
  BY <1>0, ZeroVecType DEF ZeroVec, Idx
<1> DEFINE x == Signature(ZeroVec(V), q)
<1>2. /\ PublicMap(P1, P2, P3, x) \in Batch
      /\ \A e \in Idx(M) :
           PublicMap(P1, P2, P3, x)[e]
           = Quad(V, O, Upper(P1, V, e), Rect(P2, e), Oil(O_),
                  VecAdd(V, ZeroVec(V), Apply(V, O, Oil(O_), q)), q)
  BY <1>1, MapOfSignature
<1> HIDE DEF x
<1>3. \A e \in Idx(M) : PublicMap(P1, P2, P3, x)[e] = Zero
  <2>1. TAKE e \in Idx(M)
  <2>2. Sizes(V, O, Upper(P1, V, e), Rect(P2, e), Oil(O_))
    BY KeyPairIs
  <2>3. Quad(V, O, Upper(P1, V, e), Rect(P2, e), Oil(O_),
             VecAdd(V, ZeroVec(V), Apply(V, O, Oil(O_), q)), q) = Zero
    BY <2>2, QuadVanishes
  <2> QED BY <1>2, <2>3
<1>4. PublicMap(P1, P2, P3, x) = ZeroBatch
  BY <1>2, <1>3, BatchUnique, ZeroBatchType
<1> QED BY <1>1, <1>4 DEF x

(* A solution of the system is a preimage of the digest.                   *)
LEMMA SolutionMaps ==
  ASSUME KeyPair(O_, P1, P2, P3), NEW s,
         s = IF variant = "pkc_skc" THEN P2 ELSE TrimatTrMadd(TrimatMadd(P2, P1, O_), P1, O_),
         NEW v \in Vec(V), NEW q \in Vec(O), NEW d \in Batch,
         NEW mat, \A i \in Idx(O) : mat[i] = Mat(s, v, i),
         Prod(O, mat, q) = Constant(v, d)
  PROVE  PublicMap(P1, P2, P3, Signature(v, q)) = d
<1> DEFINE map == PublicMap(P1, P2, P3, Signature(v, q))
           full == TrimatTrMadd(TrimatMadd(P2, P1, O_), P1, O_)
           A(e) == Upper(P1, V, e)
           D(e) == Rect(P2, e)
           B == Oil(O_)
           vAv(e) == Inner(V, v, Apply(V, V, A(e), v))
           vSq(e) == Inner(V, v, Apply(V, O, FullS(V, O, A(e), D(e), B), q))
<1>0. V \in Nat /\ O \in Nat
  BY Size
<1>1. /\ O_ \in Oils /\ P1 \in Triangles(V) /\ P2 \in Rects
      /\ \A e \in Idx(M) : /\ Sizes(V, O, A(e), D(e), B)
                           /\ Rect(full, e) = FullS(V, O, A(e), D(e), B)
  BY KeyPairIs
<1>2. full \in Rects
  <2>1. TrimatMadd(P2, P1, O_) \in Rects
    BY <1>1, TrimatMaddIs
  <2> QED BY <1>1, <2>1, TrimatTrMaddIs
<1> HIDE DEF full
<1>3. map \in Batch /\ \A e \in Idx(M) : map[e] = Quad(V, O, A(e), D(e), B, VecAdd(V, v, Apply(V, O, B, q)), q)
  BY MapOfSignature
<1>4. \A e \in Idx(M) : Quad(V, O, A(e), D(e), B, VecAdd(V, v, Apply(V, O, B, q)), q) = Plus(vAv(e), vSq(e))
  BY <1>1, QuadIs
<1>5. \A e \in Idx(M) : Constant(v, d)[e] = Plus(vAv(e), d[e]) /\ vAv(e) \in F /\ d[e] \in F
  <2> DEFINE c == QuadTrimatEval(P1, v, V)
  <2>1. c \in Batch /\ \A e \in Idx(M) : c[e] = vAv(e)
    BY <1>1, QuadTrimatEvalIs
  <2> HIDE DEF c, vAv
  <2>2. \A e \in Idx(M) : BatchAdd(c, d)[e] = Plus(c[e], d[e]) /\ c[e] \in F /\ d[e] \in F
    BY <2>1, BatchAddType
  <2> QED BY <2>1, <2>2 DEF Constant, c
<1>6. \A e \in Idx(M) : Prod(O, mat, q)[e] = vSq(e)
  <2>1. CASE variant = "pkc_skc"
    <3>1. s = P2 /\ \A i \in Idx(O) : mat[i] = MatFromP2(s, v, i)
      BY <2>1 DEF Mat
    <3>2. \A e \in Idx(M) :
            Prod(O, mat, q)[e]
            = Plus(Inner(V, v, Apply(V, O, D(e), q)),
                   Inner(V, Apply(V, V, Symmetric(P1, e), v), Apply(V, O, B, q)))
      BY <1>1, <3>1, SystemFromP2
    <3>3. \A e \in Idx(M) : Symmetric(P1, e) = MatAdd(V, V, A(e), Transposed(V, V, A(e)))
      BY DEF Symmetric
    <3> HIDE DEF A, D, B
    <3>4. \A e \in Idx(M) :
            vSq(e) = Plus(Inner(V, v, Apply(V, O, D(e), q)),
                          Inner(V, Apply(V, V, MatAdd(V, V, A(e), Transposed(V, V, A(e))), v),
                                Apply(V, O, B, q)))
      BY <1>1, LinearPart
    <3> QED BY <3>2, <3>3, <3>4
  <2>2. CASE variant # "pkc_skc"
    <3>1. s = full /\ \A i \in Idx(O) : mat[i] = MatFromS(s, v, i)
      BY <2>2 DEF Mat, full
    <3>2. \A e \in Idx(M) : Prod(O, mat, q)[e] = Inner(V, v, Apply(V, O, Rect(full, e), q))
      BY <1>2, <3>1, SystemFromS
    <3> QED BY <1>1, <3>2
  <2> QED BY <2>1, <2>2
<1> HIDE DEF map, vAv, vSq
<1>7. \A e \in Idx(M) : map[e] = d[e]
  <2>1. TAKE e \in Idx(M)
  <2>2. map[e] = Plus(vAv(e), Plus(vAv(e), d[e])) /\ vAv(e) \in F /\ d[e] \in F
    BY <1>3, <1>4, <1>5, <1>6
  <2>3. Plus(vAv(e), Plus(vAv(e), d[e])) = Plus(Plus(vAv(e), vAv(e)), d[e])
    BY <2>2, PlusAssoc
  <2> QED BY <2>2, <2>3, Ring
<1> QED BY <1>3, <1>7, BatchUnique DEF map

-----------------------------------------------------------------------------
(* What S and P3 are at each step: S is P2, half of the sum, all of it; P3 *)
(* is computed from the half, over whatever was in its memory.             *)
HalfKey == TrimatMadd(P2, P1, O_)
Started == pc # "generate"
P3Pending == pc \in {"generate", "F1T1_F2", "P3"}

KeyInvariant ==
  /\ pc \in {"generate", "F1T1_F2", "P3", "F1tr_T1", "generated", "attempt", "signed"}
  /\ P3Pending => P3 \in Uninitialised
  /\ Started => O_ \in Oils /\ P1 \in Triangles(V) /\ P2 \in Rects
  /\ pc = "F1T1_F2" => S = P2
  /\ pc \in {"P3", "F1tr_T1"} => S = HalfKey
  /\ ~P3Pending => \E c \in Uninitialised : P3 = UpperMatTrXMat(c, O_, HalfKey)
  /\ Generated => S = TrimatTrMadd(HalfKey, P1, O_)
  /\ pc \in {"attempt", "signed"} => sk = Loaded
  /\ pc = "signed" => PublicMap(P1, P2, P3, w) = y

LEMMA UninitialisedType == Uninitialised \subseteq Triangles(O)
  BY DEF Uninitialised, Triangles, Batch

(* Once P3 is computed there is a key pair. *)
LEMMA KeyIsPair ==
  ASSUME KeyInvariant, Started, ~P3Pending
  PROVE  KeyPair(O_, P1, P2, P3)
BY UninitialisedType DEF KeyInvariant, KeyPair, HalfKey

(* A solved attempt leaves a preimage of its digest. *)
LEMMA AttemptMaps ==
  ASSUME KeyInvariant, Attempt
  PROVE  PublicMap(P1, P2, P3, w') = y'
<1>1. pc = "attempt" /\ Started /\ ~P3Pending /\ Generated
  BY DEF Attempt, Started, P3Pending, Generated
<1>2. KeyPair(O_, P1, P2, P3)
  BY <1>1, KeyIsPair
<1>3. sk = IF variant = "pkc_skc" THEN P2 ELSE TrimatTrMadd(TrimatMadd(P2, P1, O_), P1, O_)
  BY <1>1 DEF KeyInvariant, Loaded, HalfKey
<1>4. vinegar' \in Vec(V) /\ y' \in Batch
  BY InputsAssumption DEF Attempt, Vec, Idx
<1>5. PICK q \in OilVectors :
        /\ Prod(O, [i \in 0 .. O - 1 |-> Mat(sk, vinegar', i)], q) = Constant(vinegar', y')
        /\ w' = Signature(vinegar', q)
  BY DEF Attempt
<1> DEFINE mat == [i \in 0 .. O - 1 |-> Mat(sk, vinegar', i)]
<1>6. \A i \in Idx(O) : mat[i] = Mat(sk, vinegar', i)
  BY DEF Idx
<1>7. Prod(O, mat, q) = Constant(vinegar', y')
  BY <1>5
<1>8. q \in Vec(O)
  BY DEF OilVectors, Vec, Idx
<1> HIDE DEF mat
<1>9. PublicMap(P1, P2, P3, Signature(vinegar', q)) = y'
  BY <1>2, <1>3, <1>4, <1>6, <1>7, <1>8, SolutionMaps
<1> QED BY <1>5, <1>9

(* The invariant holds at first and is kept by every step. *)
LEMMA KeyInit == Init => KeyInvariant
BY DEF Init, KeyInvariant, Started, P3Pending, Generated

LEMMA KeyStep == KeyInvariant /\ [Next]_vars => KeyInvariant'
<1> SUFFICES ASSUME KeyInvariant, [Next]_vars PROVE KeyInvariant'
  OBVIOUS
<1> USE DEF Started, P3Pending, Generated
<1>1. CASE Generate
  <2>1. O_' \in Oils /\ P1' \in Triangles(V) /\ P2' \in Rects
    BY <1>1, InputsAssumption DEF Generate, Oils, Triangles, Rects
  <2>2. pc = "generate" /\ pc' = "F1T1_F2" /\ S' = P2' /\ P3' = P3
    BY <1>1 DEF Generate
  <2>3. P3' \in Uninitialised
    BY <2>2 DEF KeyInvariant
  <2> QED BY <2>1, <2>2, <2>3 DEF KeyInvariant
<1>2. CASE CalculateF1T1F2
  <2>1. pc = "F1T1_F2" /\ pc' = "P3" /\ UNCHANGED <<O_, P1, P2, P3>>
    BY <1>2 DEF CalculateF1T1F2
  <2>2. S' = HalfKey
    BY <1>2, <2>1 DEF CalculateF1T1F2, KeyInvariant, HalfKey
  <2>3. HalfKey' = HalfKey
    BY <2>1 DEF HalfKey
  <2> QED BY <2>1, <2>2, <2>3 DEF KeyInvariant
<1>3. CASE CalculateP3
  <2>1. pc = "P3" /\ pc' = "F1tr_T1" /\ UNCHANGED <<O_, P1, P2, S>>
    BY <1>3 DEF CalculateP3
  <2>2. HalfKey' = HalfKey
    BY <2>1 DEF HalfKey
  <2>3. P3 \in Uninitialised /\ P3' = UpperMatTrXMat(P3, O_, HalfKey)
    BY <1>3, <2>1 DEF CalculateP3, KeyInvariant
  <2>4. \E c \in Uninitialised : P3' = UpperMatTrXMat(c, O_', HalfKey')
    BY <2>1, <2>2, <2>3
  <2>5. Uninitialised' = Uninitialised
    BY DEF Uninitialised
  <2> QED BY <2>1, <2>2, <2>4, <2>5 DEF KeyInvariant
<1>4. CASE CalculateF1trT1
  <2>1. pc = "F1tr_T1" /\ pc' = "generated" /\ UNCHANGED <<O_, P1, P2, P3>>
    BY <1>4 DEF CalculateF1trT1
  <2>2. HalfKey' = HalfKey
    BY <2>1 DEF HalfKey
  <2>3. S' = TrimatTrMadd(HalfKey, P1, O_)
    BY <1>4, <2>1 DEF CalculateF1trT1, KeyInvariant
  <2> QED BY <2>1, <2>2, <2>3 DEF KeyInvariant
<1>5. CASE Load
  <2>1. pc = "generated" /\ pc' = "attempt" /\ UNCHANGED <<variant, O_, P1, P2, S, P3>> /\ sk' = Loaded
    BY <1>5 DEF Load
  <2>2. HalfKey' = HalfKey /\ Loaded' = Loaded
    BY <2>1 DEF HalfKey, Loaded
  <2> QED BY <2>1, <2>2 DEF KeyInvariant
<1>6. CASE Attempt
  <2>1. pc = "attempt" /\ pc' = "signed" /\ UNCHANGED <<variant, O_, P1, P2, S, P3, sk>>
    BY <1>6 DEF Attempt
  <2>2. HalfKey' = HalfKey /\ Loaded' = Loaded
    BY <2>1 DEF HalfKey, Loaded
  <2>3. PublicMap(P1, P2, P3, w') = y'
    BY <1>6, AttemptMaps
  <2> QED BY <2>1, <2>2, <2>3 DEF KeyInvariant
<1>7. CASE Again
  <2>1. pc = "signed" /\ pc' = "attempt" /\ UNCHANGED <<variant, O_, P1, P2, S, P3, sk>>
    BY <1>7 DEF Again
  <2>2. HalfKey' = HalfKey /\ Loaded' = Loaded
    BY <2>1 DEF HalfKey, Loaded
  <2> QED BY <2>1, <2>2 DEF KeyInvariant
<1>8. CASE UNCHANGED vars
  <2>1. UNCHANGED <<pc, variant, O_, P1, P2, S, P3, sk, y, w>>
    BY <1>8 DEF vars
  <2>2. HalfKey' = HalfKey /\ Loaded' = Loaded
    BY <2>1 DEF HalfKey, Loaded
  <2> QED BY <2>1, <2>2 DEF KeyInvariant
<1> QED BY <1>1, <1>2, <1>3, <1>4, <1>5, <1>6, <1>7, <1>8 DEF Next

LEMMA KeyAlways == Spec => []KeyInvariant
  BY KeyInit, KeyStep, PTL DEF Spec

(* For every ring, all dimensions, every secret key and whatever P3's    *)
(* memory held, the public map of a generated key vanishes on the oil      *)
(* space { (O x, x) }: P3 is folded from F1 * T1 + F2 as it is before the  *)
(* other half is added to it in place.                                     *)
THEOREM OilSpaceAlwaysVanishes == Spec => []OilSpaceVanishes
<1>1. KeyInvariant => OilSpaceVanishes
  <2> SUFFICES ASSUME KeyInvariant, Generated, NEW x \in OilVectors
               PROVE  PublicMap(P1, P2, P3, Signature([k \in 0 .. V - 1 |-> Zero], x)) = ZeroBatch
    BY DEF OilSpaceVanishes
  <2>1. KeyPair(O_, P1, P2, P3)
    BY KeyIsPair DEF Generated, Started, P3Pending
  <2>2. x \in Vec(O)
    BY DEF OilVectors, Vec, Idx
  <2> QED BY <2>1, <2>2, KeyVanishes
<1> QED BY <1>1, KeyAlways, PTL

(* The S that calculate_F2_P3 leaves, in two additions around P3, is the   *)
(* S that expand_sk computes from the seed with batch_2trimat_madd.        *)
THEOREM SecretKeysAgree == Spec => []SameSecretKey
<1>1. KeyInvariant => SameSecretKey
  <2> SUFFICES ASSUME KeyInvariant, Generated PROVE S = ExpandedS
    BY DEF SameSecretKey
  <2>1. O_ \in Oils /\ P1 \in Triangles(V) /\ P2 \in Rects /\ S = TrimatTrMadd(HalfKey, P1, O_)
    BY DEF KeyInvariant, Generated, Started
  <2> QED BY <2>1, ExpandedInTwo DEF HalfKey, ExpandedS
<1> QED BY <1>1, KeyAlways, PTL

(* A solution of an attempt's system, built from S (classic, pkc) or from  *)
(* P2 and P1 (pkc_skc), gives a signature that the public map sends to     *)
(* the digest, under the public key of the same key generation.            *)
THEOREM SignaturesAlwaysMap == Spec => []SignatureMaps
<1>1. KeyInvariant => SignatureMaps
  BY DEF KeyInvariant, SignatureMaps
<1> QED BY <1>1, KeyAlways, PTL
=============================================================================

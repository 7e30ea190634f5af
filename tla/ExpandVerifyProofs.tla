-------------------------- MODULE ExpandVerifyProofs --------------------------
(***************************************************************************)
(* Proofs about ExpandVerify for every number of vinegars and oils, every  *)
(* length of a vector and every unit: the key a verification expands row   *)
(* by row is the key of its seed, the evaluation reads what was written,   *)
(* and it uses each monomial's own vector.                                 *)
(*                                                                         *)
(* Both passes are described in vectors: First* say at which vector a row  *)
(* of P1, P2 or P3 starts.  The inductive invariant says where the pointer *)
(* and the keystream stand, which vectors have been written, and which     *)
(* monomials have been accumulated.                                        *)
(***************************************************************************)
EXTENDS ExpandVerify, TLAPS

-----------------------------------------------------------------------------
(* \div and %, which the SMT backend does not reason about by itself.      *)

(* Quotient and remainder are determined by their defining equation. *)
LEMMA DivUnique ==
  ASSUME NEW d \in Nat \ {0}, NEW q \in Int, NEW r \in Int, 0 <= r, r < d
  PROVE  /\ (q * d + r) \div d = q
         /\ (q * d + r) % d = r
<1> DEFINE num == q * d + r
           p == num \div d
           s == num % d
<1>1. num \in Int /\ p \in Int /\ s \in Int /\ num = d * p + s /\ 0 <= s /\ s < d
  OBVIOUS
<1>2. d * (p - q) = r - s
  BY <1>1
<1>3. p - q < 1
  <2>1. SUFFICES ASSUME p - q >= 1 PROVE FALSE
    BY <1>1
  <2>2. d * (p - q) >= d
    BY <2>1, <1>1
  <2> QED BY <2>2, <1>2, <1>1
<1>4. p - q > -1
  <2>1. SUFFICES ASSUME p - q <= -1 PROVE FALSE
    BY <1>1
  <2>2. d * (p - q) <= -d
    BY <2>1, <1>1
  <2> QED BY <2>2, <1>2, <1>1
<1>5. p = q
  BY <1>3, <1>4, <1>1
<1> QED BY <1>5, <1>1

(* Division with remainder, as the SMT backend needs it spelled out. *)
LEMMA DivMod ==
  ASSUME NEW d \in Nat \ {0}, NEW num \in Int
  PROVE  /\ num \div d \in Int
         /\ num % d \in 0 .. d - 1
         /\ num = (num \div d) * d + (num % d)
  OBVIOUS

(* Rounding up to a multiple of d is at least the number and less than d   *)
(* above it.                                                               *)
LEMMA RoundUpBounds ==
  ASSUME NEW d \in Nat \ {0}, NEW n \in Nat
  PROVE  LET m == ((n + d - 1) \div d) * d
         IN  m \in Nat /\ n <= m /\ m < n + d
<1> DEFINE num == (n + d) - 1
           q == num \div d
<1>1. num \in Int /\ num = n + d - 1
  OBVIOUS
<1> HIDE DEF num
<1>2. q \in Int /\ num % d \in 0 .. d - 1 /\ num = q * d + (num % d)
  BY <1>1, DivMod
<1> HIDE DEF q
<1>3. q * d \in Int
  BY <1>2
<1>4. q * d \in Nat /\ n <= q * d /\ q * d < n + d
  BY <1>1, <1>2, <1>3
<1> QED BY <1>1, <1>4 DEF q

-----------------------------------------------------------------------------
(* Triangular numbers. *)
LEMMA Doubled ==
  ASSUME NEW n \in Nat
  PROVE  Triangle(n) \in Nat /\ 2 * Triangle(n) = n * (n + 1)
<1> DEFINE k == n \div 2
<1>1. k \in Int /\ n % 2 \in 0 .. 1 /\ n = k * 2 + (n % 2)
  BY DivMod
<1>2. k \in Nat /\ (n = 2 * k \/ n = 2 * k + 1)
  <2> HIDE DEF k
  <2> QED BY <1>1
<1> HIDE DEF k
<1>3. PICK q \in Nat : n * (n + 1) = q * 2 + 0
  <2>1. CASE n = 2 * k
    <3>1. n * (n + 1) = (k * (n + 1)) * 2 + 0 /\ k * (n + 1) \in Nat
      BY <1>2, <2>1
    <3> QED BY <3>1
  <2>2. CASE n = 2 * k + 1
    <3>1. n * (n + 1) = (n * (k + 1)) * 2 + 0 /\ n * (k + 1) \in Nat
      BY <1>2, <2>2
    <3> QED BY <3>1
  <2> QED BY <1>2, <2>1, <2>2
<1>4. (q * 2 + 0) \div 2 = q
  BY DivUnique
<1>5. Triangle(n) = q
  BY <1>3, <1>4 DEF Triangle
<1> QED BY <1>3, <1>5

LEMMA TriangleSum ==
  ASSUME NEW n \in Nat, NEW k \in Nat
  PROVE  Triangle(n + k) = (Triangle(n) + (n * k)) + Triangle(k)
<1>1. /\ Triangle(n) \in Nat /\ 2 * Triangle(n) = n * (n + 1)
      /\ Triangle(k) \in Nat /\ 2 * Triangle(k) = k * (k + 1)
      /\ Triangle(n + k) \in Nat /\ 2 * Triangle(n + k) = (n + k) * ((n + k) + 1)
  BY Doubled
<1>2. (n + k) * ((n + k) + 1) = ((n * (n + 1)) + (2 * (n * k))) + (k * (k + 1))
  OBVIOUS
<1>3. n * k \in Nat
  OBVIOUS
<1> QED BY <1>1, <1>2, <1>3

LEMMA TriangleStep ==
  ASSUME NEW n \in Nat
  PROVE  Triangle(n + 1) = (Triangle(n) + n) + 1
<1>1. Triangle(1) = 1
  BY Doubled
<1>2. Triangle(n + 1) = (Triangle(n) + (n * 1)) + Triangle(1)
  BY TriangleSum
<1> QED BY <1>1, <1>2, Doubled

LEMMA TriangleBounds ==
  ASSUME NEW n \in Nat, NEW k \in Nat, k <= n
  PROVE  /\ Triangle(k) <= Triangle(n) /\ n <= Triangle(n)
         /\ n >= 2 => n + 1 <= Triangle(n)
<1>1. /\ Triangle(n) \in Nat /\ 2 * Triangle(n) = n * (n + 1)
      /\ Triangle(k) \in Nat /\ Triangle(n - k) \in Nat
  BY Doubled
<1>2. Triangle(k + (n - k)) = (Triangle(k) + (k * (n - k))) + Triangle(n - k)
  <2>1. n - k \in Nat
    OBVIOUS
  <2> QED BY <2>1, TriangleSum
<1>3. k * (n - k) \in Nat /\ k + (n - k) = n
  OBVIOUS
<1>4. Triangle(k) <= Triangle(n)
  BY <1>1, <1>2, <1>3
<1>5. n * (n + 1) >= 2 * n /\ (n >= 2 => n * (n + 1) >= 3 * n)
  OBVIOUS
<1> QED BY <1>1, <1>4, <1>5

LEMMA Scaled ==
  ASSUME NEW c \in Nat, NEW p \in Int, NEW q \in Int, p <= q
  PROVE  c * p <= c * q /\ c * p \in Int /\ c * q \in Int
  OBVIOUS

LEMMA Distributed ==
  ASSUME NEW c \in Int, NEW p \in Int, NEW q \in Int
  PROVE  c * (p + q) = (c * p) + (c * q) /\ c * p \in Int /\ c * q \in Int
  OBVIOUS

-----------------------------------------------------------------------------
(* The layout, in vectors. *)
LEMMA Dimensions ==
  /\ V \in Nat \ {0} /\ O \in Nat \ {0, 1} /\ N \in Nat /\ N = V + O /\ V < N
  /\ VecLen \in Nat \ {0} /\ Unit \in Nat \ {0}
  BY SizesAssumption DEF N

FirstP1(i) == Triangle(V) - Triangle(V - i)
FirstP2(i) == Triangle(V) + (i * O)
FirstP3(i) == (Triangle(V) + (V * O)) + (Triangle(O) - Triangle(N - i))
Vectors == Triangle(N)
Generated == FirstP2(V)

LEMMA KeySizes ==
  /\ Vectors \in Nat /\ Generated \in Nat /\ Triangle(V) \in Nat /\ Triangle(O) \in Nat
  /\ Triangle(O) >= 3
  /\ Vectors = Generated + Triangle(O)
  /\ PkBytes = VecLen * Vectors /\ P1Bytes + P2Bytes = VecLen * Generated
  /\ PkBytes \in Nat /\ P1Bytes + P2Bytes \in Nat
<1>1. V * O \in Nat /\ Triangle(V) \in Nat /\ Triangle(O) \in Nat /\ O \in Nat
  BY Dimensions, Doubled
<1>2. Triangle(O) >= 3
  BY <1>1, Dimensions, TriangleBounds
<1>3. Vectors = (Triangle(V) + (V * O)) + Triangle(O)
  BY Dimensions, TriangleSum DEF Vectors
<1>4. P1Bytes + P2Bytes = VecLen * Generated
  <2>1. VecLen * (Triangle(V) + (V * O)) = (VecLen * Triangle(V)) + (VecLen * (V * O))
    BY <1>1, Dimensions, Distributed
  <2>2. (VecLen * V) * O = VecLen * (V * O)
    BY Dimensions
  <2> QED BY <2>1, <2>2 DEF P1Bytes, P2Bytes, Generated, FirstP2
<1>5. PkBytes = VecLen * Vectors
  BY DEF PkBytes, Vectors
<1>6. Vectors \in Nat /\ Generated \in Nat /\ Vectors = Generated + Triangle(O)
  BY <1>1, <1>3 DEF Generated, FirstP2
<1>7. VecLen * Vectors \in Nat /\ VecLen * Generated \in Nat
  BY <1>6, Dimensions
<1> QED BY <1>1, <1>2, <1>4, <1>5, <1>6, <1>7

(* Where the rows start and end. *)
LEMMA RowsP1 ==
  ASSUME NEW i \in 0 .. V - 1
  PROVE  /\ FirstP1(i) \in Nat /\ FirstP1(i + 1) = FirstP1(i) + (V - i)
         /\ FirstP1(i) + (V - i) <= FirstP2(0) /\ FirstP2(0) = Triangle(V)
         /\ FirstP1(0) = 0 /\ FirstP1(V) = FirstP2(0)
<1>1. V - i \in Nat /\ V - (i + 1) \in Nat /\ (V - (i + 1)) + 1 = V - i
  BY Dimensions
<1>2. /\ Triangle(V - i) = (Triangle(V - (i + 1)) + (V - (i + 1))) + 1
      /\ Triangle(V - (i + 1)) \in Nat /\ Triangle(V) \in Nat /\ Triangle(V - i) \in Nat
  BY <1>1, TriangleStep, Doubled, Dimensions
<1>3. Triangle(V - i) <= Triangle(V)
  BY <1>1, TriangleBounds, Dimensions
<1>4. Triangle(0) = 0 /\ V - V = 0 /\ V - 0 = V /\ 0 * O = 0
  BY Doubled, Dimensions
<1>5. FirstP1(i) \in Nat /\ FirstP1(i + 1) = FirstP1(i) + (V - i)
  BY <1>1, <1>2, <1>3 DEF FirstP1
<1>6. FirstP1(i) + (V - i) <= Triangle(V)
  BY <1>1, <1>2, <1>5, Dimensions DEF FirstP1
<1>7. FirstP2(0) = Triangle(V) /\ FirstP1(0) = 0 /\ FirstP1(V) = Triangle(V)
  BY <1>2, <1>4 DEF FirstP1, FirstP2
<1> QED BY <1>5, <1>6, <1>7

LEMMA RowsP2 ==
  ASSUME NEW i \in 0 .. V - 1
  PROVE  /\ FirstP2(i) \in Nat /\ FirstP2(i + 1) = FirstP2(i) + O
         /\ FirstP2(i) + O <= Generated
<1>1. Triangle(V) \in Nat /\ i \in Nat /\ i + 1 <= V
  BY Dimensions, Doubled
<1>2. (i + 1) * O = (i * O) + O /\ i * O \in Nat
  BY <1>1, Dimensions
<1>3. (i + 1) * O <= V * O /\ V * O \in Nat
  BY <1>1, Dimensions
<1> QED BY <1>1, <1>2, <1>3, Dimensions DEF FirstP2, Generated

LEMMA RowsP3 ==
  ASSUME NEW i \in V .. N - 1
  PROVE  /\ FirstP3(i) \in Nat /\ FirstP3(i + 1) = FirstP3(i) + (N - i)
         /\ Generated <= FirstP3(i) /\ FirstP3(i) + (N - i) <= Vectors
         /\ i < N - 1 => FirstP3(i) + (N - i) < Vectors
         /\ FirstP3(V) = Generated
<1>1. N - i \in Nat /\ N - (i + 1) \in Nat /\ (N - (i + 1)) + 1 = N - i /\ N - i <= O
  BY Dimensions
<1>2. /\ Triangle(N - i) = (Triangle(N - (i + 1)) + (N - (i + 1))) + 1
      /\ Triangle(N - (i + 1)) \in Nat /\ Triangle(N - i) \in Nat
  BY <1>1, TriangleStep, Doubled
<1>3. Triangle(N - i) <= Triangle(O) /\ Triangle(O) \in Nat
  BY <1>1, TriangleBounds, Doubled, Dimensions
<1>4. Generated \in Nat /\ Vectors = Generated + Triangle(O) /\ Generated = Triangle(V) + (V * O)
  BY KeySizes DEF Generated, FirstP2
<1>5. FirstP3(i) = Generated + (Triangle(O) - Triangle(N - i))
      /\ FirstP3(i + 1) = Generated + (Triangle(O) - Triangle(N - (i + 1)))
  BY <1>4 DEF FirstP3
<1>6. i < N - 1 => Triangle(N - (i + 1)) >= 1
  <2>1. N - (i + 1) <= Triangle(N - (i + 1))
    BY <1>1, TriangleBounds
  <2> QED BY <1>1, <1>2, <2>1, Dimensions
<1>7. FirstP3(V) = Generated
  <2>1. N - V = O
    BY Dimensions
  <2> QED BY <1>3, <1>4, <2>1 DEF FirstP3
<1> QED BY <1>1, <1>2, <1>3, <1>4, <1>5, <1>6, <1>7, Dimensions

(* The vector of a monomial, row by row. *)
LEMMA VectorInRow ==
  ASSUME NEW i \in 0 .. N - 1, NEW j \in i .. N - 1
  PROVE  /\ j < V => VectorOf(i, j) = FirstP1(i) + (j - i)
         /\ i < V /\ j >= V => VectorOf(i, j) = FirstP2(i) + (j - V)
         /\ i >= V => VectorOf(i, j) = FirstP3(i) + (j - i)
  BY Dimensions DEF VectorOf, FirstP1, FirstP2, FirstP3

LEMMA VectorRange ==
  ASSUME NEW i \in 0 .. N - 1, NEW j \in i .. N - 1
  PROVE  /\ VectorOf(i, j) \in 0 .. Vectors - 1
         /\ i < V => VectorOf(i, j) < Generated
         /\ i >= V => VectorOf(i, j) >= Generated
         /\ i < N - 1 => VectorOf(i, j) + 1 < Vectors
<1>1. CASE j < V
  <2>1. i \in 0 .. V - 1 /\ j - i \in Nat /\ j - i < V - i
    BY <1>1, Dimensions
  <2>2. VectorOf(i, j) = FirstP1(i) + (j - i)
    BY <1>1, VectorInRow
  <2>3. FirstP1(i) \in Nat /\ FirstP1(i) + (V - i) <= Triangle(V)
    BY <2>1, RowsP1
  <2>4. Triangle(V) \in Nat /\ Triangle(V) <= Generated
    BY KeySizes, Dimensions DEF Generated, FirstP2
  <2> QED BY <2>1, <2>2, <2>3, <2>4, KeySizes, Dimensions
<1>2. CASE i < V /\ j >= V
  <2>1. i \in 0 .. V - 1 /\ j - V \in 0 .. O - 1
    BY <1>2, Dimensions
  <2>2. VectorOf(i, j) = FirstP2(i) + (j - V)
    BY <1>2, VectorInRow
  <2>3. FirstP2(i) \in Nat /\ FirstP2(i) + O <= Generated
    BY <2>1, RowsP2
  <2> QED BY <1>2, <2>1, <2>2, <2>3, KeySizes, Dimensions
<1>3. CASE i >= V
  <2>1. i \in V .. N - 1 /\ j - i \in 0 .. (N - i) - 1
    BY <1>3, Dimensions
  <2>2. VectorOf(i, j) = FirstP3(i) + (j - i)
    BY <1>3, VectorInRow
  <2>3. /\ FirstP3(i) \in Nat /\ Generated <= FirstP3(i) /\ FirstP3(i) + (N - i) <= Vectors
        /\ i < N - 1 => FirstP3(i) + (N - i) < Vectors
    BY <2>1, RowsP3
  <2> QED BY <1>3, <2>1, <2>2, <2>3, KeySizes, Dimensions
<1> QED BY <1>1, <1>2, <1>3, Dimensions
-----------------------------------------------------------------------------
(* The keystream in front of the end of P2. *)
Key(b) == KS!Stream("pk_seed", b)

(* Vector n of a key is the one the seed stands for. *)
Holds(key, n) == \A b \in 0 .. VecLen - 1 : key[(VecLen * n) + b] = WholeKey((VecLen * n) + b)

Agrees(key) == \A b \in 0 .. PkBytes - 1 : key[b] = Junk \/ key[b] = WholeKey(b)

LEMMA VectorBytes ==
  ASSUME NEW n \in Nat, NEW b \in 0 .. VecLen - 1
  PROVE  /\ (VecLen * n) + b \in Nat
         /\ n < Vectors => (VecLen * n) + b \in 0 .. PkBytes - 1
         /\ n < Generated => (VecLen * n) + b < P1Bytes + P2Bytes
         /\ n >= Generated => (VecLen * n) + b >= P1Bytes + P2Bytes
<1>1. VecLen * (n + 1) = (VecLen * n) + VecLen /\ VecLen * n \in Nat
  BY Dimensions
<1>2. n < Vectors => VecLen * (n + 1) <= VecLen * Vectors
  BY KeySizes, Dimensions, Scaled
<1>3. n < Generated => VecLen * (n + 1) <= VecLen * Generated
  BY KeySizes, Dimensions, Scaled
<1>4. n >= Generated => VecLen * n >= VecLen * Generated
  BY KeySizes, Dimensions, Scaled
<1> QED BY <1>1, <1>2, <1>3, <1>4, KeySizes, Dimensions

LEMMA Within ==
  ASSUME NEW p \in Nat, NEW w \in Nat, NEW g \in Nat, p + w <= g, NEW b \in p .. (p + w) - 1
  PROVE  b - p \in 0 .. w - 1 /\ p + (b - p) = b /\ b < g
  OBVIOUS

(* Vectors n to n + c - 1 of a key overwritten by those of the keystream. *)
Overwritten(new, key, n, c) ==
  /\ new = [b \in 0 .. PkBytes - 1 |-> new[b]]
  /\ \A b \in 0 .. PkBytes - 1 :
       new[b] = IF b \in ptr .. (ptr + (VecLen * c)) - 1 THEN WholeKey(b) ELSE key[b]
  /\ Agrees(key) => Agrees(new)
  /\ \A k \in n .. (n + c) - 1 : Holds(new, k)
  /\ \A k \in 0 .. Vectors - 1 : Holds(key, k) => Holds(new, k)

LEMMA StoringRow ==
  ASSUME NEW key, NEW n \in Nat, NEW c \in Nat, n + c <= Generated, ptr = VecLen * n,
         NEW bytes, bytes = [b \in 0 .. (VecLen * c) - 1 |-> Key(ptr + b)]
  PROVE  Overwritten(Stored(key, bytes, VecLen * c), key, n, c)
<1> DEFINE new == Stored(key, bytes, VecLen * c)
           w == VecLen * c
<1>1. /\ VecLen * n \in Nat /\ VecLen * c \in Nat
      /\ (VecLen * n) + (VecLen * c) = VecLen * (n + c)
      /\ VecLen * (n + c) <= VecLen * Generated
  BY KeySizes, Dimensions, Scaled
<1>2. w \in Nat /\ ptr \in Nat /\ ptr + w <= P1Bytes + P2Bytes
  BY <1>1, KeySizes
<1>3. \A b \in 0 .. PkBytes - 1 :
        new[b] = IF b \in ptr .. (ptr + w) - 1 THEN WholeKey(b) ELSE key[b]
  <2>1. bytes = [b \in 0 .. w - 1 |-> Key(ptr + b)]
    OBVIOUS
  <2>2. new = [b \in 0 .. PkBytes - 1 |->
                 IF b \in ptr .. ptr + w - 1 THEN bytes[b - ptr] ELSE key[b]]
    BY Zenon DEF Stored
  <2> HIDE DEF w, new
  <2>3. ASSUME NEW b \in ptr .. (ptr + w) - 1
        PROVE  bytes[b - ptr] = Key(b) /\ b < P1Bytes + P2Bytes
    <3>1. b - ptr \in 0 .. w - 1 /\ ptr + (b - ptr) = b /\ b < P1Bytes + P2Bytes
      BY <1>2, KeySizes, Within
    <3> QED BY <2>1, <3>1
  <2>4. ptr + w - 1 = (ptr + w) - 1
    BY <1>2
  <2> QED BY <2>2, <2>3, <2>4 DEF WholeKey, Key
<1>4. new = [b \in 0 .. PkBytes - 1 |-> new[b]]
  BY DEF Stored
<1> HIDE DEF new
<1>5. Agrees(key) => Agrees(new)
  BY <1>3 DEF Agrees
<1>6. ASSUME NEW k \in n .. (n + c) - 1 PROVE Holds(new, k)
  <2>1. ASSUME NEW b \in 0 .. VecLen - 1 PROVE new[(VecLen * k) + b] = WholeKey((VecLen * k) + b)
    <3>1. k \in Nat /\ k < Vectors /\ k + 1 <= n + c
      BY KeySizes
    <3>2. VecLen * n <= VecLen * k /\ VecLen * (k + 1) <= VecLen * (n + c)
          /\ VecLen * (k + 1) = (VecLen * k) + VecLen /\ VecLen * k \in Nat
      BY <3>1, Dimensions, Scaled
    <3>3. (VecLen * k) + b \in 0 .. PkBytes - 1
      BY <3>1, VectorBytes
    <3>4. (VecLen * k) + b \in ptr .. (ptr + w) - 1
      <4>1. ptr <= VecLen * k /\ (VecLen * k) + VecLen <= ptr + w
        BY <3>2, <1>1
      <4> DEFINE vk == VecLen * k
      <4>2. vk \in Nat /\ ptr <= vk /\ vk + VecLen <= ptr + w
        BY <3>2, <4>1
      <4> HIDE DEF vk, w
      <4>3. vk + b \in ptr .. (ptr + w) - 1
        BY <4>2, <1>2, Dimensions
      <4> QED BY <4>3 DEF vk
    <3> QED BY <3>3, <3>4, <1>3
  <2> QED BY <2>1 DEF Holds
<1>7. ASSUME NEW k \in 0 .. Vectors - 1, Holds(key, k) PROVE Holds(new, k)
  <2>1. \A b \in 0 .. VecLen - 1 : (VecLen * k) + b \in 0 .. PkBytes - 1
    BY VectorBytes, KeySizes
  <2> QED BY <1>3, <1>7, <2>1 DEF Holds
<1> QED BY <1>3, <1>4, <1>5, <1>6, <1>7 DEF new, Overwritten

(* P3 is copied where it belongs, and over nothing else. *)
LEMMA CopyingP3 ==
  ASSUME NEW key
  PROVE  LET new == WithP3(key)
         IN  /\ new = [b \in 0 .. PkBytes - 1 |-> new[b]]
             /\ \A b \in 0 .. PkBytes - 1 :
                  new[b] = IF b >= P1Bytes + P2Bytes THEN WholeKey(b) ELSE key[b]
             /\ Agrees(key) => Agrees(new)
             /\ \A k \in Generated .. Vectors - 1 : Holds(new, k)
             /\ \A k \in 0 .. Vectors - 1 : Holds(key, k) => Holds(new, k)
<1> DEFINE new == WithP3(key)
<1>1. new = [b \in 0 .. PkBytes - 1 |-> new[b]]
  BY DEF WithP3
<1>2. \A b \in 0 .. PkBytes - 1 :
        new[b] = IF b >= P1Bytes + P2Bytes THEN WholeKey(b) ELSE key[b]
  <2>1. \A b \in 0 .. PkBytes - 1 : b >= P1Bytes + P2Bytes <=> ~ (b < P1Bytes + P2Bytes)
    BY KeySizes
  <2> QED BY <2>1 DEF WithP3, WholeKey
<1> HIDE DEF new
<1>3. Agrees(key) => Agrees(new)
  BY <1>2 DEF Agrees
<1>4. ASSUME NEW k \in Generated .. Vectors - 1 PROVE Holds(new, k)
  <2>1. \A b \in 0 .. VecLen - 1 : /\ (VecLen * k) + b \in 0 .. PkBytes - 1
                                   /\ (VecLen * k) + b >= P1Bytes + P2Bytes
    BY VectorBytes, KeySizes
  <2> QED BY <1>2, <2>1 DEF Holds
<1>5. ASSUME NEW k \in 0 .. Vectors - 1, Holds(key, k) PROVE Holds(new, k)
  <2>1. \A b \in 0 .. VecLen - 1 : (VecLen * k) + b \in 0 .. PkBytes - 1
    BY VectorBytes, KeySizes
  <2> QED BY <1>2, <1>5, <2>1 DEF Holds
<1> QED BY <1>1, <1>2, <1>3, <1>4, <1>5 DEF new

-----------------------------------------------------------------------------
Predicate == build = "gf16_predicate"

Expanding == pc \in {"expand_P1", "expand_P2", "expand_P3"}
Evaluating == pc \in {"eval_P1", "eval_P2", "eval_P3", "done"}

Controls ==
  /\ x \in [0 .. N - 1 -> BOOLEAN]
  /\ pc = "expand" \/ Expanding \/ Evaluating
  /\ pc = "expand" => ~ Predicate
  /\ Expanding => Predicate
  /\ pc \in {"expand_P1", "expand_P2", "eval_P1", "eval_P2"} => row \in 0 .. V - 1
  /\ pc = "eval_P3" => row \in V .. N - 1
  /\ pk = [b \in 0 .. PkBytes - 1 |-> pk[b]]

(* Where the pointer stands, in vectors, and the keystream with it. *)
Place ==
  /\ pc = "expand" => ptr = 0 /\ pos = 0
  /\ pc \in {"expand_P1", "eval_P1"} => ptr = VecLen * FirstP1(row)
  /\ pc \in {"expand_P2", "eval_P2"} => ptr = VecLen * FirstP2(row)
  /\ pc = "eval_P3" => ptr = VecLen * FirstP3(row)
  /\ pc \in {"expand_P1", "expand_P2"} => pos = ptr

(* The vectors that are written: those the expansion has come by, but for  *)
(* the rows it skips; without skipping, all of them at once.               *)
Filled(i, j) ==
  \/ pc = "expand_P1" /\ i < row /\ j < V
  \/ pc = "expand_P2" /\ i < V /\ (j < V \/ i < row)
  \/ pc = "expand_P3" /\ i < V
  \/ Evaluating
Expanded ==
  /\ Agrees(pk)
  /\ Expanding \/ Evaluating =>
       \A i \in 0 .. N - 1 : \A j \in i .. N - 1 :
         Filled(i, j) /\ (Predicate /\ i < V => x[i]) => Holds(pk, VectorOf(i, j))
  /\ Evaluating /\ ~ Predicate => \A b \in 0 .. PkBytes - 1 : pk[b] = WholeKey(b)

(* What was read had been written. *)
ReadSoFar ==
  /\ ~ Evaluating => read = {}
  /\ ReadsWritten

(* The monomials the evaluation has come by, each with its own vector. *)
Term(i, j) ==
  [mono |-> <<i, j>>,
   coef |-> [b \in 0 .. VecLen - 1 |-> WholeKey((VecLen * VectorOf(i, j)) + b)]]
Passed(i, j) ==
  \/ pc = "eval_P1" /\ j < V /\ i < row
  \/ pc = "eval_P2" /\ i < V /\ (j < V \/ i < row)
  \/ pc = "eval_P3" /\ i < row
  \/ pc = "done"
Monomials ==
  { p \in (0 .. N - 1) \X (0 .. N - 1) : p[1] <= p[2] /\ x[p[1]] /\ x[p[2]] /\ Passed(p[1], p[2]) }
Accumulated == terms = { Term(p[1], p[2]) : p \in Monomials }

IInv == Controls /\ Place /\ Expanded /\ ReadSoFar /\ Accumulated

LEMMA InitInv == ASSUME Init PROVE IInv
<1>1. row = 0 /\ ptr = 0 /\ pos = 0 /\ read = {} /\ terms = {}
      /\ pc \in {"expand", "expand_P1"} /\ (pc = "expand_P1" <=> Predicate)
  BY DEF Init, Predicate
<1>2. Controls
  BY <1>1, Dimensions DEF Init, Controls, Expanding, Predicate, NothingWritten
<1>3. Place
  <2>1. FirstP1(0) = 0 /\ VecLen * 0 = 0
    BY RowsP1, Dimensions
  <2> QED BY <1>1, <2>1 DEF Place
<1>4. Expanded
  <2>1. \A i \in 0 .. N - 1 : \A j \in i .. N - 1 : ~ Filled(i, j)
    BY <1>1 DEF Filled, Evaluating
  <2>2. Agrees(pk)
    BY DEF Init, Agrees, NothingWritten
  <2> QED BY <1>1, <2>1, <2>2 DEF Expanded, Evaluating
<1>5. ReadSoFar
  BY <1>1 DEF ReadSoFar, ReadsWritten
<1>6. Accumulated
  <2>1. Monomials = {}
    BY <1>1 DEF Monomials, Passed
  <2> QED BY <1>1, <2>1 DEF Accumulated
<1> QED BY <1>2, <1>3, <1>4, <1>5, <1>6 DEF IInv

-----------------------------------------------------------------------------
(* The expansion. *)

(* Nothing is read or accumulated before the evaluation. *)
LEMMA NothingYet ==
  ASSUME IInv, ~ Evaluating, read' = read, terms' = terms,
         pc' \in {"expand_P1", "expand_P2", "expand_P3"} \/ (pc' = "eval_P1" /\ row' = 0)
  PROVE  ReadSoFar' /\ Accumulated'
<1>1. read = {} /\ read' = {}
  BY DEF IInv, ReadSoFar
<1>2. Monomials = {}
  BY DEF Monomials, Passed, Evaluating, IInv, Controls
<1>3. Monomials' = {}
  BY DEF Monomials, Passed
<1>4. terms' = {}
  BY <1>2 DEF IInv, Accumulated
<1> QED BY <1>1, <1>3, <1>4 DEF ReadSoFar, ReadsWritten, Accumulated

LEMMA ExpandPkInv == ASSUME IInv, ExpandPk PROVE IInv'
<1>1. /\ pc = "expand" /\ pc' = "eval_P1" /\ row' = 0 /\ ptr' = 0
      /\ build' = build /\ x' = x /\ terms' = terms /\ read' = read
      /\ out' = [b \in 0 .. (P1Bytes + P2Bytes) - 1 |-> Key(pos + b)]
      /\ pk' = WithP3(Stored(pk, out', P1Bytes + P2Bytes))
  BY DEF ExpandPk, Goto, KS!KSGen, Key
<1>2. ptr = 0 /\ pos = 0 /\ ~ Predicate /\ Agrees(pk)
  BY <1>1 DEF IInv, Place, Controls, Expanded
<1> DEFINE mid == Stored(pk, out', P1Bytes + P2Bytes)
<1>3. \A b \in 0 .. PkBytes - 1 :
        mid[b] = IF b \in 0 .. (P1Bytes + P2Bytes) - 1 THEN WholeKey(b) ELSE pk[b]
  <2>1. Generated \in Nat /\ 0 + Generated <= Generated /\ ptr = VecLen * 0
        /\ P1Bytes + P2Bytes = VecLen * Generated
    BY <1>2, KeySizes, Dimensions
  <2>2. out' = [b \in 0 .. (VecLen * Generated) - 1 |-> Key(ptr + b)]
    BY <1>1, <1>2, <2>1
  <2>3. mid = Stored(pk, out', VecLen * Generated)
    BY <2>1
  <2>4. \A b \in 0 .. PkBytes - 1 :
          Stored(pk, out', VecLen * Generated)[b] =
            IF b \in ptr .. (ptr + (VecLen * Generated)) - 1 THEN WholeKey(b) ELSE pk[b]
    <3>1. Overwritten(Stored(pk, out', VecLen * Generated), pk, 0, Generated)
      BY <2>1, <2>2, StoringRow
    <3> QED BY <3>1 DEF Overwritten
  <2>5. ptr + (VecLen * Generated) = P1Bytes + P2Bytes
    BY <1>2, <2>1, KeySizes
  <2> HIDE DEF mid
  <2> QED BY <1>2, <2>3, <2>4, <2>5
<1> HIDE DEF mid
<1>4. /\ pk' = [b \in 0 .. PkBytes - 1 |-> pk'[b]]
      /\ \A b \in 0 .. PkBytes - 1 :
           pk'[b] = IF b >= P1Bytes + P2Bytes THEN WholeKey(b) ELSE mid[b]
  BY <1>1, CopyingP3 DEF mid
<1>5. \A b \in 0 .. PkBytes - 1 : pk'[b] = WholeKey(b)
  BY <1>3, <1>4, KeySizes
<1>6. Controls'
  BY <1>1, <1>2, <1>4, Dimensions DEF IInv, Controls, Predicate, Expanding, Evaluating
<1>7. Place'
  <2>1. FirstP1(0) = 0 /\ VecLen * 0 = 0
    BY RowsP1, Dimensions
  <2> QED BY <1>1, <2>1 DEF Place, FirstP1
<1>8. Expanded'
  <2>1. \A n \in 0 .. Vectors - 1 : Holds(pk', n)
    BY <1>5, VectorBytes, KeySizes DEF Holds
  <2>2. \A i \in 0 .. N - 1 : \A j \in i .. N - 1 : Holds(pk', VectorOf(i, j))
    BY <2>1, VectorRange
  <2>3. Agrees(pk')
    BY <1>5 DEF Agrees
  <2> QED BY <1>5, <2>2, <2>3 DEF Expanded
<1>9. ReadSoFar' /\ Accumulated'
  BY <1>1, NothingYet DEF Evaluating
<1> QED BY <1>6, <1>7, <1>8, <1>9 DEF IInv

(* A row of expand_pk_predicate, skipped or not. *)
LEMMA RowExpanded ==
  ASSUME IInv, NEW n \in Nat, NEW c \in Nat, n + c <= Generated,
         ptr = VecLen * n, pos = ptr, SkipOrGen(VecLen * c)
  PROVE  /\ pk' = [b \in 0 .. PkBytes - 1 |-> pk'[b]]
         /\ Agrees(pk')
         /\ x[row] => \A k \in n .. (n + c) - 1 : Holds(pk', k)
         /\ \A k \in 0 .. Vectors - 1 : Holds(pk, k) => Holds(pk', k)
         /\ ptr' = VecLen * (n + c)
         /\ n + c < Generated => pos' = ptr'
<1>1. /\ VecLen * n \in Nat /\ VecLen * c \in Nat
      /\ (VecLen * n) + (VecLen * c) = VecLen * (n + c)
  BY Dimensions
<1>2. ptr' = VecLen * (n + c) /\ pos' = (pos + (VecLen * c)) % (BlockSize * CtrMod)
  BY <1>1 DEF SkipOrGen, Past, KS!KSGen, KS!KSSkip, KS!Period
<1>3. ASSUME n + c < Generated PROVE pos' = ptr'
  <2>1. VecLen * ((n + c) + 1) <= VecLen * Generated
        /\ VecLen * ((n + c) + 1) = (VecLen * (n + c)) + VecLen /\ VecLen * (n + c) \in Nat
    BY <1>3, KeySizes, Dimensions, Scaled
  <2> DEFINE q == VecLen * (n + c)
             p == BlockSize * CtrMod
  <2>2. q < p /\ q \in Nat /\ p \in Nat
    BY <2>1, StreamAssumption, KeySizes, Dimensions
  <2>3. pos' = q % p /\ ptr' = q
    BY <1>1, <1>2
  <2> HIDE DEF q, p
  <2>4. q % p = q
    BY <2>2
  <2> QED BY <2>3, <2>4
<1>4. Agrees(pk) /\ pk = [b \in 0 .. PkBytes - 1 |-> pk[b]]
  BY DEF IInv, Expanded, Controls
<1>5. CASE ~ x[row] /\ pk' = pk
  BY <1>2, <1>3, <1>4, <1>5
<1>6. CASE x[row] /\ KS!KSGen(VecLen * c) /\ pk' = Stored(pk, out', VecLen * c)
  <2>1. out' = [b \in 0 .. (VecLen * c) - 1 |-> Key(ptr + b)]
    BY <1>6 DEF KS!KSGen, Key
  <2>2. Overwritten(pk', pk, n, c)
    BY <1>6, <2>1, StoringRow
  <2> QED BY <1>2, <1>3, <1>4, <2>2 DEF Overwritten
<1> QED BY <1>5, <1>6 DEF SkipOrGen

(* The vectors written so far, when a row of P1 or of P2 has been dealt    *)
(* with: those from before and those of the row.                           *)
LEMMA FilledRow ==
  ASSUME IInv, Expanding, build' = build, x' = x,
         Agrees(pk'), \A k \in 0 .. Vectors - 1 : Holds(pk, k) => Holds(pk', k),
         \A i \in 0 .. N - 1 : \A j \in i .. N - 1 :
           Filled(i, j)' /\ (Predicate /\ i < V => x[i]) =>
             Filled(i, j) \/ Holds(pk', VectorOf(i, j)),
         ~ Evaluating' \/ Predicate
  PROVE  Expanded'
<1>1. \A i \in 0 .. N - 1 : \A j \in i .. N - 1 :
        Filled(i, j) /\ (Predicate /\ i < V => x[i]) => Holds(pk, VectorOf(i, j))
  BY DEF IInv, Expanded
<1>2. ASSUME NEW i \in 0 .. N - 1, NEW j \in i .. N - 1,
             Filled(i, j)' /\ (Predicate /\ i < V => x[i])
      PROVE  Holds(pk', VectorOf(i, j))
  <2>1. VectorOf(i, j) \in 0 .. Vectors - 1
    BY VectorRange
  <2> QED BY <1>1, <1>2, <2>1
<1>3. Predicate' = Predicate
  BY DEF Predicate
<1> QED BY <1>2, <1>3 DEF Expanded

LEMMA ExpandP1RowInv == ASSUME IInv, ExpandP1Row PROVE IInv'
<1>1. /\ pc = "expand_P1" /\ SkipOrGen(VecLen * (V - row)) /\ row \in 0 .. V - 1 /\ Predicate
      /\ \/ row < V - 1 /\ pc' = "expand_P1" /\ row' = row + 1
         \/ row = V - 1 /\ pc' = "expand_P2" /\ row' = 0
  BY Dimensions DEF ExpandP1Row, RowLenP1, Goto, IInv, Controls, Expanding
<1>2. build' = build /\ x' = x /\ terms' = terms /\ read' = read
  BY <1>1 DEF SkipOrGen
<1>3. /\ ptr = VecLen * FirstP1(row) /\ pos = ptr
      /\ FirstP1(row) \in Nat /\ V - row \in Nat /\ FirstP1(row + 1) = FirstP1(row) + (V - row)
      /\ FirstP1(row) + (V - row) <= Triangle(V) /\ Triangle(V) < Generated
      /\ FirstP1(V) = FirstP2(0) /\ FirstP1(row) + (V - row) <= Generated
  <2>1. V * O > 0 /\ V * O \in Nat /\ Generated = Triangle(V) + (V * O) /\ Triangle(V) \in Nat
    BY Dimensions, KeySizes DEF Generated, FirstP2
  <2>2. FirstP1(row) \in Nat /\ V - row \in Nat /\ FirstP1(row) + (V - row) <= Triangle(V)
        /\ FirstP1(row + 1) = FirstP1(row) + (V - row) /\ FirstP1(V) = FirstP2(0)
    BY <1>1, RowsP1, Dimensions
  <2> QED BY <1>1, <2>1, <2>2 DEF IInv, Place
<1>4. /\ pk' = [b \in 0 .. PkBytes - 1 |-> pk'[b]]
      /\ Agrees(pk')
      /\ x[row] => \A k \in FirstP1(row) .. (FirstP1(row) + (V - row)) - 1 : Holds(pk', k)
      /\ \A k \in 0 .. Vectors - 1 : Holds(pk, k) => Holds(pk', k)
      /\ ptr' = VecLen * (FirstP1(row) + (V - row))
      /\ FirstP1(row) + (V - row) < Generated => pos' = ptr'
  BY <1>1, <1>3, RowExpanded
<1>5. Controls'
  BY <1>1, <1>2, <1>4, Dimensions DEF IInv, Controls, Predicate, Expanding, Evaluating
<1>6. Place'
  <2>1. pos' = ptr'
    BY <1>3, <1>4, KeySizes
  <2>2. row = V - 1 => row + 1 = V
    BY <1>1, Dimensions
  <2> QED BY <1>1, <1>3, <1>4, <2>1, <2>2 DEF Place, FirstP1, FirstP2
<1>7. Expanded'
  <2>1. ASSUME NEW i \in 0 .. N - 1, NEW j \in i .. N - 1,
               Filled(i, j)' /\ (Predicate /\ i < V => x[i])
        PROVE  Filled(i, j) \/ Holds(pk', VectorOf(i, j))
    <3>1. j < V /\ i <= row
      BY <1>1, <2>1, Dimensions DEF Filled, Evaluating
    <3>2. CASE i < row
      BY <1>1, <3>1, <3>2 DEF Filled
    <3>3. CASE i = row
      <4>1. VectorOf(i, j) = FirstP1(row) + (j - row) /\ j - row \in 0 .. (V - row) - 1
        BY <1>1, <3>1, <3>3, VectorInRow, Dimensions
      <4>2. VectorOf(i, j) \in FirstP1(row) .. (FirstP1(row) + (V - row)) - 1
        BY <4>1, <1>3
      <4>3. x[row]
        BY <1>1, <2>1, <3>3, Dimensions
      <4> QED BY <1>4, <4>2, <4>3
    <3> QED BY <1>1, <3>1, <3>2, <3>3
  <2>2. ~ Evaluating' /\ Expanding
    BY <1>1 DEF Evaluating, Expanding
  <2> QED BY <1>2, <1>4, <2>1, <2>2, FilledRow
<1>8. ReadSoFar' /\ Accumulated'
  BY <1>1, <1>2, NothingYet DEF Evaluating
<1> QED BY <1>5, <1>6, <1>7, <1>8 DEF IInv

LEMMA ExpandP2RowInv == ASSUME IInv, ExpandP2Row PROVE IInv'
<1>1. /\ pc = "expand_P2" /\ SkipOrGen(VecLen * O) /\ row \in 0 .. V - 1 /\ Predicate
      /\ \/ row < V - 1 /\ pc' = "expand_P2" /\ row' = row + 1
         \/ row = V - 1 /\ pc' = "expand_P3" /\ row' = 0
  BY Dimensions DEF ExpandP2Row, RowLenP2, Goto, IInv, Controls, Expanding
<1>2. build' = build /\ x' = x /\ terms' = terms /\ read' = read
  BY <1>1 DEF SkipOrGen
<1>3. /\ ptr = VecLen * FirstP2(row) /\ pos = ptr
      /\ FirstP2(row) \in Nat /\ O \in Nat /\ FirstP2(row + 1) = FirstP2(row) + O
      /\ FirstP2(row) + O <= Generated
  BY <1>1, RowsP2, Dimensions DEF IInv, Place
<1>4. /\ pk' = [b \in 0 .. PkBytes - 1 |-> pk'[b]]
      /\ Agrees(pk')
      /\ x[row] => \A k \in FirstP2(row) .. (FirstP2(row) + O) - 1 : Holds(pk', k)
      /\ \A k \in 0 .. Vectors - 1 : Holds(pk, k) => Holds(pk', k)
      /\ ptr' = VecLen * (FirstP2(row) + O)
      /\ FirstP2(row) + O < Generated => pos' = ptr'
  BY <1>1, <1>3, RowExpanded
<1>5. Controls'
  BY <1>1, <1>2, <1>4, Dimensions DEF IInv, Controls, Predicate, Expanding, Evaluating
<1>6. Place'
  <2>1. row < V - 1 => FirstP2(row) + O < Generated
    <3> SUFFICES ASSUME row < V - 1 PROVE FirstP2(row) + O < Generated
      OBVIOUS
    <3>1. row + 1 \in 0 .. V - 1
      BY <1>1, Dimensions
    <3>2. FirstP2(row + 1) + O <= Generated /\ FirstP2(row + 1) \in Nat
      BY <3>1, RowsP2
    <3> QED BY <1>3, <3>2, Dimensions, KeySizes
  <2> QED BY <1>1, <1>3, <1>4, <2>1 DEF Place, FirstP2
<1>7. Expanded'
  <2>1. ASSUME NEW i \in 0 .. N - 1, NEW j \in i .. N - 1,
               Filled(i, j)' /\ (Predicate /\ i < V => x[i])
        PROVE  Filled(i, j) \/ Holds(pk', VectorOf(i, j))
    <3>1. i < V /\ (j < V \/ i <= row)
      BY <1>1, <2>1, Dimensions DEF Filled, Evaluating
    <3>2. CASE j < V \/ i < row
      BY <1>1, <3>1, <3>2 DEF Filled
    <3>3. CASE i = row /\ j >= V
      <4>1. VectorOf(i, j) = FirstP2(row) + (j - V) /\ j - V \in 0 .. O - 1
        BY <1>1, <3>1, <3>3, VectorInRow, Dimensions
      <4>2. VectorOf(i, j) \in FirstP2(row) .. (FirstP2(row) + O) - 1
        BY <4>1, <1>3
      <4>3. x[row]
        BY <1>1, <2>1, <3>1, <3>3, Dimensions
      <4> QED BY <1>4, <4>2, <4>3
    <3> QED BY <1>1, <3>1, <3>2, <3>3, Dimensions
  <2>2. ~ Evaluating' /\ Expanding
    BY <1>1 DEF Evaluating, Expanding
  <2> QED BY <1>2, <1>4, <2>1, <2>2, FilledRow
<1>8. ReadSoFar' /\ Accumulated'
  BY <1>1, <1>2, NothingYet DEF Evaluating
<1> QED BY <1>5, <1>6, <1>7, <1>8 DEF IInv

LEMMA CopyP3Inv == ASSUME IInv, CopyP3 PROVE IInv'
<1>1. /\ pc = "expand_P3" /\ pc' = "eval_P1" /\ row' = 0 /\ ptr' = 0 /\ pk' = WithP3(pk)
      /\ build' = build /\ x' = x /\ terms' = terms /\ read' = read
  BY DEF CopyP3, Goto
<1>2. Predicate /\ Agrees(pk)
  BY <1>1 DEF IInv, Controls, Expanding, Expanded
<1>3. /\ pk' = [b \in 0 .. PkBytes - 1 |-> pk'[b]]
      /\ Agrees(pk')
      /\ \A k \in Generated .. Vectors - 1 : Holds(pk', k)
      /\ \A k \in 0 .. Vectors - 1 : Holds(pk, k) => Holds(pk', k)
  BY <1>1, <1>2, CopyingP3
<1>4. Controls'
  BY <1>1, <1>2, <1>3, Dimensions DEF IInv, Controls, Predicate, Expanding, Evaluating
<1>5. Place'
  <2>1. FirstP1(0) = 0 /\ VecLen * 0 = 0
    BY RowsP1, Dimensions
  <2> QED BY <1>1, <2>1 DEF Place, FirstP1
<1>6. Expanded'
  <2>1. ASSUME NEW i \in 0 .. N - 1, NEW j \in i .. N - 1
        PROVE  Filled(i, j) \/ Holds(pk', VectorOf(i, j))
    <3>1. CASE i < V
      BY <1>1, <3>1 DEF Filled
    <3>2. CASE i >= V
      <4>1. VectorOf(i, j) \in Generated .. Vectors - 1
        BY <3>2, VectorRange, KeySizes
      <4> QED BY <1>3, <4>1
    <3> QED BY <3>1, <3>2, Dimensions
  <2>2. Expanding
    BY <1>1 DEF Expanding
  <2> QED BY <1>1, <1>2, <1>3, <2>1, <2>2, FilledRow
<1>7. ReadSoFar' /\ Accumulated'
  BY <1>1, NothingYet DEF Evaluating
<1> QED BY <1>4, <1>5, <1>6, <1>7 DEF IInv

-----------------------------------------------------------------------------
(* The evaluation. *)
LEMMA RoundedBounds == Rounded \in Nat /\ Rounded <= 2 * VecLen
<1>1. LET m == ((VecLen + Unit - 1) \div Unit) * Unit
      IN  m \in Nat /\ VecLen <= m /\ m < VecLen + Unit
  BY RoundUpBounds, Dimensions
<1> QED BY <1>1, UnitAssumption DEF Rounded

(* What an addition of vector j of row i reads is in the key, the bytes    *)
(* over the end of the vector too, and it was written.                     *)
LEMMA AdditionReads ==
  ASSUME IInv, Evaluating, NEW i \in 0 .. N - 1, NEW j \in i .. N - 1,
         ~ Skips(i),
         NEW b, b \in VecLen * VectorOf(i, j) .. (VecLen * VectorOf(i, j)) + AddLen(i) - 1
  PROVE  b \in 0 .. PkBytes - 1 /\ pk[b] # Junk
<1> DEFINE n == VectorOf(i, j)
           vn == VecLen * n
<1>1. n \in Nat /\ n < Vectors /\ (i < N - 1 => n + 1 < Vectors)
  BY VectorRange, KeySizes
<1>2. /\ vn \in Nat
      /\ VecLen * (n + 1) = vn + VecLen /\ VecLen * (n + 2) = vn + (2 * VecLen)
      /\ VecLen * (n + 1) <= PkBytes
      /\ i < N - 1 => VecLen * (n + 2) <= PkBytes
  <2>1. n + 1 <= Vectors /\ (i < N - 1 => n + 2 <= Vectors)
    BY <1>1, KeySizes
  <2> HIDE DEF n
  <2>2. VecLen * (n + 1) <= VecLen * Vectors
        /\ (i < N - 1 => VecLen * (n + 2) <= VecLen * Vectors)
    BY <1>1, <2>1, KeySizes, Dimensions, Scaled
  <2>3. VecLen * n \in Nat /\ VecLen * (n + 1) = (VecLen * n) + VecLen
        /\ VecLen * (n + 2) = (VecLen * n) + (2 * VecLen)
    BY <1>1, Dimensions
  <2> QED BY <2>2, <2>3, KeySizes
<1>3. AddLen(i) \in Nat /\ (AddLen(i) <= VecLen \/ (i < N - 1 /\ AddLen(i) <= 2 * VecLen))
  BY RoundedBounds, Dimensions DEF AddLen
<1> HIDE DEF n, vn
<1>4. b \in vn .. vn + AddLen(i) - 1
  BY DEF n, vn
<1>5. b \in 0 .. PkBytes - 1
  BY <1>2, <1>3, <1>4, KeySizes, Dimensions
<1>6. WholeKey(b) # Junk
  BY <1>5, JunkAssumption
<1>7. CASE build = "gf256"
  <2>1. ~ Predicate
    BY <1>7 DEF Predicate
  <2>2. pk[b] = WholeKey(b)
    BY <1>5, <2>1 DEF IInv, Expanded
  <2> QED BY <1>5, <1>6, <2>2
<1>8. CASE build # "gf256"
  <2>1. x[i] /\ AddLen(i) = VecLen
    BY <1>8 DEF Skips, AddLen
  <2>2. Holds(pk, n)
    BY <2>1 DEF IInv, Expanded, Filled, n
  <2>3. b - vn \in 0 .. VecLen - 1 /\ vn + (b - vn) = b
    BY <1>2, <1>4, <2>1, Dimensions
  <2>4. pk[b] = WholeKey(b)
    BY <2>2, <2>3 DEF Holds, vn
  <2> QED BY <1>5, <1>6, <2>4
<1> QED BY <1>7, <1>8

(* The coefficients an addition of a row not skipped takes. *)
LEMMA Coefficients ==
  ASSUME IInv, Evaluating, NEW i \in 0 .. N - 1, NEW j \in i .. N - 1, x[i]
  PROVE  [b \in 0 .. VecLen - 1 |->
            IF (VecLen * VectorOf(i, j)) + b < PkBytes THEN pk[(VecLen * VectorOf(i, j)) + b] ELSE Junk]
          = Term(i, j).coef
<1>1. Holds(pk, VectorOf(i, j))
  BY DEF IInv, Expanded, Filled
<1>2. ASSUME NEW b \in 0 .. VecLen - 1
      PROVE  (VecLen * VectorOf(i, j)) + b < PkBytes
  <2>1. VectorOf(i, j) \in Nat /\ VectorOf(i, j) < Vectors
    BY VectorRange, KeySizes
  <2>2. (VecLen * VectorOf(i, j)) + b \in 0 .. PkBytes - 1
    BY <2>1, VectorBytes
  <2> QED BY <2>2, KeySizes
<1> QED BY <1>1, <1>2 DEF Holds, Term

(* A row: its monomials are accumulated, and the pointer moves past it. *)
LEMMA RowEvaluated ==
  ASSUME IInv, Evaluating, NEW i \in 0 .. N - 1, NEW first \in i .. N - 1, NEW last \in first .. N - 1,
         NEW n \in Nat, ptr = VecLen * n,
         \A j \in first .. last : VectorOf(i, j) = n + (j - first),
         EvalRow(i, first, last)
  PROVE  /\ ptr' = VecLen * (n + ((last - first) + 1))
         /\ terms' = terms \cup { Term(i, j) : j \in { k \in first .. last : x[i] /\ x[k] } }
         /\ \A b \in read' : b \in 0 .. PkBytes - 1 /\ pk'[b] # Junk
         /\ pk' = pk /\ build' = build /\ x' = x
<1> DEFINE at(j) == ptr + VecLen * (j - first)
<1>1. pk' = pk /\ build' = build /\ x' = x
  BY DEF EvalRow
<1>2. ptr' = VecLen * (n + ((last - first) + 1))
  <2>1. ptr' = ptr + VecLen * ((last - first) + 1)
    BY DEF EvalRow, PastRow
  <2>2. (last - first) + 1 \in Nat
    BY Dimensions
  <2> QED BY <2>1, <2>2, Distributed, Dimensions
<1>3. \A j \in first .. last : j \in i .. N - 1 /\ at(j) = VecLen * VectorOf(i, j)
  <2> TAKE j \in first .. last
  <2>1. j - first \in Nat /\ j \in i .. N - 1
    BY Dimensions
  <2>2. VecLen * (n + (j - first)) = (VecLen * n) + (VecLen * (j - first))
    BY <2>1, Distributed, Dimensions
  <2> QED BY <2>1, <2>2
<1>4. \A b \in read : b \in 0 .. PkBytes - 1 /\ pk[b] # Junk
  BY DEF IInv, ReadSoFar, ReadsWritten
<1> DEFINE S == { k \in first .. last : x[i] /\ x[k] }
<1>5. CASE Skips(i)
  <2>1. terms' = terms /\ read' = read
    BY <1>5 DEF EvalRow
  <2>2. S = {}
    BY <1>5 DEF Skips
  <2> QED BY <1>1, <1>2, <1>4, <2>1, <2>2
<1>6. CASE ~ Skips(i)
  <2>1. read' = read \cup UNION { at(j) .. at(j) + AddLen(i) - 1 :
                                    j \in { k \in first .. last : Adds(i, k) } }
    BY <1>6 DEF EvalRow
  <2>2. terms' = terms \cup
          { [mono |-> <<i, j>>,
             coef |-> [b \in 0 .. VecLen - 1 |->
                         IF at(j) + b < PkBytes THEN pk[at(j) + b] ELSE Junk]] : j \in S }
    BY <1>6 DEF EvalRow
  <2> HIDE DEF at
  <2>3. ASSUME NEW b \in read' PROVE b \in 0 .. PkBytes - 1 /\ pk[b] # Junk
    <3>1. CASE b \in read
      BY <1>4, <3>1
    <3>2. CASE b \notin read
      <4>1. PICK j \in first .. last : b \in at(j) .. at(j) + AddLen(i) - 1
        BY <2>1, <2>3, <3>2
      <4> QED BY <1>3, <1>6, <4>1, AdditionReads
    <3> QED BY <3>1, <3>2
  <2>4. ASSUME NEW j \in S
        PROVE  [mono |-> <<i, j>>,
                coef |-> [b \in 0 .. VecLen - 1 |->
                            IF at(j) + b < PkBytes THEN pk[at(j) + b] ELSE Junk]] = Term(i, j)
    <3>1. j \in i .. N - 1 /\ at(j) = VecLen * VectorOf(i, j) /\ x[i]
      BY <1>3
    <3>2. [b \in 0 .. VecLen - 1 |->
             IF at(j) + b < PkBytes THEN pk[at(j) + b] ELSE Junk] = Term(i, j).coef
      BY <3>1, Coefficients
    <3> QED BY <3>2 DEF Term
  <2>5. terms' = terms \cup { Term(i, j) : j \in S }
    BY <2>2, <2>4
  <2> QED BY <1>1, <1>2, <2>3, <2>5
<1> QED BY <1>5, <1>6

LEMMA MonomialsGrow ==
  ASSUME Accumulated, x' = x,
         NEW i \in 0 .. N - 1, NEW first \in i .. N - 1, NEW last \in first .. N - 1,
         terms' = terms \cup { Term(i, j) : j \in { k \in first .. last : x[i] /\ x[k] } },
         \A k \in 0 .. N - 1 : \A j \in k .. N - 1 :
           Passed(k, j)' <=> Passed(k, j) \/ (k = i /\ j \in first .. last)
  PROVE  Accumulated'
<1> DEFINE S == { k \in first .. last : x[i] /\ x[k] }
           New == { <<i, j>> : j \in S }
<1>1. Monomials' = Monomials \cup New
  <2>1. ASSUME NEW k \in 0 .. N - 1, NEW j \in 0 .. N - 1
        PROVE  <<k, j>> \in Monomials' <=> <<k, j>> \in Monomials \cup New
    <3>1. <<k, j>> \in Monomials' <=> k <= j /\ x[k] /\ x[j] /\ Passed(k, j)'
      BY DEF Monomials
    <3>2. <<k, j>> \in Monomials <=> k <= j /\ x[k] /\ x[j] /\ Passed(k, j)
      BY DEF Monomials
    <3>3. <<k, j>> \in New <=> k = i /\ j \in first .. last /\ x[i] /\ x[j]
      OBVIOUS
    <3>4. k <= j => j \in k .. N - 1
      OBVIOUS
    <3>5. j \in first .. last => i <= j
      OBVIOUS
    <3> QED BY <3>1, <3>2, <3>3, <3>4, <3>5
  <2>2. Monomials' \subseteq (0 .. N - 1) \X (0 .. N - 1)
        /\ Monomials \subseteq (0 .. N - 1) \X (0 .. N - 1)
    BY DEF Monomials
  <2>3. New \subseteq (0 .. N - 1) \X (0 .. N - 1)
    BY Dimensions
  <2> HIDE DEF New
  <2> QED BY <2>1, <2>2, <2>3
<1>2. { Term(p[1], p[2]) : p \in New } = { Term(i, j) : j \in S }
  <2>1. ASSUME NEW t PROVE t \in { Term(p[1], p[2]) : p \in New } <=> t \in { Term(i, j) : j \in S }
    <3>1. ASSUME NEW p \in New, t = Term(p[1], p[2]) PROVE t \in { Term(i, j) : j \in S }
      <4>1. PICK j \in S : p = <<i, j>>
        OBVIOUS
      <4>2. p[1] = i /\ p[2] = j
        BY <4>1
      <4> QED BY <3>1, <4>2
    <3>2. ASSUME NEW j \in S, t = Term(i, j) PROVE t \in { Term(p[1], p[2]) : p \in New }
      <4>1. <<i, j>> \in New /\ <<i, j>>[1] = i /\ <<i, j>>[2] = j
        OBVIOUS
      <4> QED BY <3>2, <4>1
    <3> QED BY <3>1, <3>2
  <2> QED BY <2>1
<1> HIDE DEF New, S
<1>3. { Term(p[1], p[2]) : p \in Monomials \cup New }
        = { Term(p[1], p[2]) : p \in Monomials } \cup { Term(p[1], p[2]) : p \in New }
  OBVIOUS
<1> QED BY <1>1, <1>2, <1>3 DEF Accumulated, S

(* What the rows of the evaluation leave alone. *)
LEMMA KeyKept ==
  ASSUME IInv, Evaluating, Evaluating', build' = build, x' = x, pk' = pk
  PROVE  Expanded'
<1>1. \A i \in 0 .. N - 1 : \A j \in i .. N - 1 : Filled(i, j) /\ Filled(i, j)'
  BY DEF Filled
<1>2. Predicate' = Predicate
  BY DEF Predicate
<1> QED BY <1>1, <1>2 DEF IInv, Expanded, Agrees

LEMMA EvalP1RowInv == ASSUME IInv, EvalP1Row PROVE IInv'
<1>1. /\ pc = "eval_P1" /\ EvalRow(row, row, V - 1) /\ row \in 0 .. V - 1
      /\ \/ row < V - 1 /\ pc' = "eval_P1" /\ row' = row + 1
         \/ row = V - 1 /\ pc' = "eval_P2" /\ row' = 0
  BY Dimensions DEF EvalP1Row, Goto, IInv, Controls
<1>2. /\ row \in 0 .. N - 1 /\ row \in row .. N - 1 /\ V - 1 \in row .. N - 1
      /\ Evaluating /\ Evaluating'
  BY <1>1, Dimensions DEF Evaluating
<1>3. /\ ptr = VecLen * FirstP1(row) /\ FirstP1(row) \in Nat
      /\ FirstP1(row + 1) = FirstP1(row) + (V - row) /\ FirstP1(V) = FirstP2(0)
  BY <1>1, RowsP1, Dimensions DEF IInv, Place
<1>4. \A j \in row .. V - 1 : VectorOf(row, j) = FirstP1(row) + (j - row)
  BY <1>1, <1>2, VectorInRow, Dimensions
<1>5. /\ ptr' = VecLen * (FirstP1(row) + (((V - 1) - row) + 1))
      /\ terms' = terms \cup { Term(row, j) : j \in { k \in row .. V - 1 : x[row] /\ x[k] } }
      /\ \A b \in read' : b \in 0 .. PkBytes - 1 /\ pk'[b] # Junk
      /\ pk' = pk /\ build' = build /\ x' = x
  BY <1>1, <1>2, <1>3, <1>4, RowEvaluated
<1>6. Controls'
  <2>1. pc' \in {"eval_P1", "eval_P2"} /\ row' \in 0 .. V - 1
    BY <1>1, Dimensions
  <2>2. x \in [0 .. N - 1 -> BOOLEAN] /\ pk = [b \in 0 .. PkBytes - 1 |-> pk[b]]
    BY DEF IInv, Controls
  <2> QED BY <1>5, <2>1, <2>2 DEF Controls, Predicate, Expanding, Evaluating
<1>7. Place'
  <2>1. ((V - 1) - row) + 1 = V - row /\ (row = V - 1 => row + 1 = V)
    BY <1>1, Dimensions
  <2> QED BY <1>1, <1>3, <1>5, <2>1 DEF Place, FirstP1, FirstP2
<1>8. Expanded'
  BY <1>2, <1>5, KeyKept
<1>9. ReadSoFar'
  BY <1>2, <1>5 DEF ReadSoFar, ReadsWritten
<1>10. Accumulated'
  <2>1. \A k \in 0 .. N - 1 : \A j \in k .. N - 1 :
          Passed(k, j)' <=> Passed(k, j) \/ (k = row /\ j \in row .. V - 1)
    BY <1>1, Dimensions DEF Passed
  <2> QED BY <1>2, <1>5, <2>1, MonomialsGrow DEF IInv
<1> QED BY <1>6, <1>7, <1>8, <1>9, <1>10 DEF IInv

LEMMA EvalP2RowInv == ASSUME IInv, EvalP2Row PROVE IInv'
<1>1. /\ pc = "eval_P2" /\ EvalRow(row, V, N - 1) /\ row \in 0 .. V - 1
      /\ \/ row < V - 1 /\ pc' = "eval_P2" /\ row' = row + 1
         \/ row = V - 1 /\ pc' = "eval_P3" /\ row' = V
  BY Dimensions DEF EvalP2Row, Goto, IInv, Controls
<1>2. /\ row \in 0 .. N - 1 /\ V \in row .. N - 1 /\ N - 1 \in V .. N - 1
      /\ Evaluating /\ Evaluating'
  BY <1>1, Dimensions DEF Evaluating
<1>3. /\ ptr = VecLen * FirstP2(row) /\ FirstP2(row) \in Nat
      /\ FirstP2(row + 1) = FirstP2(row) + O
  BY <1>1, RowsP2, Dimensions DEF IInv, Place
<1>4. \A j \in V .. N - 1 : VectorOf(row, j) = FirstP2(row) + (j - V)
  BY <1>1, <1>2, VectorInRow, Dimensions
<1>5. /\ ptr' = VecLen * (FirstP2(row) + (((N - 1) - V) + 1))
      /\ terms' = terms \cup { Term(row, j) : j \in { k \in V .. N - 1 : x[row] /\ x[k] } }
      /\ \A b \in read' : b \in 0 .. PkBytes - 1 /\ pk'[b] # Junk
      /\ pk' = pk /\ build' = build /\ x' = x
  BY <1>1, <1>2, <1>3, <1>4, RowEvaluated
<1>6. Controls'
  <2>1. /\ pc' = "eval_P2" => row' \in 0 .. V - 1
        /\ pc' = "eval_P3" => row' \in V .. N - 1
        /\ pc' \in {"eval_P2", "eval_P3"}
    BY <1>1, Dimensions
  <2>2. x \in [0 .. N - 1 -> BOOLEAN] /\ pk = [b \in 0 .. PkBytes - 1 |-> pk[b]]
    BY DEF IInv, Controls
  <2> QED BY <1>5, <2>1, <2>2 DEF Controls, Predicate, Expanding, Evaluating
<1>7. Place'
  <2>1. ((N - 1) - V) + 1 = O /\ (row = V - 1 => row + 1 = V)
    BY <1>1, Dimensions
  <2>2. FirstP3(V) = FirstP2(V)
    BY RowsP3, Dimensions DEF Generated
  <2> QED BY <1>1, <1>3, <1>5, <2>1, <2>2 DEF Place, FirstP2, FirstP3
<1>8. Expanded'
  BY <1>2, <1>5, KeyKept
<1>9. ReadSoFar'
  BY <1>2, <1>5 DEF ReadSoFar, ReadsWritten
<1>10. Accumulated'
  <2>1. \A k \in 0 .. N - 1 : \A j \in k .. N - 1 :
          Passed(k, j)' <=> Passed(k, j) \/ (k = row /\ j \in V .. N - 1)
    BY <1>1, Dimensions DEF Passed
  <2> QED BY <1>2, <1>5, <2>1, MonomialsGrow DEF IInv
<1> QED BY <1>6, <1>7, <1>8, <1>9, <1>10 DEF IInv

LEMMA EvalP3RowInv == ASSUME IInv, EvalP3Row PROVE IInv'
<1>1. /\ pc = "eval_P3" /\ EvalRow(row, row, N - 1) /\ row \in V .. N - 1
      /\ \/ row < N - 1 /\ pc' = "eval_P3" /\ row' = row + 1
         \/ row = N - 1 /\ pc' = "done" /\ row' = 0
  BY Dimensions DEF EvalP3Row, Goto, IInv, Controls
<1>2. /\ row \in 0 .. N - 1 /\ row \in row .. N - 1 /\ N - 1 \in row .. N - 1
      /\ Evaluating /\ Evaluating'
  BY <1>1, Dimensions DEF Evaluating
<1>3. /\ ptr = VecLen * FirstP3(row) /\ FirstP3(row) \in Nat
      /\ FirstP3(row + 1) = FirstP3(row) + (N - row)
  BY <1>1, RowsP3, Dimensions DEF IInv, Place
<1>4. \A j \in row .. N - 1 : VectorOf(row, j) = FirstP3(row) + (j - row)
  BY <1>1, <1>2, VectorInRow, Dimensions
<1>5. /\ ptr' = VecLen * (FirstP3(row) + (((N - 1) - row) + 1))
      /\ terms' = terms \cup { Term(row, j) : j \in { k \in row .. N - 1 : x[row] /\ x[k] } }
      /\ \A b \in read' : b \in 0 .. PkBytes - 1 /\ pk'[b] # Junk
      /\ pk' = pk /\ build' = build /\ x' = x
  BY <1>1, <1>2, <1>3, <1>4, RowEvaluated
<1>6. Controls'
  <2>1. pc' \in {"eval_P3", "done"} /\ (pc' = "eval_P3" => row' \in V .. N - 1)
    BY <1>1, Dimensions
  <2>2. x \in [0 .. N - 1 -> BOOLEAN] /\ pk = [b \in 0 .. PkBytes - 1 |-> pk[b]]
    BY DEF IInv, Controls
  <2> QED BY <1>5, <2>1, <2>2 DEF Controls, Predicate, Expanding, Evaluating
<1>7. Place'
  <2>1. ((N - 1) - row) + 1 = N - row
    BY <1>1, Dimensions
  <2> QED BY <1>1, <1>3, <1>5, <2>1 DEF Place, FirstP3
<1>8. Expanded'
  BY <1>2, <1>5, KeyKept
<1>9. ReadSoFar'
  BY <1>2, <1>5 DEF ReadSoFar, ReadsWritten
<1>10. Accumulated'
  <2>1. \A k \in 0 .. N - 1 : \A j \in k .. N - 1 :
          Passed(k, j)' <=> Passed(k, j) \/ (k = row /\ j \in row .. N - 1)
    BY <1>1, Dimensions DEF Passed
  <2> QED BY <1>2, <1>5, <2>1, MonomialsGrow DEF IInv
<1> QED BY <1>6, <1>7, <1>8, <1>9, <1>10 DEF IInv

LEMMA ReturnInv == ASSUME IInv, Return PROVE IInv'
<1>1. /\ row' = 0 /\ ptr' = 0 /\ pos' = 0 /\ read' = {} /\ terms' = {}
      /\ pc' \in {"expand", "expand_P1"} /\ (pc' = "expand_P1" <=> Predicate) /\ build' = build
      /\ x' \in [0 .. N - 1 -> BOOLEAN] /\ pk' = [b \in 0 .. PkBytes - 1 |-> Junk]
  BY DEF Return, Predicate, NothingWritten
<1>2. Controls'
  <2>1. Predicate' = Predicate /\ 0 \in 0 .. V - 1
    BY <1>1, Dimensions DEF Predicate
  <2> QED BY <1>1, <2>1 DEF Controls, Expanding
<1>3. Place'
  <2>1. FirstP1(0) = 0 /\ VecLen * 0 = 0
    BY RowsP1, Dimensions
  <2> QED BY <1>1, <2>1 DEF Place, FirstP1
<1>4. Expanded'
  <2>1. \A i \in 0 .. N - 1 : \A j \in i .. N - 1 : ~ Filled(i, j)'
    BY <1>1 DEF Filled, Evaluating
  <2>2. Agrees(pk')
    BY <1>1 DEF Agrees
  <2> QED BY <1>1, <2>1, <2>2 DEF Expanded, Evaluating
<1>5. ReadSoFar'
  BY <1>1 DEF ReadSoFar, ReadsWritten
<1>6. Accumulated'
  <2>1. Monomials' = {}
    BY <1>1 DEF Monomials, Passed
  <2> QED BY <1>1, <2>1 DEF Accumulated
<1> QED BY <1>2, <1>3, <1>4, <1>5, <1>6 DEF IInv

LEMMA StutterInv == ASSUME IInv, UNCHANGED vars PROVE IInv'
<1>1. Monomials' = Monomials
  BY DEF vars, Monomials, Passed
<1>2. \A i, j : Filled(i, j)' = Filled(i, j)
  BY DEF vars, Filled, Evaluating
<1> QED BY <1>1, <1>2 DEF vars, IInv, Controls, Place, Expanded, ReadSoFar, ReadsWritten, Accumulated,
           Expanding, Evaluating, Predicate

LEMMA StepInv == IInv /\ [Next]_vars => IInv'
<1> SUFFICES ASSUME IInv, [Next]_vars PROVE IInv'
  OBVIOUS
<1>1. CASE ExpandPk
  BY <1>1, ExpandPkInv
<1>2. CASE ExpandP1Row
  BY <1>2, ExpandP1RowInv
<1>3. CASE ExpandP2Row
  BY <1>3, ExpandP2RowInv
<1>4. CASE CopyP3
  BY <1>4, CopyP3Inv
<1>5. CASE EvalP1Row
  BY <1>5, EvalP1RowInv
<1>6. CASE EvalP2Row
  BY <1>6, EvalP2RowInv
<1>7. CASE EvalP3Row
  BY <1>7, EvalP3RowInv
<1>8. CASE Return
  BY <1>8, ReturnInv
<1>9. CASE UNCHANGED vars
  BY <1>9, StutterInv
<1> QED BY <1>1, <1>2, <1>3, <1>4, <1>5, <1>6, <1>7, <1>8, <1>9 DEF Next

LEMMA Invariant == Spec => []IInv
  BY InitInv, StepInv, PTL DEF Spec

-----------------------------------------------------------------------------
(* Whatever rows expand_pk_predicate skips, a byte it writes is the byte   *)
(* expand_pk writes there: the keystream stays in step with the pointer.   *)
THEOREM ExpansionsAgree == Spec => []SameKey
<1>1. IInv => SameKey
  BY DEF IInv, Expanded, Agrees, SameKey
<1> QED BY <1>1, Invariant, PTL

(* The public map reads nothing outside the expanded key and nothing that  *)
(* the expansion left unwritten, whichever entries of the signature are    *)
(* zero and wherever its additions read past a vector.                     *)
THEOREM OnlyWrittenIsRead == Spec => []ReadsWritten
<1>1. IInv => ReadsWritten
  BY DEF IInv, ReadSoFar
<1> QED BY <1>1, Invariant, PTL

(* accu_eval_quad_* uses each monomial of the signature that does not      *)
(* vanish with its own vector of the key the seed stands for.              *)
THEOREM KeyIsEvaluated == Spec => []EvaluatesKey
<1>1. IInv => EvaluatesKey
  <2> SUFFICES ASSUME IInv, pc = "done"
               PROVE  terms =
                 { [mono |-> m,
                    coef |-> [b \in 0 .. VecLen - 1 |->
                                WholeKey((VecLen * VectorOf(m[1], m[2])) + b)]] :
                     m \in { p \in (0 .. N - 1) \X (0 .. N - 1) :
                               p[1] <= p[2] /\ x[p[1]] /\ x[p[2]] } }
    BY DEF EvaluatesKey
  <2>1. Monomials = { p \in (0 .. N - 1) \X (0 .. N - 1) : p[1] <= p[2] /\ x[p[1]] /\ x[p[2]] }
    BY DEF Monomials, Passed
  <2>2. \A p \in (0 .. N - 1) \X (0 .. N - 1) :
          Term(p[1], p[2]) =
            [mono |-> p,
             coef |-> [b \in 0 .. VecLen - 1 |-> WholeKey((VecLen * VectorOf(p[1], p[2])) + b)]]
    <3> TAKE p \in (0 .. N - 1) \X (0 .. N - 1)
    <3>1. p = <<p[1], p[2]>>
      OBVIOUS
    <3> QED BY <3>1 DEF Term
  <2> QED BY <2>1, <2>2 DEF IInv, Accumulated
<1> QED BY <1>1, Invariant, PTL
=============================================================================

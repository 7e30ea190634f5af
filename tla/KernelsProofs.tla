---------------------------- MODULE KernelsProofs ----------------------------
(***************************************************************************)
(* The invariants of MCKernels for every size.                             *)
(*                                                                         *)
(* OnceEach of VectorOps for every length and all widths of the words and  *)
(* registers, whatever their divisors: the vector falls in a part that is  *)
(* done, in front of the pointers and behind what is to do, and a part     *)
(* nothing has been applied to.                                            *)
(*                                                                         *)
(* ProductRight and StaysInside of BlockProduct for every number and       *)
(* length of columns, width of a register and size of a tile: a byte is a  *)
(* byte of the columns already walked, of the tile being walked, or one a  *)
(* block has yet to reach, and the terms in it follow from where it is.    *)
(*                                                                         *)
(* CallsKeepContract and OperandsRight of ProductCalls for the parameter   *)
(* sets of params.h, every back end and every row and column.              *)
(*                                                                         *)
(* TransposeRight of Transpose for every stride: a round that swaps halves *)
(* of blocks transposes the squares of half their side, so the rounds      *)
(* transpose a square of bytes, and the pairs of rows its elements.        *)
(***************************************************************************)
EXTENDS MCKernels, SequenceTheorems, WellFoundedInduction, TLAPS

-----------------------------------------------------------------------------
(* \div and %, which the SMT backend does not reason about by itself, and  *)
(* induction.                                                              *)

(* Division with remainder, as the SMT backend needs it spelled out. *)
LEMMA DivMod ==
  ASSUME NEW d \in Nat \ {0}, NEW num \in Int
  PROVE  /\ num \div d \in Int
         /\ num % d \in 0 .. d - 1
         /\ num = (num \div d) * d + (num % d)
  OBVIOUS

(* Quotient and remainder are determined by their defining equation. *)
LEMMA DivUnique ==
  ASSUME NEW d \in Nat \ {0}, NEW q \in Int, NEW r \in Int, 0 <= r, r < d
  PROVE  /\ (q * d + r) \div d = q
         /\ (q * d + r) % d = r
<1> DEFINE x == q * d + r
           p == x \div d
           s == x % d
<1>1. x \in Int /\ p \in Int /\ s \in Int /\ x = d * p + s /\ 0 <= s /\ s < d
  OBVIOUS
<1>2. d * (p - q) = r - s
  BY <1>1
<1>3. p - q < 1
  <2>1. SUFFICES ASSUME p - q >= 1 PROVE FALSE
    BY <1>1
  <2>2. d * (p - q) >= d
    BY <2>1, <1>1
  <2> QED BY <2>2, <1>2, <1>1
<1>4. p - q > -1
  <2>1. SUFFICES ASSUME p - q <= -1 PROVE FALSE
    BY <1>1
  <2>2. d * (p - q) <= -d
    BY <2>1, <1>1
  <2> QED BY <2>2, <1>2, <1>1
<1>5. p = q
  BY <1>3, <1>4, <1>1
<1> QED BY <1>5, <1>1

(* Adding multiples of the divisor moves the quotient only. *)
LEMMA DivShift ==
  ASSUME NEW d \in Nat \ {0}, NEW x \in Int, NEW m \in Int
  PROVE  /\ (x + m * d) \div d = x \div d + m
         /\ (x + m * d) % d = x % d
<1> DEFINE q == x \div d
           r == x % d
<1>1. q \in Int /\ r \in Int /\ 0 <= r /\ r < d /\ x = q * d + r
  BY DivMod
<1>2. x + m * d = (q + m) * d + r
  BY <1>1
<1>3. q + m \in Int
  BY <1>1
<1> HIDE DEF q, r
<1>4. ((q + m) * d + r) \div d = q + m /\ ((q + m) * d + r) % d = r
  BY <1>1, <1>3, DivUnique
<1> QED BY <1>2, <1>4 DEF q, r

(* The library's induction theorems take an operator as a parameter; for   *)
(* the elements of a set, its least-element theorem is enough.             *)
LEMMA NatLess == IsWellFoundedOn({ss \in Nat \X Nat : ss[1] < ss[2]}, Nat)
  BY NatLessThanWellFounded DEF OpToRel

(* Induction over the natural numbers, for a set. *)
LEMMA SetInduction ==
  ASSUME NEW S, 0 \in S, \A n \in Nat : n \in S => n + 1 \in S
  PROVE  \A n \in Nat : n \in S
<1> DEFINE R == {ss \in Nat \X Nat : ss[1] < ss[2]}
           T == Nat \ S
<1>1. SUFFICES ASSUME T # {} PROVE FALSE
  OBVIOUS
<1>2. IsWellFoundedOn(R, Nat) /\ T \subseteq Nat
  BY NatLess
<1>3. PICK n \in T : \A k \in T : ~ (<<k, n>> \in R)
  <2> HIDE DEF R, T
  <2> QED BY <1>1, <1>2, WFMin
<1>4. n \in Nat /\ n \notin S /\ n # 0
  BY <1>3
<1>5. n - 1 \in S
  <2>1. n - 1 \in Nat /\ n - 1 < n
    BY <1>4
  <2>2. <<n - 1, n>> \in R
    BY <1>4, <2>1
  <2> QED BY <1>3, <2>1, <2>2
<1> QED
  <2>1. n - 1 \in Nat /\ (n - 1) + 1 = n
    BY <1>4
  <2> QED BY <1>4, <1>5, <2>1

(* Induction over 0 .. N. *)
LEMMA InductionUpTo ==
  ASSUME NEW N \in Nat, NEW S, 0 \in S, \A n \in 0 .. N - 1 : n \in S => n + 1 \in S
  PROVE  \A n \in 0 .. N : n \in S
<1> DEFINE T == { n \in Nat : n <= N => n \in S }
<1>1. 0 \in T
  OBVIOUS
<1>2. \A n \in Nat : n \in T => n + 1 \in T
  <2>1. TAKE n \in Nat
  <2>2. SUFFICES ASSUME n \in T, n + 1 <= N PROVE n + 1 \in S
    OBVIOUS
  <2>3. n \in 0 .. N - 1 /\ n \in S
    BY <2>2
  <2> QED BY <2>3
<1>3. \A n \in Nat : n \in T
  <2> HIDE DEF T
  <2> QED BY <1>1, <1>2, SetInduction
<1> QED BY <1>3

-----------------------------------------------------------------------------
(* Vector operations.                                                      *)

Fns == Vectors \cup Tables16 \cup Tables256

Types ==
  /\ fn \in Fns /\ len \in Nat
  /\ ap \in Nat /\ cp \in Nat /\ todo \in Nat /\ cp + todo <= len
  /\ reach[1] \in Nat /\ reach[2] \in Nat
  /\ reach[1] <= Bytes(len) /\ reach[2] <= len

(* The pointers move together; a table of GF(16) takes half a byte of v    *)
(* for an entry, and is only left with half a byte at the end.             *)
InStep ==
  /\ fn \notin Tables16 => ap = cp
  /\ fn \in Tables16 /\ todo > 0 => 2 * ap = cp

Parts ==
  /\ DOMAIN dest = 0 .. len - 1
  /\ \A k \in 0 .. len - 1 :
       dest[k] = IF k < cp \/ k >= cp + todo THEN << k >> ELSE << >>

IInv == Types /\ InStep /\ Parts

-----------------------------------------------------------------------------
LEMMA Widths ==
  /\ U32 \in Nat \ {0} /\ U64 \in Nat \ {0} /\ Xmm \in Nat \ {0} /\ Ymm \in Nat \ {0}
  BY WidthsAssumption

LEMMA AppendEmpty == ASSUME NEW x PROVE Append(<< >>, x) = << x >>
  OBVIOUS

(* Vectors and tables are different functions. *)
LEMMA Apart == Vectors \cap Tables16 = {} /\ Tables16 \cap Tables256 = {}
  BY DEF Vectors, Tables16, Tables256, U64Adds

LEMMA AtLeastOnce ==
  ASSUME NEW w \in Nat \ {0}, NEW t \in Nat, t >= w
  PROVE  t % w \in Nat /\ t % w < w /\ (t % w) + w <= t
<1> DEFINE q == t \div w
           r == t % w
<1>1. q \in Int /\ r \in 0 .. w - 1 /\ t = (q * w) + r
  BY DivMod
<1> HIDE DEF q, r
<1>2. q >= 1
  <2>1. SUFFICES ASSUME q <= 0 PROVE FALSE
    BY <1>1
  <2>2. q * w <= 0
    BY <1>1, <2>1
  <2>3. q * w \in Int
    BY <1>1
  <2> QED BY <1>1, <2>2, <2>3
<1>3. q * w = w + ((q - 1) * w) /\ (q - 1) * w \in Nat
  BY <1>1, <1>2
<1> QED BY <1>1, <1>3 DEF r

-----------------------------------------------------------------------------
(* The operation is applied to the next n bytes, whatever is loaded. *)
LEMMA NextBytes ==
  ASSUME IInv, fn \in Vectors, NEW n \in Nat, n <= todo, Moved(n),
         DOMAIN dest' = DOMAIN dest,
         \A k \in DOMAIN dest :
           dest'[k] = IF k \in cp .. (cp + n) - 1 THEN Append(dest[k], (ap + k) - cp) ELSE dest[k],
         reach'[1] \in Nat, reach'[2] \in Nat, reach'[1] <= len, reach'[2] <= len
  PROVE  IInv'
<1>1. /\ fn' = fn /\ len' = len /\ ap' = ap + n /\ cp' = cp + n /\ todo' = todo - n
      /\ fn \notin Tables16 /\ ap = cp /\ ap \in Nat /\ todo \in Nat /\ len \in Nat
      /\ cp + todo <= len
  BY Apart DEF IInv, Types, InStep, Moved
<1>2. Types'
  BY <1>1 DEF IInv, Types, Bytes
<1>3. InStep'
  BY <1>1 DEF InStep
<1>4. ASSUME NEW k \in 0 .. len - 1
      PROVE  dest'[k] = IF k < cp' \/ k >= cp' + todo' THEN << k >> ELSE << >>
  <2>1. dest[k] = IF k < cp \/ k >= cp + todo THEN << k >> ELSE << >>
    BY DEF IInv, Parts
  <2>2. k \in DOMAIN dest
    BY DEF IInv, Parts
  <2>3. CASE k \in cp .. (cp + n) - 1
    <3>1. dest[k] = << >> /\ (ap + k) - cp = k /\ k < cp'
      BY <1>1, <2>1, <2>3
    <3> QED BY <2>2, <2>3, <3>1, AppendEmpty
  <2>4. CASE k \notin cp .. (cp + n) - 1
    <3>1. dest'[k] = dest[k]
      BY <2>2, <2>4
    <3>2. (k < cp' \/ k >= cp' + todo') <=> (k < cp \/ k >= cp + todo)
      BY <1>1, <2>4
    <3> QED BY <2>1, <3>1, <3>2
  <2> QED BY <2>3, <2>4
<1>5. Parts'
  BY <1>1, <1>4 DEF IInv, Parts
<1> QED BY <1>2, <1>3, <1>5 DEF IInv

(* What a function reaches if it stays at or before the end. *)
LEMMA ReachBounds ==
  ASSUME IInv, fn \in Vectors, NEW x \in Nat, NEW y \in Nat, x <= todo, y <= todo
  PROVE  /\ Furthest(reach[1], ap + x) \in Nat /\ Furthest(reach[1], ap + x) <= len
         /\ Furthest(reach[2], cp + y) \in Nat /\ Furthest(reach[2], cp + y) <= len
<1>1. /\ fn \notin Tables16 /\ ap = cp /\ ap \in Nat /\ todo \in Nat /\ len \in Nat
      /\ cp + todo <= len
      /\ reach[1] \in Nat /\ reach[2] \in Nat /\ reach[1] <= len /\ reach[2] <= len
  BY Apart DEF IInv, Types, InStep, Bytes
<1> QED BY <1>1 DEF Furthest

LEMMA WordKeeps ==
  ASSUME IInv, fn \in Vectors, NEW w \in Nat \ {0}, Word(w)
  PROVE  IInv'
<1>1. todo \in Nat /\ w <= todo /\ w \in Nat
  BY DEF Word, IInv, Types
<1>2. reach' = <<Furthest(reach[1], ap + w), Furthest(reach[2], cp + w)>>
  BY DEF Word, Reached
<1>3. dest' = Applied(w) /\ Moved(w)
  BY DEF Word
<1> QED BY <1>1, <1>2, <1>3, ReachBounds, NextBytes DEF Applied

LEMMA RestKeeps ==
  ASSUME IInv, fn \in Vectors, NEW w \in Nat \ {0}, Rest(w)
  PROVE  IInv'
<1>1. todo \in Nat
  BY DEF IInv, Types
<1>2. reach' = <<Furthest(reach[1], ap + todo), Furthest(reach[2], cp + todo)>>
  BY DEF Rest, Reached
<1>3. dest' = Applied(todo) /\ Moved(todo)
  BY DEF Rest
<1> QED BY <1>1, <1>2, <1>3, ReachBounds, NextBytes DEF Applied

(* What the first register does behind the rest is taken back. *)
LEMMA OverlapKeeps ==
  ASSUME IInv, fn \in Vectors, NEW w \in Nat \ {0}, Overlap(w)
  PROVE  IInv'
<1> DEFINE rem == todo % w
<1>1. todo \in Nat /\ todo >= w
  BY DEF Overlap, IInv, Types
<1>2. rem \in Nat /\ rem < w /\ rem + w <= todo
  BY <1>1, AtLeastOnce
<1>3. /\ dest' = [k \in DOMAIN dest |-> IF k >= cp + rem THEN dest[k] ELSE Applied(w)[k]]
      /\ reach' = <<Furthest(reach[1], ap + w), Furthest(reach[2], cp + rem + w)>>
      /\ Moved(rem)
  BY DEF Overlap
<1> HIDE DEF rem
<1>4. /\ reach'[1] \in Nat /\ reach'[1] <= len
      /\ reach'[2] \in Nat /\ reach'[2] <= len
  <2>1. cp + rem + w = cp + (rem + w) /\ rem + w \in Nat /\ w <= todo
    BY <1>1, <1>2 DEF IInv, Types
  <2> QED BY <1>1, <1>2, <1>3, <2>1, ReachBounds
<1>5. ASSUME NEW k \in DOMAIN dest
      PROVE  dest'[k] = IF k \in cp .. (cp + rem) - 1 THEN Append(dest[k],
               (ap + k) - cp) ELSE dest[k]
  <2>1. k \in Nat /\ cp \in Nat
    BY DEF IInv, Types, Parts
  <2>2. dest'[k] = IF k >= cp + rem THEN dest[k]
                   ELSE IF k \in cp .. (cp + w) - 1 THEN Append(dest[k], (ap + k) - cp) ELSE dest[k]
    BY <1>3 DEF Applied
  <2>3. CASE k >= cp + rem
    BY <1>2, <2>1, <2>2, <2>3
  <2>4. CASE ~(k >= cp + rem)
    <3>1. k \in cp .. (cp + w) - 1 <=> k \in cp .. (cp + rem) - 1
      BY <1>2, <2>1, <2>4
    <3> QED BY <2>2, <2>4, <3>1
  <2> QED BY <2>3, <2>4
<1>6. DOMAIN dest' = DOMAIN dest /\ rem <= todo
  BY <1>1, <1>2, <1>3
<1> QED BY <1>2, <1>3, <1>4, <1>5, <1>6, NextBytes

LEMMA LastByteKeeps ==
  ASSUME IInv, fn \in Vectors, NEW w \in Nat \ {0}, LastByte(w)
  PROVE  IInv'
<1> DEFINE last == (cp + todo) - 1
<1>1. /\ fn' = fn /\ len' = len /\ ap' = ap /\ cp' = cp /\ todo' = todo - 1 /\ todo > 0
      /\ fn \notin Tables16 /\ ap = cp /\ ap \in Nat /\ todo \in Nat /\ len \in Nat
      /\ cp + todo <= len
  BY Apart DEF IInv, Types, InStep, LastByte
<1>2. /\ reach' = <<Furthest(reach[1], ap + todo), Furthest(reach[2], cp + todo)>>
      /\ dest' = [dest EXCEPT ![last] = Append(@, (ap + todo) - 1)]
  BY DEF LastByte, Reached
<1>3. Types'
  <2>1. /\ reach'[1] \in Nat /\ reach'[1] <= len
        /\ reach'[2] \in Nat /\ reach'[2] <= len
    <3>1. /\ Furthest(reach[1], ap + todo) \in Nat /\ Furthest(reach[1], ap + todo) <= len
          /\ Furthest(reach[2], cp + todo) \in Nat /\ Furthest(reach[2], cp + todo) <= len
      <4>1. todo \in Nat /\ todo <= todo
        BY <1>1
      <4> QED BY <4>1, ReachBounds
    <3> QED BY <1>2, <3>1
  <2> QED BY <1>1, <2>1 DEF IInv, Types, Bytes
<1>4. InStep'
  BY <1>1 DEF InStep
<1>5. last \in 0 .. len - 1 /\ last = (ap + todo) - 1
  BY <1>1
<1>6. ASSUME NEW k \in 0 .. len - 1
      PROVE  dest'[k] = IF k < cp' \/ k >= cp' + todo' THEN << k >> ELSE << >>
  <2>1. dest[k] = IF k < cp \/ k >= cp + todo THEN << k >> ELSE << >>
    BY DEF IInv, Parts
  <2>2. k \in DOMAIN dest
    BY DEF IInv, Parts
  <2>3. CASE k = last
    <3>1. dest[k] = << >> /\ k >= cp' + todo'
      BY <1>1, <2>1, <2>3
    <3>2. dest'[k] = Append(dest[k], k)
      BY <1>2, <1>5, <2>2, <2>3
    <3> QED BY <3>1, <3>2, AppendEmpty
  <2>4. CASE k # last
    <3>1. dest'[k] = dest[k]
      BY <1>2, <2>2, <2>4
    <3>2. (k < cp' \/ k >= cp' + todo') <=> (k < cp \/ k >= cp + todo)
      BY <1>1, <2>4
    <3> QED BY <2>1, <3>1, <3>2
  <2> QED BY <2>3, <2>4
<1>7. Parts'
  BY <1>1, <1>2, <1>6 DEF IInv, Parts
<1> QED BY <1>3, <1>4, <1>7 DEF IInv
-----------------------------------------------------------------------------
(* The orders they come in. *)
LEMMA WordsThenBytesKeeps ==
  ASSUME IInv, fn \in Vectors, NEW w \in Nat \ {0}, WordsThenBytes(w)
  PROVE  IInv'
  BY WordKeeps, LastByteKeeps DEF WordsThenBytes

LEMMA WordsThenRestKeeps ==
  ASSUME IInv, fn \in Vectors, NEW w \in Nat \ {0}, WordsThenRest(w)
  PROVE  IInv'
  BY WordKeeps, RestKeeps DEF WordsThenRest

LEMMA OverlapThenWordsKeeps ==
  ASSUME IInv, fn \in Vectors, NEW w \in Nat \ {0}, OverlapThenWords(w)
  PROVE  IInv'
  BY WordKeeps, OverlapKeeps DEF OverlapThenWords, WholeWord

LEMMA RestThenWordsKeeps ==
  ASSUME IInv, fn \in Vectors, NEW w \in Nat \ {0}, RestThenWords(w)
  PROVE  IInv'
  BY RestKeeps, OverlapThenWordsKeeps DEF RestThenWords

LEMMA RestThenThreesKeeps ==
  ASSUME IInv, fn \in Vectors, NEW w \in Nat \ {0}, RestThenThrees(w)
  PROVE  IInv'
<1>1. 3 * w \in Nat \ {0}
  OBVIOUS
<1>2. CASE Rest(w)
  BY <1>2, RestKeeps
<1>3. CASE Overlap(w)
  BY <1>3, OverlapKeeps
<1>4. CASE Word(3 * w)
  BY <1>1, <1>4, WordKeeps
<1>5. CASE Word(w)
  BY <1>5, WordKeeps
<1> QED BY <1>2, <1>3, <1>4, <1>5 DEF RestThenThrees

LEMMA WordsKeep == ASSUME IInv, Words PROVE IInv'
<1> USE Widths
<1>1. CASE gf256v_add_u32
  BY <1>1, WordsThenBytesKeeps DEF gf256v_add_u32, Vectors
<1>2. CASE gf256v_conditional_add_u32
  BY <1>2, WordsThenBytesKeeps DEF gf256v_conditional_add_u32, Vectors
<1>3. CASE gf16v_mul_scalar_u32
  BY <1>3, WordsThenRestKeeps DEF gf16v_mul_scalar_u32, Vectors
<1>4. CASE gf256v_mul_scalar_u32
  BY <1>4, WordsThenRestKeeps DEF gf256v_mul_scalar_u32, Vectors
<1>5. CASE gf16v_madd_u32
  BY <1>5, WordsThenRestKeeps DEF gf16v_madd_u32, Vectors
<1>6. CASE gf256v_madd_u32
  BY <1>6, WordsThenRestKeeps DEF gf256v_madd_u32, Vectors
<1>7. CASE gf256v_add_u64
  BY <1>7, WordKeeps, LastByteKeeps, WordsThenBytesKeeps DEF gf256v_add_u64, AddU64, Vectors,
     U64Adds
<1>8. CASE gf256v_conditional_add_u64
  BY <1>8, WordKeeps, LastByteKeeps, WordsThenBytesKeeps DEF gf256v_conditional_add_u64, AddU64,
     Vectors, U64Adds
<1>9. CASE gf16v_mul_scalar_u64
  BY <1>9, WordsThenRestKeeps DEF gf16v_mul_scalar_u64, Vectors
<1>10. CASE gf256v_mul_scalar_u64
  BY <1>10, WordsThenRestKeeps DEF gf256v_mul_scalar_u64, Vectors
<1>11. CASE gf16v_madd_u64
  BY <1>11, WordsThenRestKeeps DEF gf16v_madd_u64, Vectors
<1>12. CASE gf256v_madd_u64
  BY <1>12, WordsThenRestKeeps DEF gf256v_madd_u64, Vectors
<1> QED BY <1>1, <1>2, <1>3, <1>4, <1>5, <1>6, <1>7, <1>8, <1>9, <1>10, <1>11, <1>12 DEF Words

LEMMA X86Keeps == ASSUME IInv, X86 PROVE IInv'
<1> USE Widths
<1>1. CASE linearmap_8x8_sse
  BY <1>1, WordsThenRestKeeps DEF linearmap_8x8_sse, Vectors
<1>2. CASE linearmap_8x8_accu_sse
  BY <1>2, WordsThenRestKeeps DEF linearmap_8x8_accu_sse, Vectors
<1>3. CASE gf256v_add_sse
  BY <1>3, WordsThenRestKeeps DEF gf256v_add_sse, Vectors
<1>4. CASE linearmap_8x8_ymm
  BY <1>4, WordsThenRestKeeps, OverlapThenWordsKeeps DEF linearmap_8x8_ymm, Vectors
<1>5. CASE linearmap_8x8_accu_ymm
  BY <1>5, WordsThenRestKeeps, OverlapThenWordsKeeps DEF linearmap_8x8_accu_ymm, Vectors
<1>6. CASE gf256v_add_avx2
  BY <1>6, WordsThenRestKeeps, OverlapThenWordsKeeps DEF gf256v_add_avx2, Vectors
<1>7. CASE gf16v_madd_multab_gfni
  BY <1>7, RestThenWordsKeeps DEF gf16v_madd_multab_gfni, Vectors
<1>8. CASE gf16v_madd_gfni
  BY <1>8, RestThenWordsKeeps DEF gf16v_madd_gfni, Vectors
<1>9. CASE gf16v_mul_scalar_gfni
  BY <1>9, RestThenWordsKeeps DEF gf16v_mul_scalar_gfni, Vectors
<1>10. CASE gf256v_mul_scalar_avx2_gfni
  BY <1>10, RestThenWordsKeeps DEF gf256v_mul_scalar_avx2_gfni, Vectors
<1>11. CASE gf256v_madd_avx2_gfni
  BY <1>11, RestThenWordsKeeps DEF gf256v_madd_avx2_gfni, Vectors
<1> QED BY <1>1, <1>2, <1>3, <1>4, <1>5, <1>6, <1>7, <1>8, <1>9, <1>10, <1>11 DEF X86

LEMMA NeonKeeps == ASSUME IInv, Neon PROVE IInv'
<1> USE Widths
<1>1. CASE gf256v_add_neon
  BY <1>1, RestThenThreesKeeps DEF gf256v_add_neon, Vectors
<1>2. CASE gf256v_conditional_add_neon
  BY <1>2, WordsThenRestKeeps DEF gf256v_conditional_add_neon, Vectors
<1>3. CASE gf256v_set_zero_neon
  BY <1>3, WordsThenRestKeeps DEF gf256v_set_zero_neon, Vectors
<1>4. CASE gf16v_mul_scalar_neon
  BY <1>4, RestThenWordsKeeps DEF gf16v_mul_scalar_neon, Vectors
<1>5. CASE gf16v_madd_neon
  BY <1>5, RestThenWordsKeeps DEF gf16v_madd_neon, Vectors
<1>6. CASE gf16v_madd_multab_neon
  BY <1>6, RestThenWordsKeeps DEF gf16v_madd_multab_neon, Vectors
<1>7. CASE gf256v_mul_scalar_neon
  BY <1>7, RestThenThreesKeeps DEF gf256v_mul_scalar_neon, Vectors
<1>8. CASE gf256v_madd_neon
  BY <1>8, RestThenThreesKeeps DEF gf256v_madd_neon, Vectors
<1> QED BY <1>1, <1>2, <1>3, <1>4, <1>5, <1>6, <1>7, <1>8 DEF Neon

-----------------------------------------------------------------------------
(* n more entries of a table, each for the element of its index. *)
LEMMA NextEntries ==
  ASSUME IInv, fn \notin Vectors, NEW n \in Nat, n > 0, NEW d, Tabulated(d, n),
         fn \in Tables16 => (n % 2 = 0 \/ n = todo),
         DOMAIN d = DOMAIN dest,
         \A k \in DOMAIN dest : d[k] = IF k \in cp .. (cp + n) - 1 THEN << k >> ELSE dest[k]
  PROVE  IInv'
<1>1. /\ fn' = fn /\ len' = len /\ ap' = ap + Bytes(n) /\ cp' = cp + n /\ todo' = todo - n
      /\ n <= todo /\ dest' = d
      /\ reach' = <<Furthest(reach[1], ap + Bytes(n)), Furthest(reach[2], cp + n)>>
  BY DEF Tabulated
<1>2. /\ ap \in Nat /\ cp \in Nat /\ todo \in Nat /\ len \in Nat /\ cp + todo <= len
      /\ (fn \notin Tables16 => ap = cp) /\ (fn \in Tables16 => 2 * ap = cp)
      /\ reach[1] \in Nat /\ reach[2] \in Nat /\ reach[1] <= Bytes(len) /\ reach[2] <= len
  BY <1>1 DEF IInv, Types, InStep
<1>3. Bytes(n) \in Nat /\ ap + Bytes(n) <= Bytes(len)
  BY <1>1, <1>2 DEF Bytes
<1>4. /\ Furthest(reach[1], ap + Bytes(n)) \in Nat
      /\ Furthest(reach[1], ap + Bytes(n)) <= Bytes(len)
      /\ Furthest(reach[2], cp + n) \in Nat /\ Furthest(reach[2], cp + n) <= len
  BY <1>1, <1>2, <1>3 DEF Furthest
<1>5. Types'
  <2>1. Bytes(len)' = Bytes(len)
    BY <1>1 DEF Bytes
  <2> QED BY <1>1, <1>2, <1>3, <1>4, <2>1 DEF IInv, Types
<1>6. InStep'
  BY <1>1, <1>2 DEF InStep, Bytes
<1>7. ASSUME NEW k \in 0 .. len - 1
      PROVE  dest'[k] = IF k < cp' \/ k >= cp' + todo' THEN << k >> ELSE << >>
  <2>1. /\ dest[k] = IF k < cp \/ k >= cp + todo THEN << k >> ELSE << >>
        /\ k \in DOMAIN dest
    BY DEF IInv, Parts
  <2>2. CASE k \in cp .. (cp + n) - 1
    BY <1>1, <1>2, <2>1, <2>2
  <2>3. CASE k \notin cp .. (cp + n) - 1
    <3>1. (k < cp' \/ k >= cp' + todo') <=> (k < cp \/ k >= cp + todo)
      BY <1>1, <1>2, <2>3
    <3> QED BY <1>1, <2>1, <2>3, <3>1
  <2> QED BY <2>2, <2>3
<1>8. Parts'
  BY <1>1, <1>7 DEF IInv, Parts
<1> QED BY <1>5, <1>6, <1>8 DEF IInv

(* One generated run of entries. *)
LEMMA OneRun ==
  ASSUME NEW from \in Nat, NEW n \in Nat, from = cp, IInv
  PROVE  LET d == Entries(dest, cp, from, n)
         IN  /\ DOMAIN d = DOMAIN dest
             /\ \A k \in DOMAIN dest : d[k] = IF k \in cp .. (cp + n) - 1 THEN << k >> ELSE dest[k]
  BY DEF Entries, IInv, Types, Parts

LEMMA TablesApart ==
  /\ Tables16 \cap Vectors = {} /\ Tables256 \cap Vectors = {}
  BY DEF Vectors, Tables16, Tables256, U64Adds

LEMMA Split16Keeps ==
  ASSUME IInv, fn \in Tables16, NEW n,
         n = IF todo >= 2 * Xmm THEN 2 * Xmm ELSE todo, n > 0, NEW d, Tabulated(d, n),
         d = IF n <= Xmm THEN Entries(dest, cp, 2 * ap, n)
             ELSE Entries(Entries(dest, cp, 2 * ap, Xmm), cp + Xmm, (2 * ap) + Xmm, n - Xmm)
  PROVE  IInv'
<1>1. n \in Nat /\ Xmm \in Nat /\ n <= todo /\ (n % 2 = 0 \/ n = todo)
  BY Widths DEF IInv, Types
<1>2. 2 * ap \in Nat /\ 2 * ap = cp
  BY <1>1 DEF IInv, Types, InStep
<1>3. /\ DOMAIN d = DOMAIN dest
      /\ \A k \in DOMAIN dest : d[k] = IF k \in cp .. (cp + n) - 1 THEN << k >> ELSE dest[k]
  <2>1. CASE n <= Xmm
    BY <1>1, <1>2, <2>1, OneRun
  <2>2. CASE ~(n <= Xmm)
    <3>1. Xmm <= n
      BY <1>1, <2>2
    <3> DEFINE head == Entries(dest, cp, cp, Xmm)
    <3>2. d = Entries(head, cp + Xmm, cp + Xmm, n - Xmm)
      BY <1>2, <2>2
    <3>3. /\ DOMAIN head = DOMAIN dest /\ cp \in Nat /\ DOMAIN dest = 0 .. len - 1
          /\ \A k \in DOMAIN dest :
               head[k] = IF k \in cp .. (cp + Xmm) - 1 THEN << k >> ELSE dest[k]
      BY <1>1, <1>2, OneRun DEF IInv, Types, Parts
    <3> HIDE DEF head
    <3>4. DOMAIN d = DOMAIN dest
      BY <3>2, <3>3 DEF Entries
    <3>5. ASSUME NEW k \in DOMAIN dest
          PROVE  d[k] = IF k \in cp .. (cp + n) - 1 THEN << k >> ELSE dest[k]
      <4>1. len \in Nat /\ k \in Nat /\ k \in DOMAIN head
        BY <3>3 DEF IInv, Types
      <4>2. d[k] = IF k \in cp + Xmm .. ((cp + Xmm) + (n - Xmm)) - 1
                   THEN << (cp + Xmm) + (k - (cp + Xmm)) >> ELSE head[k]
        BY <3>2, <4>1 DEF Entries
      <4>3. head[k] = IF k \in cp .. (cp + Xmm) - 1 THEN << k >> ELSE dest[k]
        BY <3>3
      <4>4. /\ (cp + Xmm) + (k - (cp + Xmm)) = k
            /\ (cp + Xmm) + (n - Xmm) = cp + n
        BY <1>1, <3>3, <4>1
      <4>5. /\ k \in cp + Xmm .. (cp + n) - 1 => k \in cp .. (cp + n) - 1
            /\ k \in cp .. (cp + Xmm) - 1 => k \in cp .. (cp + n) - 1
            /\ k \in cp .. (cp + n) - 1 => \/ k \in cp + Xmm .. (cp + n) - 1
                                         \/ k \in cp .. (cp + Xmm) - 1
        <5>1. /\ k \in Int /\ cp \in Int /\ n \in Int /\ Xmm \in Int
              /\ 0 <= Xmm /\ Xmm <= n
          BY <1>1, <3>1, <3>3, <4>1
        <5> QED BY ONLY <5>1, SMTT(30)
      <4>6. d[k] = IF k \in cp + Xmm .. (cp + n) - 1 THEN << k >> ELSE head[k]
        BY ONLY <4>2, <4>4, Zenon
      <4> QED BY ONLY <4>3, <4>5, <4>6, Zenon
    <3> QED BY <3>4, <3>5
  <2> QED BY <2>1, <2>2
<1> QED BY <1>1, <1>3, NextEntries, TablesApart

LEMMA MultabsKeep == ASSUME IInv, Multabs PROVE IInv'
<1> USE Widths
<1>t. todo \in Nat /\ ap \in Nat /\ cp \in Nat
  BY DEF IInv, Types
<1>1. CASE gf16v_generate_multabs_sse
  <2>1. fn \in Tables16
    BY <1>1 DEF gf16v_generate_multabs_sse, Tables16
  <2> QED BY <1>1, <2>1, Split16Keeps
          DEF gf16v_generate_multabs_sse, Split, gf16v_generate_multab_16_sse
<1>2. CASE gf16v_generate_multabs_avx2
  <2>1. fn \in Tables16
    BY <1>2 DEF gf16v_generate_multabs_avx2, Tables16
  <2> QED BY <1>2, <2>1, Split16Keeps
          DEF gf16v_generate_multabs_avx2, Split, gf16v_generate_multab_16_avx2
<1>3. ASSUME NEW n \in Nat, n > 0, n <= todo, fn \in Tables256,
             Tabulated(Entries(dest, cp, ap, n), n)
      PROVE  IInv'
  <2>1. ap = cp /\ fn \notin Tables16
    BY <1>3, Apart DEF IInv, InStep
  <2> QED BY <1>t, <1>3, <2>1, OneRun, NextEntries, TablesApart
<1>4. ASSUME NEW n, n = IF todo >= 2 THEN 2 ELSE todo, n > 0, fn \in Tables16,
             Tabulated(Entries(dest, cp, 2 * ap, n), n)
      PROVE  IInv'
  <2>1. 2 * ap = cp /\ 2 * ap \in Nat
    BY <1>t, <1>4 DEF IInv, InStep
  <2>2. n \in Nat /\ (n % 2 = 0 \/ n = todo)
    BY <1>t, <1>4
  <2> QED BY <1>t, <1>4, <2>1, <2>2, OneRun, NextEntries, TablesApart
<1>5. CASE gf256v_generate_multabs_sse
  <2>1. fn \in Tables256
    BY <1>5 DEF gf256v_generate_multabs_sse, Tables256
  <2> QED BY <1>t, <1>3, <1>5, <2>1
          DEF gf256v_generate_multabs_sse, gf256v_generate_multab_16_sse
<1>6. CASE gf256v_generate_multabs_avx2
  <2>1. fn \in Tables256
    BY <1>6 DEF gf256v_generate_multabs_avx2, Tables256
  <2> QED BY <1>t, <1>3, <1>6, <2>1
          DEF gf256v_generate_multabs_avx2, gf256v_generate_multab_16_avx2
<1>7. CASE gf16v_generate_multabs_neon
  <2>1. fn \in Tables16
    BY <1>7 DEF gf16v_generate_multabs_neon, Tables16
  <2> QED BY <1>4, <1>7, <2>1 DEF gf16v_generate_multabs_neon
<1>8. CASE gf16v_generate_multabs_gfni
  <2>1. fn \in Tables16
    BY <1>8 DEF gf16v_generate_multabs_gfni, Tables16
  <2> QED BY <1>4, <1>8, <2>1 DEF gf16v_generate_multabs_gfni
<1>9. CASE gf256v_generate_multabs_neon
  <2>1. fn \in Tables256
    BY <1>9 DEF gf256v_generate_multabs_neon, Tables256
  <2> QED BY <1>t, <1>3, <1>9, <2>1 DEF gf256v_generate_multabs_neon
<1> QED BY <1>1, <1>2, <1>5, <1>6, <1>7, <1>8, <1>9 DEF Multabs

-----------------------------------------------------------------------------
LEMMA InitKeeps == ASSUME Init PROVE IInv
<1>1. len \in Nat
  BY WidthsAssumption DEF Init
<1>2. Bytes(len) \in Nat
  BY <1>1 DEF Bytes
<1>3. Types
  BY <1>1, <1>2 DEF Init, Types, Fns
<1>4. InStep /\ Parts
  BY <1>1 DEF Init, InStep, Parts
<1> QED BY <1>3, <1>4 DEF IInv

LEMMA StepKeeps == ASSUME IInv, [Next]_vars PROVE IInv'
<1>1. CASE Next
  BY <1>1, WordsKeep, X86Keeps, NeonKeeps, MultabsKeep DEF Next
<1>2. CASE UNCHANGED vars
  BY <1>2 DEF vars, IInv, Types, InStep, Parts, Bytes
<1> QED BY <1>1, <1>2

LEMMA IInvOnceEach == ASSUME IInv PROVE OnceEach
<1>1. ASSUME todo = 0, NEW k \in 0 .. len - 1
      PROVE  dest[k] = << k >>
  BY <1>1 DEF IInv, Types, Parts
<1> QED BY <1>1 DEF OnceEach, IInv, Types

(* For every length and all widths of words and registers, every vector     *)
(* function applies its operation once to each byte, with the operand of    *)
(* the same index, and stays inside the vectors.                            *)
THEOREM OnceEachAlways == Spec => []OnceEach
<1>1. Init => IInv
  BY InitKeeps
<1>2. IInv /\ [Next]_vars => IInv'
  BY StepKeeps
<1>3. IInv => OnceEach
  BY IInvOnceEach
<1> QED BY <1>1, <1>2, <1>3, PTL DEF Spec

-----------------------------------------------------------------------------
(* Matrix-vector products.                                                 *)

LEMMA Register ==
  /\ W \in Nat \ {0} /\ Tile \in Nat \ {0} /\ VCols \in Nat \ {0}
  /\ MaxBytes \in Nat /\ MaxCols \in Nat
  /\ W \div 2 \in Nat \ {0} /\ W = 2 * (W \div 2)
<1>1. W \in Nat \ {0} /\ W % 2 = 0 /\ Tile \in Nat \ {0} /\ VCols \in Nat \ {0}
      /\ MaxBytes \in Nat /\ MaxCols \in Nat
  BY SizesAssumption
<1>2. W = 2 * (W \div 2) /\ W \div 2 \in Int
  BY <1>1
<1> QED BY <1>1, <1>2

(* A set of numbers with a bound has a largest. *)
LEMMA Largest ==
  ASSUME NEW b \in Nat, NEW X \in SUBSET (0 .. b), X # {}
  PROVE  \E x \in X : \A z \in X : z <= x
<1> DEFINE Z == { n \in Nat : \A Y \in SUBSET (0 .. n) : Y # {}
             => \E x \in Y : \A z \in Y : z <= x }
<1>1. 0 \in Z
  <2> SUFFICES ASSUME NEW Y \in SUBSET (0 .. 0), Y # {}
               PROVE  \E x \in Y : \A z \in Y : z <= x
    OBVIOUS
  <2>1. \A z \in Y : z = 0
    OBVIOUS
  <2>2. 0 \in Y
    BY <2>1
  <2> QED BY <2>1, <2>2
<1>2. ASSUME NEW n \in Nat, n \in Z PROVE n + 1 \in Z
  <2> SUFFICES ASSUME NEW Y \in SUBSET (0 .. n + 1), Y # {}
               PROVE  \E x \in Y : \A z \in Y : z <= x
    OBVIOUS
  <2>1. CASE n + 1 \in Y
    BY <2>1
  <2>2. CASE n + 1 \notin Y
    <3>1. Y \in SUBSET (0 .. n)
      BY <2>2
    <3> QED BY <1>2, <3>1
  <2> QED BY <2>1, <2>2
<1>3. \A n \in Nat : n \in Z
  <2> HIDE DEF Z
  <2> QED BY <1>1, <1>2, SetInduction
<1>4. b \in Z
  BY <1>3
<1> QED BY <1>4

-----------------------------------------------------------------------------
(* Registers that load and store between lo and hi, over n columns.        *)
RegOK(g, lo, hi, n) ==
  /\ g.at \in Nat /\ g.len \in Nat /\ g.last \in Nat /\ g.put \in Nat
  /\ lo <= g.at /\ g.put <= g.last /\ g.last <= g.len
  /\ g.at + g.put <= hi /\ g.at + g.last <= vec_byte
  /\ n > 1 => g.at + g.len <= 2 * vec_byte

Registers == [at : Nat, len : Nat, last : Nat, put : Nat]
Stores(g, k) == g.at <= k /\ k < g.at + g.put

Good(regs, lo, hi, K, n) ==
  /\ regs \in Seq(Registers)
  /\ \A r \in 1 .. Len(regs) : RegOK(regs[r], lo, hi, n)
  /\ \A k \in K : \E r \in 1 .. Len(regs) : Stores(regs[r], k)

LEMMA GoodLen ==
  ASSUME NEW regs, NEW lo, NEW hi, NEW K, NEW n, Good(regs, lo, hi, K, n)
  PROVE  DOMAIN regs = 1 .. Len(regs) /\ Len(regs) \in Nat
  BY DEF Good

(* The terms n columns add to byte k. *)
ColumnTerms(from, n, k) == { <<from + i, ((from + i) * vec_byte) + k>> : i \in 0 .. n - 1 }

EntriesRight(n) == \A i \in 0 .. n - 1 : Products!Entry(i) = tcol + i

LEMMA TermsAre ==
  ASSUME vec_byte \in Nat, tcol \in Nat, NEW n \in Nat, EntriesRight(n), NEW g, NEW lo, NEW hi,
         RegOK(g, lo, hi, n), NEW k \in Nat, Stores(g, k)
  PROVE  Products!Terms(g, k - g.at, n) = ColumnTerms(tcol, n, k)
<1>1. ASSUME NEW i \in 0 .. n - 1
      PROVE  /\ k - g.at < Products!Loaded(g, i, n)
             /\ Products!Entry(i) = tcol + i
             /\ Products!Addr(i, g.at + (k - g.at)) = ((tcol + i) * vec_byte) + k
  <2>1. k - g.at < g.last /\ g.last <= g.len /\ g.at + (k - g.at) = k
    BY DEF RegOK, Stores
  <2>2. k - g.at < Products!Loaded(g, i, n)
    <3>1. CASE i = n - 1
      BY <2>1, <3>1 DEF Products!Loaded
    <3>2. CASE i # n - 1
      BY <2>1, <3>2 DEF Products!Loaded, RegOK
    <3> QED BY <3>1, <3>2
  <2> QED BY <2>1, <2>2 DEF EntriesRight, Products!Addr
<1> QED BY <1>1 DEF Products!Terms, ColumnTerms

(* What a turn over the bytes from lo to hi leaves. *)
Passed(lo, hi, n, fresh) ==
  /\ reads' \in 0 .. n_vec * vec_byte /\ wrote' \in 0 .. vec_byte
  /\ c' = [k \in 0 .. vec_byte - 1 |-> c'[k]]
  /\ \A k \in 0 .. vec_byte - 1 :
       c'[k] = IF k < lo \/ hi <= k THEN c[k]
               ELSE IF fresh THEN ColumnTerms(tcol, n, k)
               ELSE Products!Add(c[k], ColumnTerms(tcol, n, k))

(* What a pass over registers that are all right adds. *)
LEMMA PassIs ==
  ASSUME vec_byte \in Nat, tcol \in Nat, NEW n \in Nat, EntriesRight(n),
         n_vec \in Nat, tcol + n <= n_vec, reads \in 0 .. n_vec * vec_byte, wrote \in 0 .. vec_byte,
         DOMAIN c = 0 .. vec_byte - 1,
         NEW regs, NEW lo \in Nat, NEW hi \in Nat, hi <= vec_byte,
         Good(regs, lo, hi, lo .. hi - 1, n),
         NEW fresh \in BOOLEAN, Products!Pass(regs, n, fresh)
  PROVE  Passed(lo, hi, n, fresh)
<1> DEFINE Over(k) == { r \in DOMAIN regs : k \in regs[r].at .. (regs[r].at + regs[r].put) - 1 }
           Last(k) == CHOOSE r \in Over(k) : \A s \in Over(k) : s <= r
           New(k) == Products!Terms(regs[Last(k)], k - regs[Last(k)].at, n)
           Ends == { Products!Addr(i,
             regs[r].at + Products!Loaded(regs[r], i, n)) : r \in DOMAIN regs, i \in 0 .. n - 1 }
           Puts == { regs[r].at + regs[r].put : r \in DOMAIN regs }
<1>1. /\ c' = [k \in DOMAIN c |-> IF Over(k) = {} THEN c[k]
                                  ELSE IF fresh THEN New(k) ELSE Products!Add(c[k], New(k))]
      /\ reads' = CHOOSE e \in Ends \cup {reads} : \A f \in Ends \cup {reads} : f <= e
      /\ wrote' = CHOOSE e \in Puts \cup {wrote} : \A f \in Puts \cup {wrote} : f <= e
  BY DEF Products!Pass
<1>2. \A r \in DOMAIN regs : RegOK(regs[r], lo, hi, n)
  BY GoodLen DEF Good
<1>3. wrote' \in 0 .. vec_byte
  <2>1. Puts \cup {wrote} \in SUBSET (0 .. vec_byte)
    BY <1>2 DEF RegOK
  <2> HIDE DEF Puts
  <2>2. \E e \in Puts \cup {wrote} : \A f \in Puts \cup {wrote} : f <= e
    <3>1. Puts \cup {wrote} # {}
      OBVIOUS
    <3> QED BY <2>1, <3>1, Largest
  <2>3. wrote' \in Puts \cup {wrote}
    BY <1>1, <2>2
  <2> QED BY <2>1, <2>3
<1>4. reads' \in 0 .. n_vec * vec_byte
  <2>1. ASSUME NEW r \in DOMAIN regs, NEW i \in 0 .. n - 1
        PROVE  Products!Addr(i,
                 regs[r].at + Products!Loaded(regs[r], i, n)) \in 0 .. n_vec * vec_byte
    <3> DEFINE g == regs[r]
               a == g.at + Products!Loaded(g, i, n)
               last == tcol + i
    <3>1. RegOK(g, lo, hi, n)
      BY <1>2
    <3> HIDE DEF g
    <3>2. a \in Nat /\ last \in Nat
      BY <3>1 DEF RegOK, Products!Loaded
    <3>3. Products!Addr(i, a) = (last * vec_byte) + a
      BY DEF Products!Addr
    <3>4. CASE i = n - 1
      <4>1. a <= vec_byte
        BY <3>1, <3>4 DEF RegOK, Products!Loaded
      <4>2. last + 1 <= n_vec /\ last + 1 \in Nat
        BY <3>2, <3>4
      <4> HIDE DEF a, last
      <4>3. (last + 1) * vec_byte <= n_vec * vec_byte
              /\ (last + 1) * vec_byte = (last * vec_byte) + vec_byte
        BY <3>2, <4>2
      <4>4. last * vec_byte \in Nat /\ n_vec * vec_byte \in Nat
        BY <3>2
      <4>5. Products!Addr(i, a) \in 0 .. n_vec * vec_byte
        BY <3>2, <3>3, <4>1, <4>3, <4>4
      <4> QED BY <4>5 DEF a, g
    <3>5. CASE i # n - 1
      <4>1. a <= 2 * vec_byte
        BY <3>1, <3>5 DEF RegOK, Products!Loaded
      <4>2. last + 2 <= n_vec /\ last + 2 \in Nat
        BY <3>2, <3>5
      <4> HIDE DEF a, last
      <4>3. (last + 2) * vec_byte <= n_vec * vec_byte
              /\ (last + 2) * vec_byte = (last * vec_byte) + (2 * vec_byte)
        BY <3>2, <4>2
      <4>4. last * vec_byte \in Nat /\ n_vec * vec_byte \in Nat
        BY <3>2
      <4>5. Products!Addr(i, a) \in 0 .. n_vec * vec_byte
        BY <3>2, <3>3, <4>1, <4>3, <4>4
      <4> QED BY <4>5 DEF a, g
    <3> QED BY <3>4, <3>5
  <2>2. Ends \cup {reads} \in SUBSET (0 .. n_vec * vec_byte)
    BY <2>1
  <2>3. n_vec * vec_byte \in Nat
    OBVIOUS
  <2> HIDE DEF Ends
  <2>4. \E e \in Ends \cup {reads} : \A f \in Ends \cup {reads} : f <= e
    <3>1. Ends \cup {reads} # {}
      OBVIOUS
    <3> QED BY <2>2, <2>3, <3>1, Largest
  <2>5. reads' \in Ends \cup {reads}
    BY <1>1, <2>4
  <2> QED BY <2>2, <2>5
<1>5. ASSUME NEW k \in 0 .. vec_byte - 1
      PROVE  c'[k] = IF k < lo \/ hi <= k THEN c[k]
                     ELSE IF fresh THEN ColumnTerms(tcol, n, k)
                     ELSE Products!Add(c[k], ColumnTerms(tcol, n, k))
  <2>0. /\ k \in Nat /\ \A r \in Over(k) : r \in DOMAIN regs /\ Stores(regs[r], k)
        /\ \A r \in DOMAIN regs : Stores(regs[r], k) => r \in Over(k)
        /\ Over(k) \subseteq DOMAIN regs
    BY <1>2 DEF Stores, RegOK
  <2>1. c'[k] = IF Over(k) = {} THEN c[k] ELSE IF fresh THEN New(k) ELSE Products!Add(c[k], New(k))
    BY <1>1
  <2>2. CASE k < lo \/ hi <= k
    <3>1. Over(k) = {}
      BY <1>2, <2>0, <2>2 DEF Stores, RegOK
    <3> QED BY <2>1, <2>2, <3>1
  <2>3. CASE ~(k < lo \/ hi <= k)
    <3>1. k \in lo .. hi - 1
      BY <2>3
    <3>2. Over(k) # {}
      <4>1. PICK r \in 1 .. Len(regs) : Stores(regs[r], k)
        BY <3>1 DEF Good
      <4> QED BY <2>0, <4>1, GoodLen
    <3>3. Over(k) \in SUBSET (0 .. Len(regs)) /\ Len(regs) \in Nat
      BY <2>0, GoodLen
    <3> HIDE DEF Over
    <3>4. \E r \in Over(k) : \A s \in Over(k) : s <= r
      BY <3>2, <3>3, Largest
    <3>5. Last(k) \in Over(k)
      BY <3>4
    <3> HIDE DEF Last
    <3>6. RegOK(regs[Last(k)], lo, hi, n) /\ Stores(regs[Last(k)], k)
      BY <1>2, <2>0, <3>5
    <3>7. New(k) = ColumnTerms(tcol, n, k)
      BY <2>0, <3>6, TermsAre
    <3> HIDE DEF New
    <3> QED BY <2>1, <2>3, <3>2, <3>7
  <2> QED BY <2>2, <2>3
<1>6. c' = [k \in 0 .. vec_byte - 1 |-> c'[k]]
  <2> HIDE DEF Over, New
  <2> QED BY <1>1
<1> QED BY <1>3, <1>4, <1>5, <1>6 DEF Passed


LEMMA Rests ==
  ASSUME NEW s \in Nat
  PROVE  /\ Products!Rem(s) \in 0 .. W - 1 /\ s \div W \in Nat /\ Products!Whole(s) = (s \div W) * W
         /\ Products!Whole(s) \in Nat /\ Products!Whole(s) + Products!Rem(s) = s
<1>1. W \in Nat \ {0}
  BY Register
<1> DEFINE q == s \div W
           r == s % W
<1>2. q \in Int /\ r \in 0 .. W - 1 /\ s = (q * W) + r
  BY <1>1, DivMod
<1> HIDE DEF q, r
<1>3. q \in Nat
  <2> SUFFICES ASSUME q < 0 PROVE FALSE
    BY <1>2
  <2>1. q * W <= (-1) * W
    BY <1>1, <1>2
  <2> QED BY <1>1, <1>2, <2>1
<1>4. q * W \in Nat
  BY <1>1, <1>3
<1>5. Products!Rem(s) = r /\ Products!Whole(s) = s - r /\ s \div W = q
  BY DEF Products!Rem, Products!Whole, r, q
<1> QED BY <1>2, <1>3, <1>4, <1>5

LEMMA GoodJoin ==
  ASSUME NEW A, NEW B, NEW lo, NEW hi, NEW K1, NEW K2, NEW n,
         Good(A, lo, hi, K1, n), Good(B, lo, hi, K2, n)
  PROVE  Good(A \o B, lo, hi, K1 \cup K2, n)
<1>1. A \in Seq(Registers) /\ B \in Seq(Registers)
  BY DEF Good
<1>2. Len(A) \in Nat /\ Len(B) \in Nat
  BY GoodLen
<1>3. /\ A \o B \in Seq(Registers)
      /\ Len(A \o B) = Len(A) + Len(B)
      /\ \A r \in 1 .. Len(A) + Len(B) : (A \o B)[r] = IF r <= Len(A) THEN A[r] ELSE B[r - Len(A)]
  BY <1>1, ConcatProperties
<1> DEFINE AB == A \o B
<1>4. ASSUME NEW r \in 1 .. Len(AB) PROVE RegOK(AB[r], lo, hi, n)
  <2>1. CASE r <= Len(A)
    <3>1. r \in 1 .. Len(A) /\ AB[r] = A[r]
      BY <1>2, <1>3, <2>1
    <3> QED BY <3>1 DEF Good
  <2>2. CASE ~(r <= Len(A))
    <3>1. r - Len(A) \in 1 .. Len(B) /\ AB[r] = B[r - Len(A)]
      BY <1>2, <1>3, <2>2
    <3> QED BY <3>1 DEF Good
  <2> QED BY <2>1, <2>2
<1>5. ASSUME NEW k \in K1 \cup K2 PROVE \E r \in 1 .. Len(AB) : Stores(AB[r], k)
  <2>1. CASE k \in K1
    <3>1. PICK r \in 1 .. Len(A) : Stores(A[r], k)
      BY <2>1 DEF Good
    <3>2. r \in 1 .. Len(AB) /\ AB[r] = A[r]
      BY <1>2, <1>3, <3>1
    <3> QED BY <3>1, <3>2
  <2>2. CASE k \in K2
    <3>1. PICK r \in 1 .. Len(B) : Stores(B[r], k)
      BY <2>2 DEF Good
    <3>2. r + Len(A) \in 1 .. Len(AB) /\ AB[r + Len(A)] = B[r]
      BY <1>2, <1>3, <3>1
    <3> QED BY <3>1, <3>2
  <2> QED BY <2>1, <2>2
<1> QED BY <1>3, <1>4, <1>5 DEF Good

LEMMA GoodCover ==
  ASSUME NEW A, NEW lo, NEW hi, NEW K1, NEW K2, NEW n, Good(A, lo, hi, K1, n), K2 \subseteq K1
  PROVE  Good(A, lo, hi, K2, n)
  BY DEF Good

LEMMA GoodEmpty == ASSUME NEW lo, NEW hi, NEW n PROVE Good(<< >>, lo, hi, {}, n)
<1>1. << >> \in Seq(Registers) /\ Len(<< >>) = 0
  OBVIOUS
<1> QED BY <1>1 DEF Good

LEMMA GoodOne ==
  ASSUME NEW g \in Registers, NEW lo, NEW hi, NEW n, RegOK(g, lo, hi, n)
  PROVE  Good(<< g >>, lo, hi, g.at .. (g.at + g.put) - 1, n)
<1>1. << g >> \in Seq(Registers) /\ Len(<< g >>) = 1 /\ << g >>[1] = g
  OBVIOUS
<1>2. ASSUME NEW k \in g.at .. (g.at + g.put) - 1 PROVE Stores(g, k)
  BY DEF Stores, RegOK
<1> QED BY <1>1, <1>2 DEF Good

LEMMA GoodFull ==
  ASSUME vec_byte \in Nat, NEW from \in Nat, NEW m \in Nat, NEW n,
         NEW lo \in Nat, NEW hi \in Nat, lo <= from, from + (m * W) <= hi, hi <= vec_byte
  PROVE  Good(Products!FullRegs(from, m), lo, hi, from .. (from + (m * W)) - 1, n)
<1> DEFINE F == Products!FullRegs(from, m)
<1>1. W \in Nat \ {0}
  BY Register
<1>2. ASSUME NEW j \in 1 .. m
      PROVE  /\ from + ((j - 1) * W) \in Nat /\ from + ((j - 1) * W) + W <= from + (m * W)
             /\ F[j] = [at |-> from + ((j - 1) * W), len |-> W, last |-> W, put |-> W]
  <2>1. (j - 1) * W \in Nat /\ m * W \in Nat
    BY <1>1
  <2>2. (m - j) * W >= 0 /\ (m - j) * W = (m * W) - (((j - 1) * W) + W)
    BY <1>1
  <2> QED BY <1>1, <2>1, <2>2 DEF Products!FullRegs, Products!Full, Products!Reg
<1>3. \A j \in 1 .. m : F[j] \in Registers
  <2> TAKE j \in 1 .. m
  <2> DEFINE a == from + ((j - 1) * W)
  <2>1. a \in Nat /\ F[j] = [at |-> a, len |-> W, last |-> W, put |-> W]
    BY <1>2
  <2> HIDE DEF a, F
  <2> QED BY <1>1, <2>1 DEF Registers
<1>4. F \in Seq(Registers) /\ Len(F) = m
  BY <1>3 DEF Products!FullRegs
<1>5. ASSUME NEW j \in 1 .. m PROVE RegOK(F[j], lo, hi, n)
  <2> DEFINE a == from + ((j - 1) * W)
  <2>1. a \in Nat /\ a + W <= hi /\ lo <= a
    <3>1. (j - 1) * W \in Nat
      BY <1>1
    <3>2. a \in Nat /\ a + W <= from + (m * W) /\ m * W \in Nat
      BY <1>1, <1>2
    <3>3. lo <= a
      BY <3>1
    <3> HIDE DEF a
    <3> QED BY <1>1, <3>2, <3>3
  <2>2. F[j] = [at |-> a, len |-> W, last |-> W, put |-> W]
    BY <1>2
  <2> HIDE DEF a, F
  <2> QED BY <1>1, <2>1, <2>2 DEF RegOK
<1>6. ASSUME NEW k \in from .. (from + (m * W)) - 1
      PROVE  \E j \in 1 .. m : Stores(F[j], k)
  <2> DEFINE d == k - from
             q == d \div W
             r == d % W
  <2>1. d \in Nat /\ d < m * W /\ m * W \in Nat
    BY <1>1
  <2>3. k = from + d
    BY <1>1
  <2> HIDE DEF d
  <2>2. q \in Int /\ r \in 0 .. W - 1 /\ d = (q * W) + r
    BY <1>1, <2>1, DivMod
  <2> HIDE DEF q, r
  <2>4. q >= 0
    <3> SUFFICES ASSUME q < 0 PROVE FALSE
      BY <2>2
    <3>1. q * W <= (-1) * W
      BY <1>1, <2>2
    <3> QED BY <1>1, <2>1, <2>2, <3>1
  <2>5. q < m
    <3> SUFFICES ASSUME q >= m PROVE FALSE
      BY <2>2
    <3>1. q * W >= m * W
      BY <1>1, <2>2
    <3> QED BY <1>1, <2>1, <2>2, <3>1
  <2>6. q + 1 \in 1 .. m
    BY <2>2, <2>4, <2>5
  <2>7. F[q + 1] = [at |-> from + (q * W), len |-> W, last |-> W, put |-> W]
    <3>1. (q + 1) - 1 = q
      BY <2>2
    <3> HIDE DEF F
    <3> QED BY <1>2, <2>6, <3>1
  <2>8. q * W \in Nat
    BY <1>1, <2>2, <2>4
  <2>9. Stores(F[q + 1], k)
    <3> HIDE DEF F
    <3> QED BY <1>1, <2>2, <2>3, <2>7, <2>8 DEF Stores
  <2> QED BY <2>6, <2>9
<1> QED BY <1>4, <1>5, <1>6 DEF Good


(* All the bytes from lo to hi, by registers that are all right. *)
Covers(regs, lo, hi, n) == Good(regs, lo, hi, lo .. hi - 1, n)

LEMMA GoodWiden ==
  ASSUME NEW A, NEW lo \in Nat, NEW hi \in Nat, NEW K, NEW n, Good(A, lo, hi, K, n),
         NEW lo2 \in Nat, NEW hi2 \in Nat, lo2 <= lo, hi <= hi2
  PROVE  Good(A, lo2, hi2, K, n)
<1>1. ASSUME NEW r \in 1 .. Len(A) PROVE RegOK(A[r], lo2, hi2, n)
  <2> DEFINE g == A[r]
  <2>1. RegOK(g, lo, hi, n)
    BY DEF Good
  <2> HIDE DEF g
  <2>2. RegOK(g, lo2, hi2, n)
    BY <2>1 DEF RegOK
  <2> QED BY <2>2 DEF g
<1> QED BY <1>1 DEF Good

LEMMA CoversFull ==
  ASSUME vec_byte \in Nat, NEW from \in Nat, NEW m \in Nat, NEW n, from + (m * W) <= vec_byte
  PROVE  Covers(Products!FullRegs(from, m), from, from + (m * W), n)
<1>1. m * W \in Nat
  BY Register
<1> QED BY <1>1, GoodFull DEF Covers

LEMMA CoversWhole ==
  ASSUME vec_byte \in Nat, NEW from \in Nat, NEW s \in Nat, NEW n, from + s <= vec_byte,
         Products!Rem(s) = 0
  PROVE  Covers(Products!FullRegs(from, s \div W), from, from + s, n)
<1>1. s \div W \in Nat /\ (s \div W) * W = s
  BY Rests
<1> DEFINE q == s \div W
<1> HIDE DEF q
<1>2. Covers(Products!FullRegs(from, q), from, from + (q * W), n)
  BY <1>1, CoversFull DEF q
<1> QED BY <1>1, <1>2 DEF q

LEMMA CoversOne ==
  ASSUME NEW from \in Nat, NEW width \in Nat, NEW l \in Nat, NEW p \in Nat, NEW n, vec_byte \in Nat,
         p <= l, l <= width, from + l <= vec_byte, n > 1 => from + width <= 2 * vec_byte
  PROVE  Covers(<< Products!Reg(from, width, l, p) >>, from, from + p, n)
<1> DEFINE g == Products!Reg(from, width, l, p)
<1>1. g \in Registers /\ g.at = from /\ g.len = width /\ g.last = l /\ g.put = p
  BY DEF Products!Reg, Registers
<1> HIDE DEF g
<1>2. RegOK(g, from, from + p, n)
  BY <1>1 DEF RegOK
<1> QED BY <1>1, <1>2, GoodOne DEF Covers, g

LEMMA CoversJoin ==
  ASSUME NEW A, NEW B, NEW lo \in Nat, NEW mid \in Nat, NEW hi \in Nat, NEW n, lo <= mid, mid <= hi,
         Covers(A, lo, mid, n), Covers(B, mid, hi, n)
  PROVE  Covers(A \o B, lo, hi, n)
<1>1. Good(A, lo, hi, lo .. mid - 1, n) /\ Good(B, lo, hi, mid .. hi - 1, n)
  BY GoodWiden DEF Covers
<1>2. (lo .. mid - 1) \cup (mid .. hi - 1) = lo .. hi - 1
  OBVIOUS
<1>3. Good(A \o B, lo, hi, (lo .. mid - 1) \cup (mid .. hi - 1), n)
  BY <1>1, GoodJoin
<1> QED BY <1>2, <1>3 DEF Covers

(* Whole registers, then the rest in one of its own. *)
LEMMA CoversThenRest ==
  ASSUME vec_byte \in Nat, NEW from \in Nat, NEW s \in Nat, NEW n, from + s <= vec_byte,
         NEW width \in Nat, W <= width \/ width = Products!Rem(s),
         n > 1 => (from + Products!Whole(s)) + width <= 2 * vec_byte
  PROVE  Covers(Products!FullRegs(from, s \div W)
           \o Products!If(Products!Rem(s) # 0,
           Products!Reg(from + Products!Whole(s), width, Products!Rem(s), Products!Rem(s))),
                from, from + s, n)
<1> DEFINE w == Products!Whole(s)
           r == Products!Rem(s)
           F == Products!FullRegs(from, s \div W)
           R == Products!If(r # 0, Products!Reg(from + w, width, r, r))
<1>1. r \in Nat /\ w \in Nat /\ w + r = s /\ s \div W \in Nat /\ w = (s \div W) * W /\ r <= width
  <2>1. W \in Nat /\ r \in 0 .. W - 1 /\ w \in Nat /\ w + r = s /\ s \div W \in Nat
          /\ w = (s \div W) * W
    BY Rests, Register
  <2> HIDE DEF r, w
  <2>2. W <= width \/ width = r
    BY DEF r
  <2> QED BY <2>1, <2>2
<1>2. Covers(F, from, from + w, n)
  <2> DEFINE q == s \div W
  <2>1. q \in Nat /\ w = q * W /\ from + (q * W) <= vec_byte
    BY <1>1
  <2> HIDE DEF q, w, r
  <2>2. Covers(Products!FullRegs(from, q), from, from + w, n)
    BY <2>1, CoversFull
  <2> QED BY <2>2 DEF q
<1>3. Covers(R, from + w, from + s, n)
  <2>1. CASE r = 0
    <3>1. R = << >> /\ (from + w) .. (from + s) - 1 = {}
      <4>1. from + s = from + w
        BY <1>1, <2>1
      <4>2. (from + w) .. (from + w) - 1 = {}
        BY <1>1
      <4>3. R = << >>
        BY <2>1 DEF Products!If
      <4> HIDE DEF R, w
      <4> QED BY <4>1, <4>2, <4>3
    <3> HIDE DEF R
    <3> QED BY <3>1, GoodEmpty DEF Covers
  <2>2. CASE r # 0
    <3>1. R = << Products!Reg(from + w, width, r, r) >>
      BY <2>2 DEF Products!If
    <3>2. (n > 1 => (from + w) + width <= 2 * vec_byte) /\ from + w \in Nat
            /\ (from + w) + r <= vec_byte
      BY <1>1
    <3>5. r <= r
      BY <1>1
    <3> HIDE DEF R, w, r
    <3>3. Covers(R, from + w, (from + w) + r, n)
      BY <1>1, <3>1, <3>2, <3>5, CoversOne
    <3>4. (from + w) + r = from + s
      BY <1>1
    <3> QED BY <3>3, <3>4
  <2> QED BY <2>1, <2>2
<1>4. from + w \in Nat /\ from <= from + w /\ from + w <= from + s
  BY <1>1
<1> HIDE DEF F, R, w
<1>5. Covers(F \o R, from, from + s, n)
  BY <1>2, <1>3, <1>4, CoversJoin
<1> QED BY <1>5 DEF F, R, w, r

(* A whole register over the rest and what follows, then whole registers. *)
LEMMA CoversRestFirst ==
  ASSUME vec_byte \in Nat, NEW s \in Nat, NEW n, s <= vec_byte, W <= s
  PROVE  Covers(<< Products!Full(0) >> \o Products!FullRegs(Products!Rem(s), s \div W), 0, s, n)
<1>1. W \in Nat \ {0}
  BY Register
<1> DEFINE r == Products!Rem(s)
           q == s \div W
<1>2. r \in Nat /\ r < W /\ q \in Nat /\ (q * W) + r = s
  <2>1. r \in 0 .. W - 1 /\ q \in Nat /\ Products!Whole(s) = q * W /\ Products!Whole(s) + r = s
    BY Rests
  <2> QED BY <1>1, <2>1
<1> HIDE DEF r, q
<1>3. Covers(<< Products!Full(0) >>, 0, W, n)
  <2>1. Covers(<< Products!Reg(0, W, W, W) >>, 0, 0 + W, n)
    BY <1>1, CoversOne
  <2> QED BY <1>1, <2>1 DEF Products!Full
<1>4. Good(Products!FullRegs(r, q), 0, s, r .. (r + (q * W)) - 1, n)
  <2>1. r + (q * W) <= s /\ 0 <= r
    BY <1>1, <1>2
  <2> QED BY <1>2, <2>1, GoodFull
<1>5. Good(<< Products!Full(0) >>, 0, s, 0 .. W - 1, n)
  BY <1>1, <1>3, GoodWiden DEF Covers
<1>6. 0 .. s - 1 \subseteq (0 .. W - 1) \cup (r .. (r + (q * W)) - 1)
  <2>1. r + (q * W) = s
    BY <1>1, <1>2
  <2>2. 0 .. s - 1 \subseteq (0 .. W - 1) \cup (r .. s - 1)
    BY <1>1, <1>2
  <2> QED BY <2>1, <2>2
<1>7. Good(<< Products!Full(0) >> \o Products!FullRegs(r, q), 0, s,
        (0 .. W - 1) \cup (r .. (r + (q * W)) - 1), n)
  BY <1>4, <1>5, GoodJoin
<1>8. Good(<< Products!Full(0) >> \o Products!FullRegs(r, q), 0, s, 0 .. s - 1, n)
  BY <1>6, <1>7, GoodCover
<1> QED BY <1>8 DEF Covers, r, q


Fresh == kernel \in Products!NeverClears \/ Products!HasOwnCode

(* What the first m columns add up to in byte k. *)
FirstColumns(m, k) == { <<j, j * vec_byte + k>> : j \in 0 .. m - 1 }

(* The bytes from lo to hi are the sum of the first m columns; a function  *)
(* that stores sums of its own need not have begun.                        *)
Gathered(m, lo, hi) ==
  (Fresh /\ m = 0) \/ \A k \in lo .. hi - 1 : c[k] = FirstColumns(m, k)

(* Functions that take all the bytes of a column in one turn. *)
OneTurn ==
  \/ Products!HasOwnCode
  \/ kernel \in {"gf16mat_prod_ref", "gf256mat_prod_ref"}
  \/ kernel = "gf256mat_prod_avx2" /\ vec_byte <= 3 * W
  \/ kernel = "gf256mat_prod_multab_neon" /\ vec_byte <= 3 * W

(* Functions that take the rest first. *)
RestFirst ==
  ~OneTurn /\ kernel \in Products!NeverClears \cup Products!Ymm16 \cup {"gf256mat_prod_multab_avx2", "gf256mat_prod_avx2"}

ToGoRight(t) ==
  /\ t \in 0 .. vec_byte
  /\ OneTurn => t \in {0, vec_byte}
  /\ RestFirst => t = vec_byte \/ Products!Rem(t) = 0

CallRight ==
  /\ kernel \in Kernels /\ vec_byte \in 1 .. MaxBytes /\ n_vec \in 1 .. MaxCols
  /\ Products!Contract(kernel, vec_byte, n_vec, W, VCols)

ProductBounds ==
  /\ c = [k \in 0 .. vec_byte - 1 |-> c[k]]
  /\ reads \in 0 .. n_vec * vec_byte /\ wrote \in 0 .. vec_byte

OuterRight ==
  /\ first \in Nat /\ left \in Nat /\ first + left = n_vec
  /\ left > 0 /\ kernel \in Products!Gf16 => first % 2 = 0
  /\ Fresh => first = 0 \/ left = 0

TabRight ==
  /\ tab \in Seq(Int) /\ Len(tab) \in 1 .. left
  /\ \A i \in 1 .. Len(tab) : tab[i] = first + i - 1
  /\ Fresh => Len(tab) = left
  /\ kernel \in Products!Gf16 /\ Len(tab) < left => Len(tab) % 2 = 0

InnerRight ==
  /\ tcol \in Nat /\ tleft \in Nat /\ tbase \in Nat
  /\ tcol = first + tbase /\ tbase + tleft = Len(tab)
  /\ Fresh => tleft = 0 \/ tcol = 0

ProductInv ==
  /\ CallRight /\ ProductBounds /\ OuterRight
  /\ phase \in {"call", "table", "tile", "block", "done"}
  /\ phase = "call" => first = 0
  /\ phase \in {"call", "table"} => left > 0
  /\ phase = "done" => left = 0
  /\ phase \in {"table", "done"} => Gathered(first, 0, vec_byte)
  /\ phase \in {"tile", "block"} => TabRight /\ InnerRight
  /\ phase = "tile" => Gathered(tcol, 0, vec_byte)
  /\ phase = "block" =>
       /\ n_ele \in 1 .. tleft
       /\ Fresh => n_ele = tleft
       /\ ToGoRight(to_go)
       /\ Gathered(tcol + n_ele, 0, vec_byte - to_go)
       /\ Gathered(tcol, vec_byte - to_go, vec_byte)

-----------------------------------------------------------------------------
LEMMA SumOfColumns ==
  ASSUME vec_byte \in Nat, NEW m \in Nat, NEW n \in Nat, NEW k \in Nat
  PROVE  /\ Products!Add(FirstColumns(m, k), ColumnTerms(m, n, k)) = FirstColumns(m + n, k)
         /\ ColumnTerms(0, n, k) = FirstColumns(n, k)
         /\ FirstColumns(0, k) = {}
<1> DEFINE A == FirstColumns(m, k)
           B == ColumnTerms(m, n, k)
<1>1. Products!Junk \notin A /\ Products!Junk \notin B
  BY DEF Products!Junk, FirstColumns, ColumnTerms
<1>2. A \cap B = {}
  BY DEF FirstColumns, ColumnTerms
<1>3. A \cup B = FirstColumns(m + n, k)
  <2>1. ASSUME NEW j \in 0 .. (m + n) - 1 PROVE <<j, j * vec_byte + k>> \in A \cup B
    <3>1. CASE j < m
      BY <3>1 DEF FirstColumns
    <3>2. CASE ~(j < m)
      <4>1. j - m \in 0 .. n - 1 /\ m + (j - m) = j
        BY <3>2
      <4>2. <<m + (j - m), ((m + (j - m)) * vec_byte) + k>> \in B
        BY <4>1 DEF ColumnTerms
      <4> QED BY <4>1, <4>2
    <3> QED BY <3>1, <3>2
  <2>2. FirstColumns(m + n, k) \subseteq A \cup B
    BY <2>1 DEF FirstColumns
  <2>3. A \subseteq FirstColumns(m + n, k)
    BY DEF FirstColumns
  <2>4. B \subseteq FirstColumns(m + n, k)
    <3>1. ASSUME NEW i \in 0 .. n - 1
          PROVE  <<m + i, ((m + i) * vec_byte) + k>> \in FirstColumns(m + n, k)
      BY DEF FirstColumns
    <3> QED BY <3>1 DEF ColumnTerms
  <2> QED BY <2>2, <2>3, <2>4
<1>4. Products!Add(A, B) = A \cup B
  BY <1>1, <1>2 DEF Products!Add
<1>5. ColumnTerms(0, n, k) = FirstColumns(n, k)
  BY DEF ColumnTerms, FirstColumns
<1>6. FirstColumns(0, k) = {}
  BY DEF FirstColumns
<1> QED BY <1>3, <1>4, <1>5, <1>6

LEMMA CallKept ==
  ASSUME UNCHANGED Products!call
  PROVE  /\ Fresh' = Fresh /\ OneTurn' = OneTurn /\ RestFirst' = RestFirst
         /\ CallRight' = CallRight
         /\ \A m, k : FirstColumns(m, k)' = FirstColumns(m, k)
         /\ \A t : ToGoRight(t)' = ToGoRight(t)
         /\ kernel' = kernel /\ vec_byte' = vec_byte /\ n_vec' = n_vec
  BY DEF Products!call, Fresh, Products!HasOwnCode, OneTurn, RestFirst, CallRight, FirstColumns,
     ToGoRight, Products!Rem

LEMMA GatheredKept ==
  ASSUME UNCHANGED <<Products!call, c>>, NEW m, NEW lo, NEW hi, Gathered(m, lo, hi)
  PROVE  Gathered(m, lo, hi)'
  BY CallKept DEF Gathered

LEMMA Sizes ==
  ASSUME CallRight
  PROVE  /\ vec_byte \in Nat \ {0} /\ n_vec \in Nat \ {0}
         /\ Products!Contract(kernel, vec_byte, n_vec, W, VCols)
         /\ n_vec * vec_byte \in Nat
<1>1. vec_byte \in Nat \ {0} /\ n_vec \in Nat \ {0}
  BY Register DEF CallRight
<1> QED BY <1>1 DEF CallRight

(* A function that stores sums of its own has one table and one tile. *)
LEMMA FreshIsWhole ==
  ASSUME CallRight, Fresh
  PROVE  /\ Products!TableCols \in {n_vec, VCols} /\ Products!TableCols >= n_vec
         /\ Products!TileCols = tleft
<1>1. n_vec \in Nat \ {0} /\ W \in Nat \ {0} /\ VCols \in Nat
  BY Sizes, Register
<1>2. kernel \in Products!OwnTab16 => n_vec <= VCols
  BY DEF CallRight, Products!Contract, Products!OwnTab16
<1>3. kernel # "gf16mat_prod_sse" /\ kernel # "gf256mat_prod_sse" /\ kernel # "gf256mat_prod_avx2"
  BY DEF Fresh, Products!NeverClears, Products!HasOwnCode, Products!Ymm16
<1>4. Products!TableCols \in {n_vec, VCols} /\ Products!TableCols >= n_vec
  BY <1>1, <1>2, <1>3 DEF Products!TableCols
<1>5. /\ kernel \notin {"gf16mat_prod_ref", "gf256mat_prod_ref"}
      /\ kernel # "gf16mat_prod_multab_sse" /\ kernel # "gf256mat_prod_multab_sse"
  BY DEF Fresh, Products!NeverClears, Products!HasOwnCode, Products!Ymm16
<1>6. kernel = "gf256mat_prod_multab_neon"
        \/ kernel \in {"gf16mat_prod_multab_avx2", "gf16mat_prod_avx2"}
      => Products!HasOwnCode
  BY DEF Fresh, Products!NeverClears
<1>7. Products!TileCols = tleft
  BY <1>5, <1>6 DEF Products!TileCols
<1> QED BY <1>4, <1>7


LEMMA ProductInitKeeps == ASSUME Contracted, Products!Init PROVE ProductInv
<1>1. CallRight /\ phase = "call" /\ first = 0 /\ left = n_vec
  BY DEF Products!Init, CallRight
<1>2. vec_byte \in Nat \ {0} /\ n_vec \in Nat \ {0} /\ n_vec * vec_byte \in Nat
  BY <1>1, Sizes
<1>3. ProductBounds
  BY <1>2 DEF Products!Init, ProductBounds
<1>4. OuterRight
  BY <1>1, <1>2 DEF OuterRight
<1> QED BY <1>1, <1>2, <1>3, <1>4 DEF ProductInv

LEMMA ClearKeeps == ASSUME ProductInv, Products!Clear PROVE ProductInv'
<1>1. UNCHANGED Products!call /\ UNCHANGED Products!outer
        /\ UNCHANGED <<reads, wrote>> /\ phase' = "table" /\ phase = "call"
  BY DEF Products!Clear
<1>2. CallRight' /\ Fresh' = Fresh /\ kernel' = kernel /\ vec_byte' = vec_byte /\ n_vec' = n_vec
  BY <1>1, CallKept DEF ProductInv
<1>3. first = 0 /\ left > 0 /\ first' = 0 /\ left' = left
  BY <1>1 DEF ProductInv, Products!outer
<1>4. OuterRight'
  BY <1>2, <1>3 DEF ProductInv, OuterRight
<1>5. c' = IF Fresh THEN c ELSE [k \in DOMAIN c |-> {}]
  BY DEF Products!Clear, Fresh
<1>6. ProductBounds'
  BY <1>1, <1>2, <1>5 DEF ProductInv, ProductBounds
<1>7. Gathered(first, 0, vec_byte)'
  <2>1. CASE Fresh
    BY <1>2, <1>3, <2>1 DEF Gathered
  <2>2. CASE ~Fresh
    <3>1. ASSUME NEW k \in 0 .. vec_byte - 1 PROVE c'[k] = FirstColumns(first, k)'
      <4>1. c'[k] = {}
        BY <1>5, <2>2 DEF ProductInv, ProductBounds
      <4>2. FirstColumns(0, k) = {} /\ FirstColumns(0, k)' = FirstColumns(0, k)
        BY <1>1, CallKept, SumOfColumns, Sizes DEF ProductInv
      <4>3. FirstColumns(first, k)' = FirstColumns(0, k)'
        BY <1>3 DEF FirstColumns
      <4> QED BY <4>1, <4>2, <4>3
    <3> QED BY <1>2, <3>1 DEF Gathered
  <2> QED BY <2>1, <2>2
<1> QED BY <1>1, <1>2, <1>3, <1>4, <1>6, <1>7 DEF ProductInv

LEMMA GenerateKeeps == ASSUME ProductInv, Products!Generate PROVE ProductInv'
<1> DEFINE n == Products!Least(Products!TableCols, left)
           from == IF kernel \in Products!Gf16 THEN 2 * (first \div 2) ELSE first
<1>1. /\ UNCHANGED Products!call /\ UNCHANGED <<reads, wrote, c>> /\ phase' = "tile"
      /\ phase = "table"
      /\ first' = first /\ left' = left /\ left > 0 /\ tcol' = first /\ tbase' = 0
      /\ tab' = [i \in 1 .. n |-> from + i - 1]
      /\ tleft' = IF kernel \in Products!OwnTab16 /\ ~Products!HasOwnCode THEN left ELSE n
  BY DEF Products!Generate
<1>2. /\ CallRight' /\ Fresh' = Fresh /\ kernel' = kernel /\ vec_byte' = vec_byte /\ n_vec' = n_vec
      /\ CallRight
  BY <1>1, CallKept DEF ProductInv
<1>3. first \in Nat /\ left \in Nat /\ first + left = n_vec /\ n_vec \in Nat
  BY <1>2, Sizes DEF ProductInv, OuterRight
<1>4. W \in Nat /\ Tile \in Nat \ {0} /\ VCols \in Nat \ {0}
  BY Register
<1>5. Products!TableCols \in Nat \ {0}
  BY <1>2, <1>4, Sizes DEF Products!TableCols
<1>6. n \in 1 .. left /\ (n < left => n = Products!TableCols)
  BY <1>1, <1>3, <1>5 DEF Products!Least
<1>7. from = first
  <2>1. CASE kernel \in Products!Gf16
    <3>1. first % 2 = 0
      BY <1>1, <2>1 DEF ProductInv, OuterRight
    <3>2. first = 2 * (first \div 2)
      BY <1>3, <3>1
    <3> QED BY <2>1, <3>2
  <2>2. CASE kernel \notin Products!Gf16
    BY <2>2
  <2> QED BY <2>1, <2>2
<1> HIDE DEF n, from
<1>8. tab' \in Seq(Int) /\ Len(tab') = n /\ \A i \in 1 .. n : tab'[i] = first + i - 1
  <2>1. \A i \in 1 .. n : first + i - 1 \in Int
    BY <1>3, <1>6
  <2>2. tab' = [i \in 1 .. n |-> first + i - 1]
    BY <1>1, <1>7
  <2> QED BY <1>6, <2>1, <2>2
<1>9. Fresh => n = left /\ first = 0
  <2> SUFFICES ASSUME Fresh PROVE n = left /\ first = 0
    OBVIOUS
  <2>1. Products!TableCols >= n_vec
    BY <1>2, FreshIsWhole
  <2>2. first = 0
    BY <1>1, <1>3 DEF ProductInv, OuterRight
  <2> QED BY <1>3, <1>5, <1>6, <2>1, <2>2
<1>10. kernel \in Products!OwnTab16 => n = left
  <2> SUFFICES ASSUME kernel \in Products!OwnTab16 PROVE n = left
    OBVIOUS
  <2>1. n_vec <= VCols
    BY <1>2 DEF CallRight, Products!Contract, Products!OwnTab16
  <2>2. Products!TableCols = VCols
    BY DEF Products!TableCols, Products!OwnTab16
  <2> QED BY <1>3, <1>4, <1>6, <2>1, <2>2
<1>11. kernel \in Products!Gf16 /\ n < left => n % 2 = 0
  <2> SUFFICES ASSUME kernel \in Products!Gf16, n < left PROVE n % 2 = 0
    OBVIOUS
  <2>1. n = Products!TableCols
    BY <1>6
  <2>2. Products!TableCols # n_vec
    BY <1>3, <1>6, <2>1
  <2>3. kernel \notin Products!OwnTab16
    BY <1>6, <1>10
  <2>4. Products!TableCols = 2 * Tile
    BY <2>2, <2>3 DEF Products!TableCols, Products!Gf16
  <2>5. (2 * Tile) % 2 = 0
    BY <1>4
  <2> QED BY <2>1, <2>4, <2>5
<1>12. TabRight' /\ tleft' = n
  <2>1. tleft' = n
    BY <1>1, <1>10
  <2>2. TabRight'
    BY <1>1, <1>2, <1>6, <1>8, <1>9, <1>11 DEF TabRight
  <2> QED BY <2>1, <2>2
<1>13. InnerRight'
  BY <1>1, <1>2, <1>3, <1>6, <1>8, <1>9, <1>12 DEF InnerRight
<1>14. Gathered(tcol, 0, vec_byte)'
  <2>1. Gathered(first, 0, vec_byte)
    BY <1>1 DEF ProductInv
  <2>2. Gathered(first, 0, vec_byte)'
    BY <1>1, <1>2, <2>1, CallKept DEF Gathered
  <2> QED BY <1>1, <2>2 DEF Gathered
<1>15. OuterRight' /\ ProductBounds'
  BY <1>1, <1>2 DEF ProductInv, OuterRight, ProductBounds
<1> QED BY <1>1, <1>2, <1>12, <1>13, <1>14, <1>15 DEF ProductInv

LEMMA NextTileKeeps == ASSUME ProductInv, Products!NextTile PROVE ProductInv'
<1>1. /\ UNCHANGED Products!call
      /\ UNCHANGED <<reads, wrote, c, tcol, tleft, tbase>> /\ UNCHANGED Products!outer
      /\ phase' = "block" /\ phase = "tile"
      /\ tleft > 0 /\ n_ele' = Products!Least(Products!TileCols, tleft) /\ to_go' = vec_byte
  BY DEF Products!NextTile
<1>2. /\ CallRight' /\ Fresh' = Fresh /\ kernel' = kernel /\ vec_byte' = vec_byte /\ n_vec' = n_vec
      /\ CallRight
  BY <1>1, CallKept DEF ProductInv
<1>3. TabRight /\ InnerRight /\ tleft \in Nat \ {0} /\ Gathered(tcol, 0, vec_byte)
  BY <1>1 DEF ProductInv, InnerRight
<1>4. Products!TileCols \in Nat \ {0}
  BY <1>3, Register DEF Products!TileCols
<1>5. n_ele' \in 1 .. tleft /\ (Fresh => n_ele' = tleft)
  <2>1. Fresh => Products!TileCols = tleft
    BY <1>2, FreshIsWhole
  <2> QED BY <1>1, <1>3, <1>4, <2>1 DEF Products!Least
<1>6. ToGoRight(vec_byte)
  BY <1>2, Sizes DEF ToGoRight
<1>7. ToGoRight(to_go)'
  BY <1>1, <1>6, CallKept DEF ToGoRight
<1>8. TabRight' /\ InnerRight' /\ OuterRight' /\ ProductBounds'
  BY <1>1, <1>2, <1>3 DEF ProductInv, TabRight, InnerRight, OuterRight, ProductBounds,
     Products!outer
<1>9. Gathered(tcol + n_ele, 0, vec_byte - to_go)' /\ Gathered(tcol, vec_byte - to_go, vec_byte)'
  <2>1. vec_byte' - to_go' = 0
    BY <1>1, <1>2, Sizes
  <2>2. Gathered(tcol + n_ele, 0, vec_byte - to_go)'
    BY <2>1 DEF Gathered
  <2>3. Gathered(tcol, 0, vec_byte)'
    BY <1>1, <1>2, <1>3, CallKept DEF Gathered
  <2> QED BY <2>1, <2>2, <2>3 DEF Gathered
<1> QED BY <1>1, <1>2, <1>5, <1>7, <1>8, <1>9 DEF ProductInv

LEMMA EndTileKeeps == ASSUME ProductInv, Products!EndTile PROVE ProductInv'
<1>1. /\ UNCHANGED Products!call /\ UNCHANGED <<reads, wrote, c>> /\ UNCHANGED Products!outer
      /\ phase' = "tile" /\ phase = "block" /\ to_go = 0
      /\ tcol' = tcol + n_ele /\ tleft' = tleft - n_ele /\ tbase' = tbase + n_ele
  BY DEF Products!EndTile
<1>2. /\ CallRight' /\ Fresh' = Fresh /\ kernel' = kernel /\ vec_byte' = vec_byte /\ n_vec' = n_vec
      /\ CallRight
  BY <1>1, CallKept DEF ProductInv
<1>3. /\ TabRight /\ InnerRight /\ n_ele \in 1 .. tleft /\ (Fresh => n_ele = tleft)
      /\ Gathered(tcol + n_ele, 0, vec_byte - to_go)
  BY <1>1 DEF ProductInv
<1>4. InnerRight'
  <2>1. tcol \in Nat /\ tleft \in Nat /\ tbase \in Nat /\ first \in Nat /\ Len(tab) \in Nat
    BY <1>3 DEF ProductInv, OuterRight, InnerRight, TabRight
  <2>2. tab' = tab /\ first' = first
    BY <1>1 DEF Products!outer
  <2> QED BY <1>1, <1>2, <1>3, <2>1, <2>2 DEF InnerRight
<1>5. TabRight' /\ OuterRight' /\ ProductBounds'
  BY <1>1, <1>2, <1>3 DEF ProductInv, TabRight, OuterRight, ProductBounds, Products!outer
<1>6. Gathered(tcol, 0, vec_byte)'
  <2>1. vec_byte - to_go = vec_byte
    BY <1>1, <1>2, Sizes
  <2>2. Gathered(tcol + n_ele, 0, vec_byte)
    BY <1>3, <2>1
  <2> DEFINE m == tcol + n_ele
  <2>3. tcol' = m
    BY <1>1
  <2> HIDE DEF m
  <2> QED BY <1>1, <1>2, <2>2, <2>3, CallKept DEF Gathered, m
<1> QED BY <1>1, <1>2, <1>4, <1>5, <1>6 DEF ProductInv

LEMMA EndTableKeeps == ASSUME ProductInv, Products!EndTable PROVE ProductInv'
<1>1. /\ UNCHANGED Products!call /\ UNCHANGED <<reads, wrote, c>>
      /\ phase' = (IF left' = 0 THEN "done" ELSE "table") /\ phase = "tile" /\ tleft = 0
      /\ first' = first + Len(tab) /\ left' = left - Len(tab)
  BY DEF Products!EndTable
<1>2. /\ CallRight' /\ Fresh' = Fresh /\ kernel' = kernel /\ vec_byte' = vec_byte /\ n_vec' = n_vec
      /\ CallRight
  BY <1>1, CallKept DEF ProductInv
<1>3. TabRight /\ InnerRight /\ Gathered(tcol, 0, vec_byte) /\ OuterRight
  BY <1>1 DEF ProductInv
<1>4. Len(tab) \in 1 .. left /\ first \in Nat /\ left \in Nat /\ tbase \in Nat
  BY <1>3 DEF TabRight, OuterRight, InnerRight
<1>5. tcol = first + Len(tab)
  BY <1>1, <1>3, <1>4 DEF InnerRight
<1>6. OuterRight'
  <2>1. first' \in Nat /\ left' \in Nat /\ first' + left' = n_vec
    BY <1>1, <1>3, <1>4 DEF OuterRight
  <2>2. left' > 0 /\ kernel \in Products!Gf16 => first' % 2 = 0
    <3> SUFFICES ASSUME left' > 0, kernel \in Products!Gf16 PROVE first' % 2 = 0
      OBVIOUS
    <3>1. Len(tab) % 2 = 0 /\ first % 2 = 0
      BY <1>1, <1>3, <1>4 DEF TabRight, OuterRight
    <3> QED BY <1>1, <1>4, <3>1
  <2>3. Fresh => left' = 0
    BY <1>1, <1>3, <1>4 DEF TabRight
  <2> QED BY <1>2, <2>1, <2>2, <2>3 DEF OuterRight
<1>7. ProductBounds'
  BY <1>1, <1>2 DEF ProductInv, ProductBounds
<1>8. Gathered(first, 0, vec_byte)'
  <2>1. first' = tcol
    BY <1>1, <1>5
  <2> QED BY <1>1, <1>2, <1>3, <2>1, CallKept DEF Gathered
<1>9. left' = 0 \/ left' > 0
  BY <1>6 DEF OuterRight
<1> QED BY <1>1, <1>2, <1>6, <1>7, <1>8, <1>9 DEF ProductInv


LEMMA RemOfMultiple == ASSUME NEW q \in Int PROVE Products!Rem(q * W) = 0
<1>1. W \in Nat \ {0}
  BY Register
<1>2. ((q * W) + 0) % W = 0
  BY <1>1, DivUnique
<1>3. (q * W) + 0 = q * W
  BY <1>1
<1> QED BY <1>2, <1>3 DEF Products!Rem

LEMMA MultipleOfW ==
  ASSUME NEW t \in Nat, Products!Rem(t) = 0
  PROVE  \E q \in Nat : t = q * W
<1>1. t \div W \in Nat /\ t = (t \div W) * W
  BY Rests
<1> QED BY <1>1

(* As many whole registers as m, or as there are. *)
LEMMA LeastWhole ==
  ASSUME NEW t \in Nat, Products!Rem(t) = 0, NEW m \in Nat \ {0}
  PROVE  LET s == Products!Least(m * W, t)
         IN /\ s \in 0 .. t /\ Products!Rem(s) = 0 /\ Products!Rem(t - s) = 0 /\ s <= m * W
            /\ t > 0 => s >= W
<1> DEFINE s == Products!Least(m * W, t)
<1>1. W \in Nat \ {0} /\ m * W \in Nat /\ m * W >= W
  BY Register
<1>2. PICK q \in Nat : t = q * W
  BY MultipleOfW
<1>3. CASE m * W <= t
  <2>1. s = m * W
    BY <1>3 DEF Products!Least
  <2>2. t - s = (q - m) * W
    BY <1>1, <1>2, <2>1
  <2>3. q - m \in Int
    OBVIOUS
  <2>4. Products!Rem((q - m) * W) = 0
    BY <2>3, RemOfMultiple
  <2>5. Products!Rem(m * W) = 0
    BY RemOfMultiple
  <2> QED BY <1>1, <1>3, <2>1, <2>2, <2>4, <2>5
<1>4. CASE ~(m * W <= t)
  <2>1. s = t
    BY <1>4 DEF Products!Least
  <2>2. t - s = 0 * W
    BY <1>1, <2>1
  <2>3. Products!Rem(0 * W) = 0
    BY RemOfMultiple
  <2>4. t > 0 => t >= W
    <3> SUFFICES ASSUME t > 0 PROVE t >= W
      OBVIOUS
    <3>1. q >= 1
      <4> SUFFICES ASSUME q = 0 PROVE FALSE
        OBVIOUS
      <4>1. t = 0 * W
        BY <1>2
      <4> QED BY <1>1, <4>1
    <3> QED BY <1>1, <1>2, <3>1
  <2> QED BY <1>1, <1>4, <2>1, <2>2, <2>3, <2>4
<1> QED BY <1>3, <1>4

(* The rest, with as many whole registers as m, or as there are. *)
LEMMA RestPart ==
  ASSUME NEW t \in Nat, Products!Rem(t) # 0, NEW m \in Nat \ {0}
  PROVE  LET s == Products!Rem(t) + Products!Least(m * W, Products!Whole(t))
         IN /\ s \in 1 .. t /\ Products!Rem(t - s) = 0 /\ Products!Rem(s) = Products!Rem(t)
            /\ t >= W => s >= W
<1> DEFINE r == Products!Rem(t)
           w == Products!Whole(t)
           l == Products!Least(m * W, w)
<1>1. W \in Nat \ {0}
  BY Register
<1>2. r \in 1 .. W - 1 /\ w \in Nat /\ w + r = t /\ w = (t \div W) * W /\ t \div W \in Nat
  <2>1. r \in 0 .. W - 1 /\ w \in Nat /\ w + r = t /\ w = (t \div W) * W /\ t \div W \in Nat
          /\ r # 0
    BY Rests
  <2> HIDE DEF r, w
  <2> QED BY <1>1, <2>1
<1>3. Products!Rem(w) = 0
  BY <1>2, RemOfMultiple
<1> HIDE DEF r, w
<1>4. l \in 0 .. w /\ Products!Rem(l) = 0 /\ Products!Rem(w - l) = 0 /\ (w > 0 => l >= W)
  BY <1>2, <1>3, LeastWhole
<1> HIDE DEF l
<1>5. t - (r + l) = w - l /\ r + l \in 1 .. t
  BY <1>1, <1>2, <1>4
<1>6. Products!Rem(r + l) = r
  <2>1. PICK q \in Nat : l = q * W
    BY <1>2, <1>4, MultipleOfW
  <2>2. ((q * W) + r) % W = r
    BY <1>1, <1>2, DivUnique
  <2>3. (q * W) + r = r + l
    BY <1>1, <1>2, <2>1
  <2> QED BY <2>2, <2>3 DEF Products!Rem
<1>7. t >= W => r + l >= W
  <2> SUFFICES ASSUME t >= W PROVE r + l >= W
    OBVIOUS
  <2>1. w > 0
    BY <1>1, <1>2
  <2> QED BY <1>1, <1>2, <1>4, <2>1
<1> QED BY <1>4, <1>5, <1>6, <1>7 DEF r, w, l

-----------------------------------------------------------------------------
LEMMA InBlock ==
  ASSUME ProductInv, phase = "block"
  PROVE  /\ vec_byte \in Nat \ {0} /\ n_vec \in Nat \ {0}
         /\ Products!Contract(kernel, vec_byte, n_vec, W, VCols)
         /\ to_go \in 0 .. vec_byte /\ Products!St \in Nat /\ Products!St + to_go = vec_byte
         /\ Products!St = vec_byte - to_go
         /\ n_ele \in Nat \ {0} /\ tcol \in Nat /\ tcol + n_ele <= n_vec
         /\ EntriesRight(n_ele)
         /\ Fresh => tcol = 0 /\ n_ele = n_vec
<1>1. vec_byte \in Nat \ {0} /\ n_vec \in Nat \ {0}
        /\ Products!Contract(kernel, vec_byte, n_vec, W, VCols)
  BY Sizes DEF ProductInv
<1>2. to_go \in 0 .. vec_byte
  BY DEF ProductInv, ToGoRight
<1>3. /\ first \in Nat /\ left \in Nat /\ first + left = n_vec /\ Len(tab) \in 1 .. left
      /\ tcol \in Nat /\ tleft \in Nat /\ tbase \in Nat /\ n_ele \in 1 .. tleft
      /\ tcol = first + tbase /\ tbase + tleft = Len(tab)
  BY DEF ProductInv, OuterRight, TabRight, InnerRight
<1>4. EntriesRight(n_ele)
  <2> SUFFICES ASSUME NEW i \in 0 .. n_ele - 1 PROVE Products!Entry(i) = tcol + i
    BY DEF EntriesRight
  <2>1. tbase + i + 1 \in 1 .. Len(tab)
    BY <1>3
  <2>2. tab[tbase + i + 1] = first + (tbase + i + 1) - 1
    BY <2>1 DEF ProductInv, TabRight
  <2>3. DOMAIN tab = 1 .. Len(tab)
    BY DEF ProductInv, TabRight
  <2> QED BY <1>3, <2>1, <2>2, <2>3 DEF Products!Entry
<1>5. Fresh => tcol = 0 /\ n_ele = n_vec
  <2> SUFFICES ASSUME Fresh PROVE tcol = 0 /\ n_ele = n_vec
    OBVIOUS
  <2>1. n_ele = tleft /\ Len(tab) = left /\ (tleft = 0 \/ tcol = 0)
    BY DEF ProductInv, TabRight, InnerRight
  <2> QED BY <1>3, <2>1
<1> QED BY <1>1, <1>2, <1>3, <1>4, <1>5 DEF Products!St

(* A turn over s bytes. *)
LEMMA TurnKeeps ==
  ASSUME ProductInv, phase = "block", NEW s \in 1 .. to_go, NEW regs, NEW fresh \in BOOLEAN,
         Covers(regs, Products!St, Products!St + s, n_ele), fresh <=> Fresh, ToGoRight(to_go - s),
         Products!Block(regs, n_ele, s, fresh)
  PROVE  ProductInv'
<1>1. /\ Products!Pass(regs, n_ele, fresh) /\ to_go' = to_go - s
      /\ UNCHANGED Products!call /\ UNCHANGED Products!outer /\ UNCHANGED Products!inner
      /\ phase' = phase
  BY DEF Products!Block
<1>2. /\ CallRight' /\ Fresh' = Fresh /\ kernel' = kernel /\ vec_byte' = vec_byte /\ n_vec' = n_vec
      /\ CallRight
  BY <1>1, CallKept DEF ProductInv
<1>3. /\ vec_byte \in Nat \ {0} /\ n_vec \in Nat \ {0}
      /\ to_go \in 0 .. vec_byte /\ Products!St \in Nat /\ Products!St + to_go = vec_byte
      /\ Products!St = vec_byte - to_go
      /\ n_ele \in Nat \ {0} /\ tcol \in Nat /\ tcol + n_ele <= n_vec
      /\ EntriesRight(n_ele) /\ (Fresh => tcol = 0 /\ n_ele = n_vec)
  BY InBlock
<1>4. Products!St + s \in Nat /\ Products!St + s <= vec_byte /\ vec_byte' - to_go' = Products!St + s
  BY <1>1, <1>2, <1>3
<1>5. Good(regs, Products!St, Products!St + s, Products!St .. (Products!St + s) - 1, n_ele)
  BY DEF Covers
<1> DEFINE e == Products!St + s
<1>6. e \in Nat /\ e <= vec_byte /\ Good(regs, Products!St, e, Products!St .. e - 1, n_ele)
  BY <1>4, <1>5
<1> HIDE DEF e
<1>7. /\ reads' \in 0 .. n_vec * vec_byte /\ wrote' \in 0 .. vec_byte
      /\ c' = [k \in 0 .. vec_byte - 1 |-> c'[k]]
      /\ \A k \in 0 .. vec_byte - 1 :
           c'[k] = IF k < Products!St \/ e <= k THEN c[k]
                   ELSE IF fresh THEN ColumnTerms(tcol, n_ele, k)
                   ELSE Products!Add(c[k], ColumnTerms(tcol, n_ele, k))
  <2>1. reads \in 0 .. n_vec * vec_byte /\ wrote \in 0 .. vec_byte /\ DOMAIN c = 0 .. vec_byte - 1
    BY DEF ProductInv, ProductBounds
  <2>2. /\ vec_byte \in Nat /\ n_vec \in Nat /\ n_ele \in Nat /\ Products!St \in Nat /\ e \in Nat
        /\ tcol \in Nat
        /\ tcol + n_ele <= n_vec /\ e <= vec_byte /\ EntriesRight(n_ele)
    BY <1>3, <1>6
  <2>3. Products!Pass(regs, n_ele, fresh) /\ Good(regs, Products!St, e, Products!St .. e - 1, n_ele)
    BY <1>1, <1>6
  <2>4. Passed(Products!St, e, n_ele, fresh)
    BY <2>1, <2>2, <2>3, PassIs, Zenon
  <2> QED BY <2>4 DEF Passed
<1>8. ProductBounds'
  BY <1>2, <1>7 DEF ProductBounds
<1>9. /\ Gathered(tcol + n_ele, 0, Products!St) /\ Gathered(tcol, Products!St, vec_byte)
      /\ n_ele \in 1 .. tleft
      /\ (Fresh => n_ele = tleft)
  BY <1>3 DEF ProductInv
<1>10. ~(Fresh /\ tcol + n_ele = 0)
  BY <1>3
<1>11. ASSUME NEW k \in 0 .. e - 1 PROVE c'[k] = FirstColumns(tcol + n_ele, k)
  <2>0. k \in 0 .. vec_byte - 1 /\ k \in Nat
    BY <1>3, <1>6
  <2>1. CASE k < Products!St
    <3>1. k \in 0 .. Products!St - 1
      BY <2>0, <2>1, <1>3
    <3>2. c[k] = FirstColumns(tcol + n_ele, k)
      BY <1>9, <1>10, <3>1 DEF Gathered
    <3> QED BY <1>7, <2>0, <2>1, <3>2
  <2>2. CASE ~(k < Products!St)
    <3>1. k \in Products!St .. vec_byte - 1 /\ ~(e <= k)
      BY <2>0, <2>2, <1>3, <1>6
    <3>2. c'[k] = IF fresh THEN ColumnTerms(tcol, n_ele, k) ELSE Products!Add(c[k],
            ColumnTerms(tcol, n_ele, k))
      BY <1>7, <2>0, <2>2, <3>1
    <3>3. CASE Fresh
      <4>1. tcol = 0
        BY <1>3, <3>3
      <4>2. ColumnTerms(0, n_ele, k) = FirstColumns(n_ele, k)
        BY <1>3, <2>0, SumOfColumns
      <4>3. 0 + n_ele = n_ele
        BY <1>3
      <4> QED BY <3>2, <3>3, <4>1, <4>2, <4>3
    <3>4. CASE ~Fresh
      <4>1. c[k] = FirstColumns(tcol, k)
        BY <1>9, <3>1, <3>4 DEF Gathered
      <4>2. Products!Add(FirstColumns(tcol, k),
              ColumnTerms(tcol, n_ele, k)) = FirstColumns(tcol + n_ele, k)
        BY <1>3, <2>0, SumOfColumns
      <4> QED BY <3>2, <3>4, <4>1, <4>2
    <3> QED BY <3>3, <3>4
  <2> QED BY <2>1, <2>2
<1>12. vec_byte' - to_go' = e /\ tcol' = tcol /\ n_ele' = n_ele /\ tleft' = tleft
  BY <1>1, <1>4 DEF e, Products!inner
<1>13. Gathered(tcol + n_ele, 0, vec_byte - to_go)'
  BY <1>1, <1>11, <1>12, CallKept DEF Gathered
<1>14. Gathered(tcol, vec_byte - to_go, vec_byte)'
  <2>1. CASE Fresh
    BY <1>2, <1>3, <1>12, <2>1 DEF Gathered
  <2>2. CASE ~Fresh
    <3>1. ASSUME NEW k \in e .. vec_byte - 1 PROVE c'[k] = FirstColumns(tcol, k)
      <4>1. k \in Products!St .. vec_byte - 1 /\ k \in 0 .. vec_byte - 1 /\ e <= k
        BY <1>3, <1>6 DEF e
      <4>2. c[k] = FirstColumns(tcol, k)
        BY <1>9, <2>2, <4>1 DEF Gathered
      <4> QED BY <1>7, <4>1, <4>2
    <3> QED BY <1>1, <1>2, <1>12, <3>1, CallKept DEF Gathered
  <2> QED BY <2>1, <2>2
<1>15. ToGoRight(to_go)'
  <2>1. \A t : ToGoRight(t)' = ToGoRight(t)
    BY <1>1, CallKept
  <2> QED BY <1>1, <2>1 DEF ToGoRight
<1>16. TabRight' /\ InnerRight' /\ OuterRight'
  BY <1>1, <1>2 DEF ProductInv, TabRight, InnerRight, OuterRight, Products!outer, Products!inner
<1> QED BY <1>1, <1>2, <1>8, <1>9, <1>12, <1>13, <1>14, <1>15, <1>16 DEF ProductInv


LEMMA WholeTurnKeeps ==
  ASSUME ProductInv, phase = "block", to_go > 0, OneTurn, NEW regs, NEW fresh \in BOOLEAN,
         Covers(regs, 0, vec_byte, n_ele), fresh <=> Fresh,
         Products!Block(regs, n_ele, vec_byte, fresh)
  PROVE  ProductInv'
<1>1. to_go \in 0 .. vec_byte /\ vec_byte \in Nat \ {0} /\ Products!St + to_go = vec_byte
        /\ Products!St \in Nat
  BY InBlock
<1>2. to_go = vec_byte
  BY <1>1 DEF ProductInv, ToGoRight
<1>3. Products!St = 0 /\ Products!St + vec_byte = vec_byte /\ to_go - vec_byte = 0
        /\ vec_byte \in 1 .. to_go
  BY <1>1, <1>2
<1>4. ToGoRight(0)
  BY <1>1, RemOfMultiple DEF ToGoRight, RestFirst
<1>5. ToGoRight(to_go - vec_byte)
  BY <1>3, <1>4
<1>6. Covers(regs, Products!St, Products!St + vec_byte, n_ele)
  BY <1>3
<1> QED BY <1>3, <1>5, <1>6, TurnKeeps

LEMMA ForwardTurnKeeps ==
  ASSUME ProductInv, phase = "block", ~OneTurn, ~RestFirst, NEW s \in 1 .. to_go, NEW regs,
         NEW fresh \in BOOLEAN, Covers(regs, Products!St, Products!St + s, n_ele), fresh <=> Fresh,
         Products!Block(regs, n_ele, s, fresh)
  PROVE  ProductInv'
<1>1. to_go \in 0 .. vec_byte /\ vec_byte \in Nat
  BY InBlock
<1>2. ToGoRight(to_go - s)
  BY <1>1 DEF ToGoRight
<1> QED BY <1>2, TurnKeeps

LEMMA RestIsFirst ==
  ASSUME ProductInv, phase = "block", RestFirst, Products!Rem(to_go) # 0
  PROVE  to_go = vec_byte /\ Products!St = 0
<1>1. to_go = vec_byte /\ to_go \in Nat
  BY InBlock DEF ProductInv, ToGoRight
<1> QED BY <1>1 DEF Products!St

LEMMA RestTurnKeeps ==
  ASSUME ProductInv, phase = "block", RestFirst, NEW s \in 1 .. to_go, NEW regs,
         Products!Rem(to_go - s) = 0, NEW fresh \in BOOLEAN,
         Covers(regs, Products!St, Products!St + s, n_ele), fresh <=> Fresh,
         Products!Block(regs, n_ele, s, fresh)
  PROVE  ProductInv'
<1>1. to_go \in 0 .. vec_byte /\ vec_byte \in Nat
  BY InBlock
<1>2. ToGoRight(to_go - s)
  BY <1>1 DEF ToGoRight, RestFirst
<1> QED BY <1>2, TurnKeeps

(* The rest under the first of up to m + 1 registers. *)
LEMMA RestUnderKeeps ==
  ASSUME ProductInv, phase = "block", RestFirst, Products!Rem(to_go) # 0, W <= vec_byte,
         NEW m \in Nat \ {0}, NEW s,
         s = Products!Rem(to_go) + Products!Least(m * W, Products!Whole(to_go)),
         NEW fresh \in BOOLEAN, fresh <=> Fresh,
         Products!Block(<< Products!Full(0) >> \o Products!FullRegs(Products!Rem(s), s \div W),
           n_ele, s, fresh)
  PROVE  ProductInv'
<1>1. vec_byte \in Nat /\ to_go = vec_byte /\ Products!St = 0 /\ to_go \in Nat
  BY InBlock, RestIsFirst
<1>2. s \in 1 .. to_go /\ Products!Rem(to_go - s) = 0 /\ s >= W
  BY <1>1, RestPart
<1>3. Covers(<< Products!Full(0) >> \o Products!FullRegs(Products!Rem(s), s \div W), 0, s, n_ele)
  BY <1>1, <1>2, CoversRestFirst
<1>4. Products!St + s = s
  BY <1>1, <1>2
<1> QED BY <1>1, <1>2, <1>3, <1>4, RestTurnKeeps

LEMMA WholeBlocksKeep ==
  ASSUME ProductInv, phase = "block", RestFirst, Products!Rem(to_go) = 0, to_go > 0,
         NEW m \in Nat \ {0}, NEW s, s = Products!Least(m * W, to_go),
         NEW fresh \in BOOLEAN, fresh <=> Fresh,
         Products!Block(Products!FullRegs(Products!St, s \div W), n_ele, s, fresh)
  PROVE  ProductInv'
<1>1. /\ vec_byte \in Nat /\ to_go \in Nat /\ Products!St \in Nat
      /\ Products!St + to_go = vec_byte /\ W \in Nat \ {0}
  BY InBlock, Register
<1>2. s \in 0 .. to_go /\ Products!Rem(s) = 0 /\ Products!Rem(to_go - s) = 0 /\ s >= W
  BY <1>1, LeastWhole
<1>3. s \in 1 .. to_go /\ Products!St + s <= vec_byte
  BY <1>1, <1>2
<1>4. Covers(Products!FullRegs(Products!St, s \div W), Products!St, Products!St + s, n_ele)
  BY <1>1, <1>2, <1>3, CoversWhole
<1> QED BY <1>2, <1>3, <1>4, RestTurnKeeps

-----------------------------------------------------------------------------
(* Which functions have code of their own for a column.  *)
OwnCoded == { "gf16mat_prod_multab_neon", "gf16mat_prod_neon", "gf256mat_prod_multab_neon",
              "gf256mat_prod_neon", "gf256mat_prod_multab_avx2" } \cup Products!Ymm16

LEMMA OwnCode == Products!HasOwnCode => kernel \in OwnCoded
  BY DEF Products!HasOwnCode, OwnCoded, Products!Ymm16

LEMMA RefKeeps == ASSUME ProductInv, Products!gf16mat_prod_ref \/ Products!gf256mat_prod_ref
      PROVE ProductInv'
<1> DEFINE regs == << Products!Exact(0, vec_byte) >>
<1>1. /\ phase = "block" /\ to_go > 0 /\ kernel \in {"gf16mat_prod_ref", "gf256mat_prod_ref"}
      /\ Products!Block(regs, n_ele, vec_byte, FALSE)
  BY DEF Products!gf16mat_prod_ref, Products!gf256mat_prod_ref, Products!Turn
<1>2. ~Fresh /\ OneTurn
  BY <1>1, OwnCode DEF Fresh, OneTurn, OwnCoded, Products!Ymm16, Products!NeverClears
<1>3. vec_byte \in Nat \ {0}
  BY <1>1, InBlock
<1>4. Covers(<< Products!Reg(0, vec_byte, vec_byte, vec_byte) >>, 0, 0 + vec_byte, n_ele)
  BY <1>3, CoversOne
<1>5. Covers(regs, 0, vec_byte, n_ele)
  BY <1>3, <1>4 DEF Products!Exact
<1> HIDE DEF regs
<1> QED BY <1>1, <1>2, <1>5, WholeTurnKeeps

LEMMA SseKeeps ==
  ASSUME ProductInv,
         Products!gf16mat_prod_multab_sse \/ Products!gf16mat_prod_sse
           \/ Products!gf256mat_prod_multab_sse \/ Products!gf256mat_prod_sse
  PROVE  ProductInv'
<1> DEFINE s == Products!Least(8 * W, to_go)
           regs == Products!FullRegs(Products!St, s \div W)
             \o Products!If(Products!Rem(s) # 0,
             Products!Exact(Products!St + Products!Whole(s), Products!Rem(s)))
<1>1. /\ phase = "block" /\ to_go > 0
      /\ kernel \in {"gf16mat_prod_multab_sse", "gf16mat_prod_sse", "gf256mat_prod_multab_sse",
           "gf256mat_prod_sse"}
      /\ Products!Block(regs, n_ele, s, FALSE)
  BY DEF Products!gf16mat_prod_multab_sse, Products!gf16mat_prod_sse,
     Products!gf256mat_prod_multab_sse, Products!gf256mat_prod_sse, Products!Turn,
         Products!gf16mat_blockmat_madd_sse, Products!gf256mat_blockmat_madd_sse
<1>2. ~Fresh /\ ~OneTurn /\ ~RestFirst
  BY <1>1, OwnCode DEF Fresh, OneTurn, OwnCoded, Products!Ymm16, Products!NeverClears, RestFirst
<1>3. vec_byte \in Nat \ {0} /\ to_go \in 0 .. vec_byte /\ Products!St \in Nat
        /\ Products!St + to_go = vec_byte /\ W \in Nat \ {0}
  BY <1>1, InBlock, Register
<1>4. s \in 1 .. to_go
  BY <1>1, <1>3 DEF Products!Least
<1> HIDE DEF s
<1>5. Covers(regs, Products!St, Products!St + s, n_ele)
  <2>1. Products!Rem(s) \in Nat /\ Products!Whole(s) \in Nat
          /\ Products!Whole(s) + Products!Rem(s) = s
    BY <1>3, <1>4, Rests
  <2>2. Products!St + s <= vec_byte
          /\ (Products!St + Products!Whole(s)) + Products!Rem(s) <= 2 * vec_byte
    BY <1>3, <1>4, <2>1
  <2>3. Covers(Products!FullRegs(Products!St, s \div W)
          \o Products!If(Products!Rem(s) # 0,
          Products!Reg(Products!St + Products!Whole(s), Products!Rem(s), Products!Rem(s),
          Products!Rem(s))), Products!St, Products!St + s, n_ele)
    <3> DEFINE r == Products!Rem(s)
    <3>1. vec_byte \in Nat /\ s \in Nat /\ r \in Nat /\ (W <= r \/ r = Products!Rem(s))
            /\ Products!St + s <= vec_byte
          /\ (n_ele > 1 => (Products!St + Products!Whole(s)) + r <= 2 * vec_byte)
      BY <1>3, <1>4, <2>1, <2>2
    <3> HIDE DEF r
    <3>2. Covers(Products!FullRegs(Products!St, s \div W)
            \o Products!If(Products!Rem(s) # 0,
            Products!Reg(Products!St + Products!Whole(s), r, Products!Rem(s), Products!Rem(s))),
            Products!St, Products!St + s, n_ele)
      BY <1>3, <3>1, CoversThenRest
    <3> QED BY <3>2 DEF r
  <2> QED BY <2>3 DEF Products!Exact
<1> HIDE DEF regs
<1> QED BY <1>1, <1>2, <1>4, <1>5, ForwardTurnKeeps

LEMMA NeonTurnFacts ==
  ASSUME ProductInv, phase = "block", kernel \in {"gf16mat_prod_multab_neon", "gf16mat_prod_neon"}
  PROVE  /\ W <= vec_byte /\ vec_byte \in Nat /\ Fresh /\ (Products!HasOwnCode => OneTurn)
              /\ (~Products!HasOwnCode => RestFirst)
         /\ Products!HasOwnCode => vec_byte \in {W, 2 * W, 3 * W}
<1>1. W <= vec_byte /\ vec_byte \in Nat
  <2>1. vec_byte \in Nat /\ W \in Nat /\ Products!Contract(kernel, vec_byte, n_vec, W, VCols)
    BY InBlock, Register
  <2>2. Products!Contract(kernel, vec_byte, n_vec, W, VCols) => vec_byte >= W
    BY DEF Products!Contract, Products!OwnTab16
  <2> QED BY <2>1, <2>2
<1>2. Products!HasOwnCode => vec_byte \in {W, 2 * W, 3 * W}
  <2>1. Products!HasOwnCode => vec_byte \in {W, 2 * W, 3 * W}
    BY DEF Products!HasOwnCode, Products!Ymm16
  <2> QED BY <2>1
<1> QED BY <1>1, <1>2 DEF Fresh, OneTurn, Products!NeverClears, RestFirst

LEMMA Gf16NeonKeeps ==
  ASSUME ProductInv, Products!gf16mat_prod_multab_neon \/ Products!gf16mat_prod_neon
  PROVE  ProductInv'
<1>1. /\ phase = "block" /\ to_go > 0
      /\ kernel \in {"gf16mat_prod_multab_neon", "gf16mat_prod_neon"}
  BY DEF Products!gf16mat_prod_multab_neon, Products!gf16mat_prod_neon, Products!Turn
<1>2. /\ W <= vec_byte /\ vec_byte \in Nat /\ Fresh /\ (Products!HasOwnCode => OneTurn)
           /\ (~Products!HasOwnCode => RestFirst)
      /\ Products!HasOwnCode => vec_byte \in {W, 2 * W, 3 * W}
  BY <1>1, NeonTurnFacts
<1>3. W \in Nat \ {0}
  BY Register
<1>4. CASE Products!HasOwnCode
  <2> DEFINE regs == CASE vec_byte = W -> Products!FullRegs(0, 1)
                       [] vec_byte = 2 * W -> Products!FullRegs(0, 2)
                       [] vec_byte = 3 * W -> Products!FullRegs(0, 3)
  <2>1. Products!Block(regs, n_ele, vec_byte, TRUE)
    BY <1>4 DEF Products!gf16mat_prod_multab_neon, Products!gf16mat_prod_neon,
         Products!gf16mat_prod_32x_multab_neon, Products!gf16mat_prod_64x_multab_neon,
            Products!gf16mat_prod_96x_multab_neon,
         Products!gf16mat_prod_32x_neon, Products!gf16mat_prod_64x_neon,
            Products!gf16mat_prod_96x_neon
  <2>2. PICK m \in {1, 2, 3} : vec_byte = m * W /\ regs = Products!FullRegs(0, m)
    <3>1. W # 2 * W /\ W # 3 * W /\ 2 * W # 3 * W /\ 1 * W = W
      BY <1>3
    <3>2. vec_byte = W \/ vec_byte = 2 * W \/ vec_byte = 3 * W
      BY <1>2, <1>4
    <3>3. CASE vec_byte = W
      BY <3>1, <3>3
    <3>4. CASE vec_byte = 2 * W
      BY <3>1, <3>4
    <3>5. CASE vec_byte = 3 * W
      BY <3>1, <3>5
    <3> QED BY <3>2, <3>3, <3>4, <3>5
  <2> HIDE DEF regs
  <2>3. 0 + (m * W) = vec_byte
    BY <1>2, <2>2
  <2>4. Covers(Products!FullRegs(0, m), 0, 0 + (m * W), n_ele)
    BY <1>2, <2>3, CoversFull
  <2>5. Covers(regs, 0, vec_byte, n_ele)
    BY <2>2, <2>3, <2>4
  <2> QED BY <1>1, <1>2, <1>4, <2>1, <2>5, WholeTurnKeeps
<1>5. CASE ~Products!HasOwnCode /\ Products!Rem(to_go) # 0
  <2> DEFINE s == Products!Rem(to_go) + Products!Least(3 * W, Products!Whole(to_go))
  <2>1. Products!Block(<< Products!Full(0) >> \o Products!FullRegs(Products!Rem(s), s \div W),
          n_ele, s, TRUE)
    BY <1>5 DEF Products!gf16mat_prod_multab_neon, Products!gf16mat_prod_neon,
       Products!gf16mat_remblockmat_prod_multab_neon,
         Products!gf16mat_remblockmat_prod_neon
  <2>2. s = Products!Rem(to_go) + Products!Least(3 * W, Products!Whole(to_go)) /\ 3 \in Nat \ {0}
          /\ TRUE \in BOOLEAN /\ (TRUE <=> Fresh)
    BY <1>2
  <2> HIDE DEF s
  <2> QED BY <1>1, <1>2, <1>5, <2>1, <2>2, RestUnderKeeps, Zenon
<1>6. CASE ~Products!HasOwnCode /\ Products!Rem(to_go) = 0
  <2> DEFINE s == Products!Least(4 * W, to_go)
  <2>1. Products!Block(Products!FullRegs(Products!St, s \div W), n_ele, s, TRUE)
    BY <1>6 DEF Products!gf16mat_prod_multab_neon, Products!gf16mat_prod_neon,
       Products!gf16mat_blockmat_prod_multab_neon,
         Products!gf16mat_blockmat_prod_neon
  <2>2. s = Products!Least(4 * W, to_go) /\ 4 \in Nat \ {0} /\ TRUE \in BOOLEAN /\ (TRUE <=> Fresh)
    BY <1>2
  <2> HIDE DEF s
  <2> QED BY <1>1, <1>2, <1>6, <2>1, <2>2, WholeBlocksKeep, Zenon
<1> QED BY <1>4, <1>5, <1>6


LEMMA JoinOfTwo ==
  ASSUME NEW a, NEW b
  PROVE  << a >> \o << b >> = << a, b >>
<1> DEFINE X == << a >> \o << b >>
<1>1. << a >> \in Seq({a, b}) /\ << b >> \in Seq({a, b}) /\ Len(<< a >>) = 1 /\ Len(<< b >>) = 1
  OBVIOUS
<1>2. /\ X \in Seq({a, b}) /\ Len(X) = 2
      /\ \A i \in 1 .. 2 : X[i] = IF i <= 1 THEN << a >>[i] ELSE << b >>[i - 1]
  BY <1>1, ConcatProperties
<1> HIDE DEF X
<1>3. X[1] = a /\ X[2] = b
  BY <1>2
<1>4. X = << a, b >>
  BY <1>2, <1>3
<1> QED BY <1>4 DEF X

LEMMA JoinOfThree ==
  ASSUME NEW a, NEW b, NEW d
  PROVE  << a, b >> \o << d >> = << a, b, d >>
<1> DEFINE X == << a, b >> \o << d >>
           S == {a, b, d}
<1>1. << a, b >> \in Seq(S) /\ << d >> \in Seq(S) /\ Len(<< a, b >>) = 2 /\ Len(<< d >>) = 1
  OBVIOUS
<1>2. /\ X \in Seq(S) /\ Len(X) = 3
      /\ \A i \in 1 .. 3 : X[i] = IF i <= 2 THEN << a, b >>[i] ELSE << d >>[i - 2]
  BY <1>1, ConcatProperties
<1> HIDE DEF X
<1>3. X[1] = a /\ X[2] = b /\ X[3] = d
  BY <1>2
<1>4. X = << a, b, d >>
  BY <1>2, <1>3
<1> QED BY <1>4 DEF X

LEMMA CoversTwo ==
  ASSUME NEW a, NEW b, NEW mid \in Nat, NEW hi \in Nat, NEW n, mid <= hi,
         Covers(<< a >>, 0, mid, n), Covers(<< b >>, mid, hi, n)
  PROVE  Covers(<< a, b >>, 0, hi, n)
<1>1. << a >> \o << b >> = << a, b >>
  BY JoinOfTwo
<1>2. Covers(<< a >> \o << b >>, 0, hi, n)
  BY CoversJoin
<1> QED BY <1>1, <1>2

LEMMA CoversThree ==
  ASSUME NEW a, NEW b, NEW d, NEW mid \in Nat, NEW up \in Nat, NEW hi \in Nat, NEW n, mid <= up,
         up <= hi,
         Covers(<< a >>, 0, mid, n), Covers(<< b >>, mid, up, n), Covers(<< d >>, up, hi, n)
  PROVE  Covers(<< a, b, d >>, 0, hi, n)
<1>1. << a, b >> \o << d >> = << a, b, d >>
  BY JoinOfThree
<1>2. Covers(<< a, b >>, 0, up, n)
  BY CoversTwo
<1>3. Covers(<< a, b >> \o << d >>, 0, hi, n)
  BY <1>2, CoversJoin
<1> QED BY <1>1, <1>3

LEMMA CoversFirst ==
  ASSUME vec_byte \in Nat, W <= vec_byte, NEW n
  PROVE  /\ Covers(<< Products!Full(0) >>, 0, W, n)
         /\ 2 * W <= vec_byte => Covers(<< Products!Full(W) >>, W, 2 * W, n)
<1>1. W \in Nat \ {0}
  BY Register
<1>2. Covers(<< Products!Reg(0, W, W, W) >>, 0, 0 + W, n)
  BY <1>1, CoversOne
<1>3. 2 * W <= vec_byte => Covers(<< Products!Reg(W, W, W, W) >>, W, W + W, n)
  BY <1>1, CoversOne
<1>4. 0 + W = W /\ W + W = 2 * W
  BY <1>1
<1> QED BY <1>2, <1>3, <1>4 DEF Products!Full

(* A whole load for every column but the last. *)
LEMMA CoversLast ==
  ASSUME vec_byte \in Nat, NEW from \in Nat, NEW n, from < vec_byte, vec_byte <= from + W,
         from + W <= 2 * vec_byte
  PROVE  Covers(<< Products!LastExact(from, vec_byte - from) >>, from, vec_byte, n)
<1>1. W \in Nat \ {0}
  BY Register
<1> DEFINE p == vec_byte - from
<1>2. p \in Nat /\ from + p = vec_byte /\ p <= W /\ from + p <= vec_byte /\ p <= p
  BY <1>1
<1> HIDE DEF p
<1>3. Covers(<< Products!Reg(from, W, p, p) >>, from, from + p, n)
  BY <1>1, <1>2, CoversOne
<1>4. Covers(<< Products!Reg(from, W, p, p) >>, from, vec_byte, n)
  BY <1>2, <1>3
<1> QED BY <1>4 DEF Products!LastExact, p

LEMMA CoversUpToThree ==
  ASSUME vec_byte \in Nat, W \div 2 <= vec_byte, vec_byte <= 3 * W, NEW n
  PROVE  /\ vec_byte <= W => Covers(<< Products!LastExact(0, vec_byte) >>, 0, vec_byte, n)
         /\ W < vec_byte /\ vec_byte <= 2 * W =>
              Covers(<< Products!Full(0), Products!LastExact(W, vec_byte - W) >>, 0, vec_byte, n)
         /\ 2 * W < vec_byte =>
              Covers(<< Products!Full(0), Products!Full(W),
                Products!LastExact(2 * W, vec_byte - (2 * W)) >>, 0, vec_byte, n)
<1>1. W \in Nat \ {0} /\ W = 2 * (W \div 2) /\ W \div 2 \in Nat \ {0} /\ 2 * W \in Nat
  BY Register
<1>2. W <= 2 * vec_byte /\ vec_byte # 0
  <2> DEFINE h == W \div 2
  <2>1. W = 2 * h /\ h \in Nat \ {0} /\ h <= vec_byte
    BY <1>1
  <2> HIDE DEF h
  <2> QED BY <2>1
<1>3. ASSUME vec_byte <= W PROVE Covers(<< Products!LastExact(0, vec_byte) >>, 0, vec_byte, n)
  <2>1. Covers(<< Products!LastExact(0, vec_byte - 0) >>, 0, vec_byte, n)
    BY <1>1, <1>2, <1>3, CoversLast
  <2>2. vec_byte - 0 = vec_byte
    OBVIOUS
  <2> QED BY <2>1, <2>2
<1>4. ASSUME W < vec_byte, vec_byte <= 2 * W
      PROVE  Covers(<< Products!Full(0), Products!LastExact(W, vec_byte - W) >>, 0, vec_byte, n)
  <2>1. Covers(<< Products!LastExact(W, vec_byte - W) >>, W, vec_byte, n)
    BY <1>1, <1>4, CoversLast
  <2>2. Covers(<< Products!Full(0) >>, 0, W, n)
    BY <1>1, <1>4, CoversFirst
  <2> QED BY <1>1, <1>4, <2>1, <2>2, CoversTwo
<1>5. ASSUME 2 * W < vec_byte
      PROVE  Covers(<< Products!Full(0), Products!Full(W),
               Products!LastExact(2 * W, vec_byte - (2 * W)) >>, 0, vec_byte, n)
  <2>1. Covers(<< Products!LastExact(2 * W, vec_byte - (2 * W)) >>, 2 * W, vec_byte, n)
    <3> DEFINE t == 2 * W
    <3>1. t \in Nat /\ t < vec_byte /\ vec_byte <= t + W /\ t + W <= 2 * vec_byte
      BY <1>1, <1>5
    <3> HIDE DEF t
    <3>2. Covers(<< Products!LastExact(t, vec_byte - t) >>, t, vec_byte, n)
      BY <3>1, CoversLast
    <3> QED BY <3>2 DEF t
  <2>2. Covers(<< Products!Full(0) >>, 0, W, n) /\ Covers(<< Products!Full(W) >>, W, 2 * W, n)
    BY <1>1, <1>5, CoversFirst
  <2>3. W <= 2 * W /\ 2 * W <= vec_byte
    BY <1>1, <1>5
  <2> QED BY <1>1, <2>1, <2>2, <2>3, CoversThree
<1> QED BY <1>3, <1>4, <1>5

LEMMA Gf256NeonTableKeeps == ASSUME ProductInv, Products!gf256mat_prod_multab_neon PROVE ProductInv'
<1>1. /\ phase = "block" /\ to_go > 0 /\ kernel = "gf256mat_prod_multab_neon"
  BY DEF Products!gf256mat_prod_multab_neon, Products!Turn
<1>2. vec_byte \in Nat \ {0} /\ to_go \in 0 .. vec_byte /\ Products!St \in Nat
        /\ Products!St + to_go = vec_byte /\ W \in Nat \ {0}
  BY <1>1, InBlock, Register
<1>3. W \div 2 <= vec_byte
  <2>1. Products!Contract(kernel, vec_byte, n_vec, W, VCols)
    BY <1>1, InBlock
  <2> QED BY <1>1, <1>2, <2>1, Register DEF Products!Contract, Products!OwnTab16
<1>4. /\ Products!HasOwnCode <=> (W < vec_byte /\ vec_byte <= 3 * W)
      /\ kernel \notin Products!NeverClears
  BY <1>1 DEF Products!HasOwnCode, Products!Ymm16, Products!NeverClears
<1>5. CASE Products!HasOwnCode
  <2> DEFINE regs == IF vec_byte <= 2 * W THEN << Products!Full(0),
               Products!LastExact(W, vec_byte - W) >>
                     ELSE << Products!Full(0), Products!Full(W),
                       Products!LastExact(2 * W, vec_byte - 2 * W) >>
  <2>1. Products!Block(regs, n_ele, vec_byte, TRUE)
    BY <1>5 DEF Products!gf256mat_prod_multab_neon, Products!gf256mat_prod_multab_17_32_neon,
       Products!gf256mat_prod_multab_33_48_neon
  <2>2. Covers(regs, 0, vec_byte, n_ele)
    BY <1>2, <1>3, <1>4, <1>5, CoversUpToThree
  <2>3. OneTurn /\ Fresh
    BY <1>5 DEF OneTurn, Fresh
  <2> HIDE DEF regs
  <2> QED BY <1>1, <2>1, <2>2, <2>3, WholeTurnKeeps
<1>6. CASE ~Products!HasOwnCode
  <2> DEFINE s == Products!Least(8 * W, to_go)
             regs == Products!FullRegs(Products!St, s \div W)
               \o Products!If(Products!Rem(s) # 0,
               Products!LastExact(Products!St + Products!Whole(s), Products!Rem(s)))
  <2>1. Products!Block(regs, n_ele, s, FALSE)
    BY <1>6 DEF Products!gf256mat_prod_multab_neon, Products!gf256mat_blockmat_madd_multab_neon
  <2>2. s \in 1 .. to_go /\ s \in Nat /\ (to_go <= 8 * W => s = to_go)
    BY <1>1, <1>2 DEF Products!Least
  <2>3. ~Fresh
    BY <1>4, <1>6 DEF Fresh
  <2>4. vec_byte <= W => OneTurn
    <3> SUFFICES ASSUME vec_byte <= W PROVE vec_byte <= 3 * W
      BY <1>1 DEF OneTurn
    <3> QED BY <1>2
  <2>5. vec_byte <= W => Products!St = 0 /\ to_go = vec_byte
    <3> SUFFICES ASSUME vec_byte <= W PROVE Products!St = 0 /\ to_go = vec_byte
      OBVIOUS
    <3>1. to_go \in {0, vec_byte}
      BY <1>1, <2>4 DEF ProductInv, ToGoRight
    <3> QED BY <1>1, <1>2, <3>1
  <2> HIDE DEF s
  <2>6. Products!Rem(s) \in 0 .. W - 1 /\ Products!Whole(s) \in Nat
          /\ Products!Whole(s) + Products!Rem(s) = s
    BY <2>2, Rests
  <2>7. (Products!St + Products!Whole(s)) + W <= 2 * vec_byte
    <3> DEFINE w == Products!Whole(s)
               r == Products!Rem(s)
    <3>1. r \in 0 .. W - 1 /\ w \in Nat /\ w + r = s
      BY <2>6
    <3> HIDE DEF w, r
    <3>2. CASE vec_byte > W
      BY <1>2, <2>2, <3>1, <3>2 DEF w
    <3>3. CASE vec_byte <= W
      <4>1. Products!St = 0 /\ s = vec_byte
        BY <1>2, <2>2, <2>5, <3>3
      <4>2. W <= 2 * vec_byte
        <5> DEFINE h == W \div 2
        <5>1. W = 2 * h /\ h \in Nat /\ h <= vec_byte
          BY <1>3, Register
        <5> HIDE DEF h
        <5> QED BY <1>2, <5>1
      <4>3. w = 0 \/ (w = W /\ vec_byte = W)
        <5>1. PICK q \in Nat : w = q * W
          BY <2>2, Rests DEF w
        <5>2. q = 0 \/ q >= 1
          BY <5>1
        <5>3. CASE q = 0
          BY <1>2, <5>1, <5>3
        <5>4. CASE q >= 1
          <6>1. q * W >= W
            BY <1>2, <5>4
          <6> QED BY <1>2, <3>1, <3>3, <4>1, <5>1, <6>1
        <5> QED BY <5>2, <5>3, <5>4
      <4> QED BY <1>2, <4>1, <4>2, <4>3 DEF w
    <3> QED BY <1>2, <3>2, <3>3
  <2>8. Covers(regs, Products!St, Products!St + s, n_ele)
    <3>1. /\ vec_byte \in Nat /\ Products!St + s <= vec_byte /\ W \in Nat
               /\ (W <= W \/ W = Products!Rem(s))
          /\ (n_ele > 1 => (Products!St + Products!Whole(s)) + W <= 2 * vec_byte)
      BY <1>2, <2>2, <2>7
    <3>2. Covers(Products!FullRegs(Products!St, s \div W)
            \o Products!If(Products!Rem(s) # 0,
            Products!Reg(Products!St + Products!Whole(s), W, Products!Rem(s), Products!Rem(s))),
            Products!St, Products!St + s, n_ele)
      BY <1>2, <2>2, <3>1, CoversThenRest
    <3> QED BY <3>2 DEF Products!LastExact
  <2> HIDE DEF regs
  <2>9. CASE vec_byte <= 3 * W
    <3>1. OneTurn
      BY <1>1, <2>9 DEF OneTurn
    <3>2. to_go = vec_byte
      BY <1>1, <1>2, <3>1 DEF ProductInv, ToGoRight
    <3>3. s = vec_byte
      BY <1>2, <2>2, <2>9, <3>2
    <3>4. Products!St = 0 /\ Products!St + s = vec_byte
      BY <1>2, <3>2, <3>3
    <3>5. Covers(regs, 0, vec_byte, n_ele) /\ Products!Block(regs, n_ele, vec_byte, FALSE)
      BY <2>1, <2>8, <3>3, <3>4
    <3> QED BY <1>1, <2>3, <3>1, <3>5, WholeTurnKeeps
  <2>10. CASE ~(vec_byte <= 3 * W)
    <3>1. ~OneTurn /\ ~RestFirst
      BY <1>1, <1>6, <2>10 DEF OneTurn, RestFirst, Products!NeverClears, Products!Ymm16
    <3> QED BY <1>1, <2>1, <2>2, <2>3, <2>8, <3>1, ForwardTurnKeeps
  <2> QED BY <2>9, <2>10
<1> QED BY <1>5, <1>6

LEMMA Gf256NeonKeeps == ASSUME ProductInv, Products!gf256mat_prod_neon PROVE ProductInv'
<1>1. /\ phase = "block" /\ to_go > 0 /\ kernel = "gf256mat_prod_neon"
  BY DEF Products!gf256mat_prod_neon, Products!Turn
<1>2. vec_byte \in Nat \ {0} /\ to_go \in 0 .. vec_byte /\ Products!St \in Nat
        /\ Products!St + to_go = vec_byte /\ W \in Nat \ {0}
  BY <1>1, InBlock, Register
<1>3. W \div 2 <= vec_byte
  <2>1. Products!Contract(kernel, vec_byte, n_vec, W, VCols)
    BY <1>1, InBlock
  <2> QED BY <1>1, <1>2, <2>1, Register DEF Products!Contract, Products!OwnTab16
<1>4. /\ Products!HasOwnCode <=> vec_byte <= 2 * W
      /\ kernel \notin Products!NeverClears
  <2>1. Products!HasOwnCode <=> (W \div 2 <= vec_byte /\ vec_byte <= 2 * W)
    BY <1>1 DEF Products!HasOwnCode, Products!Ymm16
  <2> QED BY <1>1, <1>3, <2>1 DEF Products!NeverClears
<1>5. CASE Products!HasOwnCode
  <2> DEFINE regs == IF vec_byte <= W THEN << Products!LastExact(0, vec_byte) >>
                     ELSE << Products!Full(0), Products!LastExact(W, vec_byte - W) >>
  <2>1. Products!Block(regs, n_ele, vec_byte, TRUE)
    BY <1>5 DEF Products!gf256mat_prod_neon, Products!gf256mat_prod_16_neon,
       Products!gf256mat_prod_32_neon
  <2>2. vec_byte <= 3 * W
    BY <1>2, <1>4, <1>5
  <2>3. Covers(regs, 0, vec_byte, n_ele)
    BY <1>2, <1>3, <1>4, <1>5, <2>2, CoversUpToThree
  <2>4. OneTurn /\ Fresh
    BY <1>5 DEF OneTurn, Fresh
  <2> HIDE DEF regs
  <2> QED BY <1>1, <2>1, <2>3, <2>4, WholeTurnKeeps
<1>6. CASE ~Products!HasOwnCode
  <2> DEFINE s == Products!Least(3 * W, to_go)
             regs == Products!gf256mat_blockmat_prod_lazy(Products!St, s)
  <2>1. Products!Block(regs, n_ele, s, FALSE)
    BY <1>6 DEF Products!gf256mat_prod_neon
  <2>2. s \in 1 .. to_go /\ s \in Nat /\ s <= 3 * W /\ Products!St + s <= vec_byte
    BY <1>1, <1>2 DEF Products!Least
  <2>3. ~Fresh /\ ~OneTurn /\ ~RestFirst
    BY <1>1, <1>4, <1>6 DEF Fresh, OneTurn, RestFirst, Products!NeverClears, Products!Ymm16
  <2> HIDE DEF s
  <2>4. CASE Products!Rem(s) # 0
    <3>1. regs = Products!FullRegs(Products!St, s \div W)
            \o << Products!LastExact(Products!St + Products!Whole(s), Products!Rem(s)) >>
      <4>1. Products!Rem(1 * W) = 0 /\ Products!Rem(2 * W) = 0 /\ 1 * W = W
        BY <1>2, RemOfMultiple
      <4>2. s # W /\ s # 2 * W
        BY <2>4, <4>1
      <4> QED BY <2>4, <4>2 DEF Products!gf256mat_blockmat_prod_lazy
    <3>2. Products!Rem(s) \in 0 .. W - 1 /\ Products!Whole(s) \in Nat
            /\ Products!Whole(s) + Products!Rem(s) = s
      BY <2>2, Rests
    <3>3. /\ vec_byte \in Nat /\ Products!St + s <= vec_byte /\ W \in Nat
               /\ (W <= W \/ W = Products!Rem(s))
          /\ (n_ele > 1 => (Products!St + Products!Whole(s)) + W <= 2 * vec_byte)
      BY <1>2, <1>4, <1>6, <2>2, <3>2
    <3>4. Covers(Products!FullRegs(Products!St, s \div W)
            \o Products!If(Products!Rem(s) # 0,
            Products!Reg(Products!St + Products!Whole(s), W, Products!Rem(s), Products!Rem(s))),
            Products!St, Products!St + s, n_ele)
      BY <1>2, <2>2, <3>3, CoversThenRest
    <3>5. Covers(regs, Products!St, Products!St + s, n_ele)
      BY <2>4, <3>1, <3>4 DEF Products!LastExact, Products!If
    <3> HIDE DEF regs
    <3> QED BY <1>1, <2>1, <2>2, <2>3, <3>5, ForwardTurnKeeps
  <2>5. CASE Products!Rem(s) = 0
    <3>1. PICK q \in Nat : s = q * W
      BY <2>2, <2>5, MultipleOfW
    <3>2. q \in {1, 2, 3}
      <4>1. q > 0
        <5> SUFFICES ASSUME q = 0 PROVE FALSE
          OBVIOUS
        <5>1. s = 0 * W
          BY <3>1
        <5> QED BY <1>2, <2>2, <5>1
      <4>2. q <= 3
        <5> SUFFICES ASSUME q >= 4 PROVE FALSE
          OBVIOUS
        <5>1. q * W >= 4 * W
          BY <1>2
        <5> QED BY <1>2, <2>2, <3>1, <5>1
      <4> QED BY <4>1, <4>2
    <3>3. regs = Products!FullRegs(Products!St, q)
      <4>1. 1 * W = W /\ W # 2 * W /\ W # 3 * W /\ 2 * W # 3 * W
        BY <1>2
      <4> QED BY <2>5, <3>1, <3>2, <4>1 DEF Products!gf256mat_blockmat_prod_lazy,
         Products!gf256mat_block1_prod_lazy,
                Products!gf256mat_block2_prod_lazy, Products!gf256mat_block3_prod_lazy
    <3>4. Covers(Products!FullRegs(Products!St, q), Products!St, Products!St + (q * W), n_ele)
      BY <1>2, <2>2, <3>1, CoversFull
    <3>5. Covers(regs, Products!St, Products!St + s, n_ele)
      BY <3>1, <3>3, <3>4
    <3> HIDE DEF regs
    <3> QED BY <1>1, <2>1, <2>2, <2>3, <3>5, ForwardTurnKeeps
  <2> QED BY <2>4, <2>5
<1> QED BY <1>5, <1>6


LEMMA Ymm16Facts ==
  ASSUME kernel \in Products!Ymm16
  PROVE  /\ Products!HasOwnCode => vec_byte = W \/ vec_byte = W + (W \div 2)
         /\ Fresh <=> Products!HasOwnCode
         /\ Products!HasOwnCode => OneTurn
         /\ ~Products!HasOwnCode => RestFirst
<1>1. Products!HasOwnCode => vec_byte = W \/ vec_byte = W + (W \div 2)
  BY DEF Products!HasOwnCode, Products!Ymm16
<1>2. kernel \notin Products!NeverClears
  BY DEF Products!Ymm16, Products!NeverClears
<1>3. ~Products!HasOwnCode => ~OneTurn
  BY DEF OneTurn, Products!Ymm16
<1> QED BY <1>1, <1>2, <1>3 DEF Fresh, OneTurn, RestFirst

(* One register, or one and a half. *)
LEMMA Ymm16OwnKeeps ==
  ASSUME ProductInv, phase = "block", to_go > 0, kernel \in Products!Ymm16, Products!HasOwnCode,
         Products!Block(IF vec_byte = W THEN << Products!Full(0) >> ELSE << Products!Full(0),
           Products!Exact(W, W \div 2) >>, n_ele, vec_byte, TRUE)
  PROVE  ProductInv'
<1> DEFINE regs == IF vec_byte = W THEN << Products!Full(0) >> ELSE << Products!Full(0),
             Products!Exact(W, W \div 2) >>
           h == W \div 2
<1>1. W \in Nat \ {0} /\ h \in Nat /\ vec_byte \in Nat
  BY InBlock, Register
<1>2. (vec_byte = W \/ vec_byte = W + h) /\ Fresh /\ OneTurn
  BY Ymm16Facts
<1> HIDE DEF h
<1>3. Covers(<< Products!Full(0) >>, 0, W, n_ele)
  BY <1>1, <1>2, CoversFirst
<1>4. Covers(regs, 0, vec_byte, n_ele)
  <2>1. CASE vec_byte = W
    BY <1>3, <2>1
  <2>2. CASE vec_byte # W
    <3>1. vec_byte = W + h
      BY <1>2, <2>2
    <3>2. Covers(<< Products!Reg(W, h, h, h) >>, W, W + h, n_ele)
      <4>1. h <= h /\ W + h <= vec_byte /\ (n_ele > 1 => W + h <= 2 * vec_byte)
        BY <1>1, <3>1
      <4> QED BY <1>1, <4>1, CoversOne
    <3>3. Covers(<< Products!Exact(W, h) >>, W, vec_byte, n_ele)
      BY <3>1, <3>2 DEF Products!Exact
    <3>4. W <= vec_byte
      BY <1>1, <3>1
    <3>5. Covers(<< Products!Full(0), Products!Exact(W, h) >>, 0, vec_byte, n_ele)
      BY <1>1, <1>3, <3>3, <3>4, CoversTwo
    <3> QED BY <2>2, <3>5 DEF h
  <2> QED BY <2>1, <2>2
<1>5. Products!Block(regs, n_ele, vec_byte, TRUE)
  OBVIOUS
<1> HIDE DEF regs
<1> QED BY <1>2, <1>4, <1>5, WholeTurnKeeps

(* The rest alone in a register of its own. *)
LEMMA RestAloneKeeps ==
  ASSUME ProductInv, phase = "block", RestFirst, Products!Rem(to_go) # 0, NEW regs,
         NEW fresh \in BOOLEAN,
         fresh <=> Fresh, Covers(regs, 0, Products!Rem(to_go), n_ele),
         Products!Block(regs, n_ele, Products!Rem(to_go), fresh)
  PROVE  ProductInv'
<1> DEFINE s == Products!Rem(to_go)
<1>1. to_go = vec_byte /\ Products!St = 0 /\ to_go \in Nat /\ W \in Nat \ {0}
  BY RestIsFirst, InBlock, Register
<1>2. s \in 1 .. to_go /\ to_go - s = (to_go \div W) * W /\ to_go \div W \in Nat
  <2>1. s \in 0 .. W - 1 /\ Products!Whole(to_go) = (to_go \div W) * W /\ to_go \div W \in Nat
        /\ Products!Whole(to_go) \in Nat /\ Products!Whole(to_go) + s = to_go /\ s # 0
    BY <1>1, Rests
  <2> HIDE DEF s
  <2> QED BY <1>1, <2>1
<1>3. Products!Rem(to_go - s) = 0
  BY <1>2, RemOfMultiple
<1>4. Covers(regs, Products!St, Products!St + s, n_ele)
  BY <1>1, <1>2
<1> HIDE DEF s
<1>5. Covers(regs, Products!St, Products!St + s, n_ele) /\ Products!Block(regs, n_ele, s, fresh)
  BY <1>4 DEF s
<1> QED BY <1>2, <1>3, <1>5, RestTurnKeeps

LEMMA Ymm16MaddKeeps ==
  ASSUME ProductInv, phase = "block", to_go > 0, kernel \in Products!Ymm16, ~Products!HasOwnCode,
         \/ Products!Rem(to_go) # 0
              /\ Products!Block(<< Products!Exact(0, Products!Rem(to_go)) >>, n_ele,
              Products!Rem(to_go), FALSE)
         \/ /\ Products!Rem(to_go) = 0
            /\ Products!Block(Products!FullRegs(Products!St,
                 Products!Least(8 * W, to_go) \div W), n_ele, Products!Least(8 * W, to_go), FALSE)
  PROVE  ProductInv'
<1>1. RestFirst /\ ~Fresh
  BY Ymm16Facts
<1>2. CASE Products!Rem(to_go) # 0
  <2> DEFINE s == Products!Rem(to_go)
             regs == << Products!Exact(0, s) >>
  <2>1. vec_byte \in Nat /\ to_go = vec_byte /\ W \in Nat \ {0}
    BY <1>1, <1>2, InBlock, Register, RestIsFirst
  <2>2. s \in Nat /\ s <= vec_byte
    <3>1. s \in 0 .. W - 1 /\ Products!Whole(to_go) \in Nat /\ Products!Whole(to_go) + s = to_go
      BY <2>1, Rests
    <3> HIDE DEF s
    <3> QED BY <2>1, <3>1
  <2>3. Products!Block(regs, n_ele, Products!Rem(to_go), FALSE)
    BY <1>2
  <2> HIDE DEF s
  <2>4. Covers(<< Products!Reg(0, s, s, s) >>, 0, 0 + s, n_ele)
    BY <2>1, <2>2, CoversOne
  <2>5. Covers(regs, 0, Products!Rem(to_go), n_ele)
    BY <2>2, <2>4 DEF Products!Exact, s
  <2> HIDE DEF regs
  <2> QED BY <1>1, <1>2, <2>3, <2>5, RestAloneKeeps
<1>3. CASE Products!Rem(to_go) = 0
  <2> DEFINE s == Products!Least(8 * W, to_go)
  <2>1. Products!Block(Products!FullRegs(Products!St, s \div W), n_ele, s, FALSE)
    BY <1>3
  <2>2. s = Products!Least(8 * W, to_go) /\ 8 \in Nat \ {0} /\ FALSE \in BOOLEAN
          /\ (FALSE <=> Fresh)
    BY <1>1
  <2> HIDE DEF s
  <2> QED BY <1>1, <1>3, <2>1, <2>2, WholeBlocksKeep, Zenon
<1> QED BY <1>2, <1>3

LEMMA Ymm16Keeps ==
  ASSUME ProductInv,
         \/ Products!gf16mat_prod_multab_avx2 \/ Products!gf16mat_madd_multab_avx2
         \/ Products!gf16mat_prod_multab_gfni \/ Products!gf16mat_madd_multab_gfni
  PROVE  ProductInv'
<1>1. phase = "block" /\ to_go > 0 /\ kernel \in Products!Ymm16
  BY DEF Products!gf16mat_prod_multab_avx2, Products!gf16mat_madd_multab_avx2,
     Products!gf16mat_prod_multab_gfni, Products!gf16mat_madd_multab_gfni,
     Products!Turn, Products!Ymm16
<1>2. CASE Products!gf16mat_prod_multab_avx2 \/ Products!gf16mat_prod_multab_gfni
  <2>1. Products!HasOwnCode
        /\ Products!Block(IF vec_byte = W THEN << Products!Full(0) >> ELSE << Products!Full(0),
             Products!Exact(W, W \div 2) >>, n_ele, vec_byte, TRUE)
    BY <1>2 DEF Products!gf16mat_prod_multab_avx2, Products!gf16mat_prod_multab_gfni,
       Products!gf16mat_prod_multab_64x_avx2,
       Products!gf16mat_prod_multab_96x_avx2, Products!gf16mat_prod_multab_64x_gfni,
          Products!gf16mat_prod_multab_96x_gfni
  <2> QED BY <1>1, <2>1, Ymm16OwnKeeps
<1>3. CASE Products!gf16mat_madd_multab_avx2 \/ Products!gf16mat_madd_multab_gfni
  <2>1. ~Products!HasOwnCode
    BY <1>3 DEF Products!gf16mat_madd_multab_avx2, Products!gf16mat_madd_multab_gfni
  <2>2. \/ Products!Rem(to_go) # 0
             /\ Products!Block(<< Products!Exact(0, Products!Rem(to_go)) >>, n_ele,
             Products!Rem(to_go), FALSE)
        \/ /\ Products!Rem(to_go) = 0
           /\ Products!Block(Products!FullRegs(Products!St, Products!Least(8 * W, to_go) \div W),
                n_ele, Products!Least(8 * W, to_go), FALSE)
    BY <1>3 DEF Products!gf16mat_madd_multab_avx2, Products!gf16mat_madd_multab_gfni,
       Products!gf16mat_remaining_madd_avx2,
       Products!gf16mat_remaining_madd_gfni, Products!gf16mat_blockmat_madd_avx2,
          Products!gf16mat_blockmat_madd_gfni
  <2> QED BY <1>1, <2>1, <2>2, Ymm16MaddKeeps
<1> QED BY <1>2, <1>3

LEMMA Avx2Facts ==
  ASSUME ProductInv, phase = "block", kernel \in {"gf256mat_prod_multab_avx2", "gf256mat_prod_avx2"}
  PROVE  /\ vec_byte \in Nat /\ W \in Nat \ {0} /\ W \div 2 <= vec_byte
         /\ Products!HasOwnCode <=> kernel = "gf256mat_prod_multab_avx2" /\ vec_byte <= 3 * W
         /\ Fresh <=> Products!HasOwnCode
         /\ vec_byte <= 3 * W => OneTurn
         /\ vec_byte > 3 * W => RestFirst /\ ~Products!HasOwnCode
<1>1. vec_byte \in Nat /\ W \in Nat \ {0} /\ Products!Contract(kernel, vec_byte, n_vec, W, VCols)
        /\ W \div 2 \in Nat
  BY InBlock, Register
<1>2. W \div 2 <= vec_byte
  <2>1. Products!Contract(kernel, vec_byte, n_vec, W, VCols) => vec_byte >= W \div 2
    BY DEF Products!Contract, Products!OwnTab16
  <2> QED BY <1>1, <2>1
<1>3. Products!HasOwnCode <=> kernel = "gf256mat_prod_multab_avx2" /\ vec_byte <= 3 * W
  BY DEF Products!HasOwnCode, Products!Ymm16
<1>4. Fresh <=> Products!HasOwnCode
  BY DEF Fresh, Products!NeverClears
<1>5. vec_byte <= 3 * W => OneTurn
  BY <1>3 DEF OneTurn
<1>6. vec_byte > 3 * W => ~(vec_byte <= 3 * W)
  BY <1>1
<1>7. vec_byte > 3 * W => RestFirst /\ ~Products!HasOwnCode
  BY <1>3, <1>6 DEF RestFirst, OneTurn
<1> QED BY <1>1, <1>2, <1>3, <1>4, <1>5, <1>7

LEMMA Gf256Avx2SmallKeeps ==
  ASSUME ProductInv, Products!gf256mat_prod_multab_avx2 \/ Products!gf256mat_prod_small_avx2
  PROVE  ProductInv'
<1> DEFINE regs == Products!gf256mat_prod_multab_small_avx2(vec_byte)
           fresh == kernel = "gf256mat_prod_multab_avx2"
<1>1. /\ phase = "block" /\ to_go > 0
      /\ kernel \in {"gf256mat_prod_multab_avx2", "gf256mat_prod_avx2"}
  BY DEF Products!gf256mat_prod_multab_avx2, Products!gf256mat_prod_small_avx2, Products!Turn
<1>2. /\ vec_byte \in Nat /\ W \in Nat \ {0} /\ W \div 2 <= vec_byte
      /\ Products!HasOwnCode <=> kernel = "gf256mat_prod_multab_avx2" /\ vec_byte <= 3 * W
      /\ Fresh <=> Products!HasOwnCode
      /\ vec_byte <= 3 * W => OneTurn
  BY <1>1, Avx2Facts
<1>3. vec_byte <= 3 * W /\ Products!Block(regs, n_ele, vec_byte, fresh)
  <2>1. CASE Products!gf256mat_prod_multab_avx2
    <3>1. kernel = "gf256mat_prod_multab_avx2" /\ Products!HasOwnCode
            /\ Products!Block(regs, n_ele, vec_byte, TRUE)
      BY <2>1 DEF Products!gf256mat_prod_multab_avx2, Products!Turn
    <3>2. fresh = TRUE
      BY <3>1
    <3> HIDE DEF fresh, regs
    <3> QED BY <1>2, <3>1, <3>2
  <2>2. CASE Products!gf256mat_prod_small_avx2
    <3>1. kernel = "gf256mat_prod_avx2" /\ vec_byte <= 3 * W
            /\ Products!Block(regs, n_ele, vec_byte, FALSE)
      BY <2>2 DEF Products!gf256mat_prod_small_avx2, Products!Turn
    <3>2. fresh = FALSE
      BY <3>1
    <3> HIDE DEF fresh, regs
    <3> QED BY <3>1, <3>2
  <2> QED BY <2>1, <2>2
<1>4. Covers(regs, 0, vec_byte, n_ele)
  <2>1. /\ vec_byte <= W => regs = << Products!LastExact(0, vec_byte) >>
        /\ W < vec_byte /\ vec_byte <= 2 * W
             => regs = << Products!Full(0), Products!LastExact(W, vec_byte - W) >>
        /\ 2 * W < vec_byte
             => regs = << Products!Full(0), Products!Full(W),
             Products!LastExact(2 * W, vec_byte - 2 * W) >>
    BY <1>2 DEF Products!gf256mat_prod_multab_small_avx2,
       Products!gf256mat_prod_multab_1ymm_avx2, Products!gf256mat_prod_multab_2ymm_avx2,
       Products!gf256mat_prod_multab_3ymm_avx2
  <2> HIDE DEF regs
  <2>2. vec_byte <= W \/ (W < vec_byte /\ vec_byte <= 2 * W) \/ 2 * W < vec_byte
    BY <1>2
  <2> QED BY <1>2, <1>3, <2>1, <2>2, CoversUpToThree
<1>5. fresh \in BOOLEAN /\ (fresh <=> Fresh)
  BY <1>2, <1>3
<1> HIDE DEF regs, fresh
<1> QED BY <1>1, <1>2, <1>3, <1>4, <1>5, WholeTurnKeeps

LEMMA Gf256Avx2MaddKeeps == ASSUME ProductInv, Products!gf256mat_madd_multab_avx2 PROVE ProductInv'
<1>1. /\ phase = "block" /\ to_go > 0
      /\ kernel \in {"gf256mat_prod_multab_avx2", "gf256mat_prod_avx2"}
      /\ vec_byte > 3 * W
  BY DEF Products!gf256mat_madd_multab_avx2, Products!Turn
<1>2. vec_byte \in Nat /\ W \in Nat \ {0} /\ ~Fresh /\ RestFirst
  BY <1>1, Avx2Facts
<1>3. W <= vec_byte
  BY <1>1, <1>2
<1>4. CASE Products!Rem(to_go) # 0
  <2> DEFINE s == Products!Rem(to_go) + Products!Least(7 * W, Products!Whole(to_go))
  <2>1. Products!Block(<< Products!Full(0) >> \o Products!FullRegs(Products!Rem(s), s \div W),
          n_ele, s, FALSE)
    BY <1>4 DEF Products!gf256mat_madd_multab_avx2, Products!gf256mat_remblockmat_madd_avx2
  <2>2. s = Products!Rem(to_go) + Products!Least(7 * W, Products!Whole(to_go)) /\ 7 \in Nat \ {0}
          /\ FALSE \in BOOLEAN /\ (FALSE <=> Fresh)
    BY <1>2
  <2> HIDE DEF s
  <2> QED BY <1>1, <1>2, <1>3, <1>4, <2>1, <2>2, RestUnderKeeps, Zenon
<1>5. CASE Products!Rem(to_go) = 0
  <2> DEFINE s == Products!Least(7 * W, to_go)
  <2>1. Products!Block(Products!FullRegs(Products!St, s \div W), n_ele, s, FALSE)
    BY <1>5 DEF Products!gf256mat_madd_multab_avx2, Products!gf256mat_blockmat_madd_avx2
  <2>2. s = Products!Least(7 * W, to_go) /\ 7 \in Nat \ {0} /\ FALSE \in BOOLEAN
          /\ (FALSE <=> Fresh)
    BY <1>2
  <2> HIDE DEF s
  <2> QED BY <1>1, <1>2, <1>5, <2>1, <2>2, WholeBlocksKeep, Zenon
<1> QED BY <1>4, <1>5

(* m whole registers at St. *)
LEMMA GfniWholeKeeps ==
  ASSUME ProductInv, phase = "block", RestFirst, Fresh, Products!Rem(to_go) = 0, to_go > 0,
         NEW m \in Nat \ {0}, m * W <= to_go,
         Products!Block(Products!FullRegs(Products!St, m), n_ele, m * W, TRUE)
  PROVE  ProductInv'
<1> DEFINE s == m * W
<1>1. W \in Nat \ {0} /\ to_go \in Nat /\ vec_byte \in Nat /\ Products!St \in Nat
        /\ Products!St + to_go = vec_byte
  BY InBlock, Register
<1>2. s \in 1 .. to_go /\ Products!St + s <= vec_byte
  BY <1>1
<1>3. Products!Rem(to_go - s) = 0
  <2>1. PICK q \in Nat : to_go = q * W
    BY <1>1, MultipleOfW
  <2>2. to_go - s = (q - m) * W /\ q - m \in Int
    BY <1>1, <2>1
  <2> QED BY <2>2, RemOfMultiple
<1>4. Covers(Products!FullRegs(Products!St, m), Products!St, Products!St + s, n_ele)
  BY <1>1, <1>2, CoversFull
<1>5. Products!Block(Products!FullRegs(Products!St, m), n_ele, s, TRUE)
  OBVIOUS
<1> HIDE DEF s
<1> QED BY <1>2, <1>3, <1>4, <1>5, RestTurnKeeps

LEMMA GfniRestKeeps ==
  ASSUME ProductInv, phase = "block", RestFirst, Fresh, Products!Rem(to_go) # 0,
         kernel = "gf256mat_prod_avx2_gfni",
         \/ /\ vec_byte < W \div 2
            /\ Products!Block(<< Products!Exact(0, Products!Rem(to_go)) >>, n_ele,
                 Products!Rem(to_go), TRUE)
         \/ /\ W \div 2 <= vec_byte /\ vec_byte < W
            /\ Products!Block(<< Products!LastExact(0, Products!Rem(to_go)) >>,
                 Products!Most(n_ele, 2), Products!Rem(to_go), TRUE)
         \/ /\ W < vec_byte
            /\ Products!Block(<< Products!Reg(0, W, W, Products!Rem(to_go)) >>, n_ele,
                 Products!Rem(to_go), TRUE)
  PROVE  ProductInv'
<1> DEFINE r == Products!Rem(to_go)
           h == W \div 2
<1>1. /\ vec_byte \in Nat /\ to_go = vec_byte /\ W \in Nat \ {0} /\ h \in Nat /\ W = 2 * h
      /\ n_ele \in Nat /\ n_ele = n_vec
  BY InBlock, Register, RestIsFirst
<1>2. r \in 1 .. W - 1 /\ r <= vec_byte
  <2>1. r \in 0 .. W - 1 /\ Products!Whole(to_go) \in Nat /\ Products!Whole(to_go) + r = to_go
          /\ r # 0
    BY <1>1, Rests
  <2> HIDE DEF r
  <2> QED BY <1>1, <2>1
<1>3. ASSUME NEW width \in Nat, NEW l \in Nat, r <= l, l <= width, l <= vec_byte,
             n_ele > 1 => width <= 2 * vec_byte
      PROVE  Covers(<< Products!Reg(0, width, l, r) >>, 0, r, n_ele)
  <2> HIDE DEF r
  <2>1. Covers(<< Products!Reg(0, width, l, r) >>, 0, 0 + r, n_ele)
    <3>1. r \in Nat /\ 0 + l <= vec_byte /\ (n_ele > 1 => 0 + width <= 2 * vec_byte)
      BY <1>2, <1>3
    <3> QED BY <1>1, <1>3, <3>1, CoversOne
  <2>2. 0 + r = r
    BY <1>2
  <2> QED BY <2>1, <2>2
<1>4. CASE vec_byte < h /\ Products!Block(<< Products!Exact(0, r) >>, n_ele, r, TRUE)
  <2>1. Covers(<< Products!Reg(0, r, r, r) >>, 0, r, n_ele)
    <3> HIDE DEF r
    <3> QED BY <1>1, <1>2, <1>3
  <2>2. Products!Block(<< Products!Reg(0, r, r, r) >>, n_ele, Products!Rem(to_go), TRUE)
    BY <1>4 DEF Products!Exact
  <2> QED BY <2>1, <2>2, RestAloneKeeps
<1>5. CASE h <= vec_byte /\ vec_byte < W
             /\ Products!Block(<< Products!LastExact(0, r) >>, Products!Most(n_ele, 2), r, TRUE)
  <2>1. n_ele > 1
    <3>1. n_vec > 1 \/ vec_byte < h \/ vec_byte >= W
      <4>1. Products!Contract(kernel, vec_byte, n_vec, W, VCols)
        BY InBlock
      <4> QED BY <4>1 DEF Products!Contract, Products!OwnTab16
    <3> QED BY <1>1, <1>5, <3>1
  <2>2. Products!Most(n_ele, 2) = n_ele
    BY <1>1, <2>1 DEF Products!Most
  <2>3. Covers(<< Products!Reg(0, W, r, r) >>, 0, r, n_ele)
    <3>1. W <= 2 * vec_byte
      <4> HIDE DEF h
      <4> QED BY <1>1, <1>5
    <3> HIDE DEF r
    <3> QED BY <1>1, <1>2, <1>3, <3>1
  <2>4. Products!Block(<< Products!Reg(0, W, r, r) >>, n_ele, Products!Rem(to_go), TRUE)
    BY <1>5, <2>2 DEF Products!LastExact
  <2> QED BY <2>3, <2>4, RestAloneKeeps
<1>6. CASE W < vec_byte /\ Products!Block(<< Products!Reg(0, W, W, r) >>, n_ele, r, TRUE)
  <2>1. Covers(<< Products!Reg(0, W, W, r) >>, 0, r, n_ele)
    <3>1. W <= vec_byte /\ W <= 2 * vec_byte /\ r <= W
      BY <1>1, <1>2, <1>6
    <3> HIDE DEF r
    <3> QED BY <1>1, <1>2, <1>3, <3>1
  <2>2. Products!Block(<< Products!Reg(0, W, W, r) >>, n_ele, Products!Rem(to_go), TRUE)
    BY <1>6
  <2> QED BY <2>1, <2>2, RestAloneKeeps
<1> QED BY <1>4, <1>5, <1>6

LEMMA Gf256GfniKeeps == ASSUME ProductInv, Products!gf256mat_prod_avx2_gfni PROVE ProductInv'
<1>1. phase = "block" /\ to_go > 0 /\ kernel = "gf256mat_prod_avx2_gfni"
  BY DEF Products!gf256mat_prod_avx2_gfni, Products!Turn
<1>2. Fresh /\ RestFirst
  BY <1>1 DEF Fresh, RestFirst, Products!NeverClears, OneTurn, Products!HasOwnCode, Products!Ymm16
<1>3. W \in Nat \ {0} /\ to_go \in Nat
  BY <1>1, InBlock, Register
<1>4. CASE Products!Rem(to_go) # 0
  <2>1. \/ /\ vec_byte < W \div 2
           /\ Products!Block(<< Products!Exact(0, Products!Rem(to_go)) >>, n_ele,
                Products!Rem(to_go), TRUE)
        \/ /\ W \div 2 <= vec_byte /\ vec_byte < W
           /\ Products!Block(<< Products!LastExact(0, Products!Rem(to_go)) >>,
                Products!Most(n_ele, 2), Products!Rem(to_go), TRUE)
        \/ /\ W < vec_byte
           /\ Products!Block(<< Products!Reg(0, W, W, Products!Rem(to_go)) >>, n_ele,
                Products!Rem(to_go), TRUE)
    BY <1>4 DEF Products!gf256mat_prod_avx2_gfni, Products!gf256mat_prod_smaller_than_16,
       Products!gf256mat_prod_smaller, Products!gf256mat_prod_small
  <2> QED BY <1>1, <1>2, <1>4, <2>1, GfniRestKeeps
<1>5. CASE Products!Rem(to_go) = 0
  <2>1. \E m \in {1, 2, 3, 4} : m * W <= to_go
          /\ Products!Block(Products!FullRegs(Products!St, m), n_ele, m * W, TRUE)
    <3>1. 1 * W = W
      BY <1>3
    <3>2. \/ to_go >= 4 * W /\ Products!Block(Products!FullRegs(Products!St, 4), n_ele, 4 * W, TRUE)
          \/ to_go = 3 * W /\ Products!Block(Products!FullRegs(Products!St, 3), n_ele, 3 * W, TRUE)
          \/ to_go = 2 * W /\ Products!Block(Products!FullRegs(Products!St, 2), n_ele, 2 * W, TRUE)
          \/ to_go = W /\ Products!Block(Products!FullRegs(Products!St, 1), n_ele, W, TRUE)
      BY <1>5 DEF Products!gf256mat_prod_avx2_gfni, Products!gf256mat_prod_128byte,
         Products!gf256mat_prod_96byte,
         Products!gf256mat_prod_64byte, Products!gf256mat_prod_32byte
    <3>3. ASSUME NEW m \in {1, 2, 3, 4}, NEW s, s = m * W, to_go >= s,
                 Products!Block(Products!FullRegs(Products!St, m), n_ele, s, TRUE)
          PROVE  \E i \in {1, 2, 3, 4} : i * W <= to_go
                   /\ Products!Block(Products!FullRegs(Products!St, i), n_ele, i * W, TRUE)
      <4>1. m * W <= to_go
        BY <1>3, <3>3
      <4> QED BY <3>3, <4>1
    <3>4. CASE to_go >= 4 * W /\ Products!Block(Products!FullRegs(Products!St, 4), n_ele, 4 * W,
                 TRUE)
      BY <3>3, <3>4
    <3>5. CASE to_go = 3 * W /\ Products!Block(Products!FullRegs(Products!St, 3), n_ele, 3 * W,
                 TRUE)
      <4>1. to_go >= 3 * W
        BY <1>3, <3>5
      <4> QED BY <3>3, <3>5, <4>1
    <3>6. CASE to_go = 2 * W /\ Products!Block(Products!FullRegs(Products!St, 2), n_ele, 2 * W,
                 TRUE)
      <4>1. to_go >= 2 * W
        BY <1>3, <3>6
      <4> QED BY <3>3, <3>6, <4>1
    <3>7. CASE to_go = W /\ Products!Block(Products!FullRegs(Products!St, 1), n_ele, W, TRUE)
      <4>1. to_go >= W
        BY <1>3, <3>7
      <4> QED BY <3>1, <3>3, <3>7, <4>1
    <3> QED BY <3>2, <3>4, <3>5, <3>6, <3>7
  <2>2. PICK m \in {1, 2, 3, 4} : m * W <= to_go
               /\ Products!Block(Products!FullRegs(Products!St, m), n_ele, m * W, TRUE)
    BY <2>1
  <2>3. m \in Nat \ {0}
    OBVIOUS
  <2> QED BY <1>1, <1>2, <1>5, <2>2, <2>3, GfniWholeKeeps
<1> QED BY <1>4, <1>5

-----------------------------------------------------------------------------
LEMMA ProductStepKeeps == ASSUME ProductInv, [Products!Next]_(Products!vars) PROVE ProductInv'
<1>1. CASE UNCHANGED Products!vars
  <2>1. UNCHANGED Products!call
          /\ UNCHANGED <<phase, c, first, left, tab, tcol, tleft, tbase, n_ele, to_go, reads,
          wrote>>
    BY <1>1 DEF Products!vars, Products!outer, Products!inner
  <2>2. CallRight' /\ ProductBounds' /\ OuterRight'
    BY <2>1, CallKept DEF ProductInv, ProductBounds, OuterRight
  <2>3. /\ TabRight' = TabRight /\ InnerRight' = InnerRight /\ \A t : ToGoRight(t)' = ToGoRight(t)
        /\ Fresh' = Fresh /\ vec_byte' = vec_byte
    BY <2>1, CallKept DEF TabRight, InnerRight
  <2>4. ASSUME NEW m, NEW lo, NEW hi, Gathered(m, lo, hi) PROVE Gathered(m, lo, hi)'
    BY <2>1, <2>4, CallKept DEF Gathered
  <2>5. /\ phase \in {"table", "done"} => Gathered(first, 0, vec_byte)'
        /\ phase = "tile" => Gathered(tcol, 0, vec_byte)'
        /\ phase = "block" => /\ Gathered(tcol + n_ele, 0, vec_byte - to_go)'
                              /\ Gathered(tcol, vec_byte - to_go, vec_byte)'
    BY <2>1, <2>3, CallKept DEF ProductInv, Gathered
  <2>6. phase = "block" => ToGoRight(to_go)'
    BY <2>1, <2>3 DEF ProductInv, ToGoRight
  <2> QED BY <2>1, <2>2, <2>3, <2>5, <2>6 DEF ProductInv
<1>2. CASE Products!Blocks
  BY <1>2, RefKeeps, SseKeeps, Gf16NeonKeeps, Gf256NeonTableKeeps, Gf256NeonKeeps, Ymm16Keeps,
     Gf256Avx2SmallKeeps, Gf256Avx2MaddKeeps, Gf256GfniKeeps DEF Products!Blocks
<1>3. CASE Products!Clear \/ Products!Generate \/ Products!NextTile \/ Products!EndTile
             \/ Products!EndTable
  BY <1>3, ClearKeeps, GenerateKeeps, NextTileKeeps, EndTileKeeps, EndTableKeeps
<1> QED BY <1>1, <1>2, <1>3 DEF Products!Next

LEMMA ProductInvRight == ProductInv => Products!ProductRight /\ Products!StaysInside
<1> SUFFICES ASSUME ProductInv PROVE Products!ProductRight /\ Products!StaysInside
  OBVIOUS
<1>1. vec_byte \in Nat \ {0} /\ n_vec \in Nat \ {0} /\ n_vec * vec_byte \in Nat
  BY Sizes DEF ProductInv
<1>2. Products!StaysInside
  BY <1>1 DEF Products!StaysInside, ProductInv, ProductBounds
<1>3. ASSUME phase = "done"
      PROVE  c = [k \in 0 .. vec_byte - 1 |-> { <<j, j * vec_byte + k>> : j \in 0 .. n_vec - 1 }]
  <2>1. first = n_vec /\ Gathered(first, 0, vec_byte)
    BY <1>1, <1>3 DEF ProductInv, OuterRight
  <2>2. \A k \in 0 .. vec_byte - 1 : c[k] = FirstColumns(n_vec, k)
    BY <1>1, <2>1 DEF Gathered
  <2>3. c = [k \in 0 .. vec_byte - 1 |-> c[k]]
    BY DEF ProductInv, ProductBounds
  <2>4. \A k \in 0 .. vec_byte - 1 : c[k] = { <<j, j * vec_byte + k>> : j \in 0 .. n_vec - 1 }
    BY <2>2 DEF FirstColumns
  <2> QED BY <2>3, <2>4
<1> QED BY <1>2, <1>3 DEF Products!ProductRight

(* The product functions of blas_matrix_sse.c, _neon.c, _avx2.c and        *)
(* _avx2_gfni.c on their own: for every width of a register and every size *)
(* of column, matrix, tile and table, the result of a caller that keeps to *)
(* Contract is the sum over all columns, and nothing outside the matrix is *)
(* read or outside the result written.                                     *)
THEOREM ProductsAreRight == Contracted /\ Products!Spec => []Products!ProductRight
  /\ []Products!StaysInside
<1>1. Contracted /\ Products!Init => ProductInv
  BY ProductInitKeeps
<1>2. ProductInv /\ [Products!Next]_(Products!vars) => ProductInv'
  BY ProductStepKeeps
<1>3. ProductInv => Products!ProductRight /\ Products!StaysInside
  BY ProductInvRight
<1> QED BY <1>1, <1>2, <1>3, PTL DEF Products!Spec

-----------------------------------------------------------------------------
(* The calls of the library.                                               *)

CallTypes ==
  /\ set \in ParamSets /\ be \in BackEnds /\ multab = Calls!HasMultab(set, be)
  /\ site \in Calls!Sites /\ row \in 0 .. Calls!V - 1
  /\ col \in Columns /\ col < Calls!O

LEMMA SetCases ==
  ASSUME CallTypes
  PROVE  \/ set.gf = 16 /\ Calls!O = 64 /\ Calls!V = 96
         \/ set.gf = 256 /\ Calls!O = 45 /\ Calls!V = 74
         \/ set.gf = 256 /\ Calls!O = 72 /\ Calls!V = 121
         \/ set.gf = 256 /\ Calls!O = 96 /\ Calls!V = 163
  BY BuildsAssumption DEF CallTypes, Calls!O, Calls!V, ParamSets

LEMMA SetSizes ==
  ASSUME CallTypes
  PROVE  /\ Calls!O \in Nat \ {0} /\ Calls!V \in Nat \ {0} /\ Calls!O <= Calls!V /\ Calls!V > 15
         /\ Calls!PerByte \in {1, 2}
         /\ Calls!OByte \in Nat /\ Calls!VByte \in Nat /\ 32 <= Calls!OByte /\ 32 <= Calls!VByte
         /\ Calls!PerByte * Calls!OByte = Calls!O /\ Calls!PerByte * Calls!VByte = Calls!V
         /\ set.gf = 16 => Calls!PerByte = 2
         /\ set.gf # 16 => Calls!PerByte = 1 /\ set.gf = 256
         /\ Calls!OByte <= Calls!MaxOByte /\ Calls!O <= Calls!MaxO /\ Calls!V <= Calls!MaxV
         /\ Calls!O * Calls!VByte <= Calls!MaxV * Calls!MaxOByte
         /\ Calls!MaxO \in Nat /\ Calls!MaxOByte \in Nat /\ Calls!MaxV \in Nat /\ Calls!OByte <= 256
         /\ Calls!VByte <= (Calls!V + Calls!O) \div Calls!PerByte
         /\ Calls!Register \in {16, 32}
         /\ row \in 0 .. Calls!V - 1 /\ col \in 0 .. Calls!O - 1
<1>1. row \in 0 .. Calls!V - 1 /\ col \in 0 .. Calls!O - 1
  BY SetCases, BuildsAssumption DEF CallTypes
<1>2. Calls!Register \in {16, 32}
  BY DEF Calls!Register
<1>3. CASE set.gf = 16 /\ Calls!O = 64 /\ Calls!V = 96
  <2>1. Calls!PerByte = 2 /\ Calls!OByte = 32 /\ Calls!VByte = 48 /\ Calls!MaxO = 64
          /\ Calls!MaxOByte = 32 /\ Calls!MaxV = 96
    BY <1>3 DEF Calls!PerByte, Calls!OByte, Calls!VByte, Calls!MaxO, Calls!MaxOByte, Calls!MaxV
  <2> QED BY <1>1, <1>2, <1>3, <2>1
<1>4. CASE set.gf = 256 /\ Calls!O = 45 /\ Calls!V = 74
  <2>1. Calls!PerByte = 1 /\ Calls!OByte = 45 /\ Calls!VByte = 74 /\ Calls!MaxO = 96
          /\ Calls!MaxOByte = 96 /\ Calls!MaxV = 163
    BY <1>4 DEF Calls!PerByte, Calls!OByte, Calls!VByte, Calls!MaxO, Calls!MaxOByte, Calls!MaxV
  <2> QED BY <1>1, <1>2, <1>4, <2>1
<1>5. CASE set.gf = 256 /\ Calls!O = 72 /\ Calls!V = 121
  <2>1. Calls!PerByte = 1 /\ Calls!OByte = 72 /\ Calls!VByte = 121 /\ Calls!MaxO = 96
          /\ Calls!MaxOByte = 96 /\ Calls!MaxV = 163
    BY <1>5 DEF Calls!PerByte, Calls!OByte, Calls!VByte, Calls!MaxO, Calls!MaxOByte, Calls!MaxV
  <2> QED BY <1>1, <1>2, <1>5, <2>1
<1>6. CASE set.gf = 256 /\ Calls!O = 96 /\ Calls!V = 163
  <2>1. Calls!PerByte = 1 /\ Calls!OByte = 96 /\ Calls!VByte = 163 /\ Calls!MaxO = 96
          /\ Calls!MaxOByte = 96 /\ Calls!MaxV = 163
    BY <1>6 DEF Calls!PerByte, Calls!OByte, Calls!VByte, Calls!MaxO, Calls!MaxOByte, Calls!MaxV
  <2> QED BY <1>1, <1>2, <1>6, <2>1
<1> QED BY <1>3, <1>4, <1>5, <1>6, SetCases

(* Long columns, and no more of them than a table holds, suit every function. *)
LEMMA ContractMet ==
  ASSUME NEW k, NEW v \in Nat, NEW n \in Nat, NEW w \in {16, 32}, NEW room, 32 <= v,
         n <= room \/ k \notin Calls!OwnTab16
  PROVE  Calls!Contract(k, v, n, w, room)
<1>1. v >= w /\ v >= w \div 2
  OBVIOUS
<1> QED BY <1>1 DEF Calls!Contract, Calls!OwnTab16

-----------------------------------------------------------------------------
(* What CallsKeepContract and OperandsRight ask of a product. *)
Kept(x) ==
  /\ Calls!Contract(x.kernel, x.vec, x.n, Calls!Register, Calls!V)
  /\ x.vec <= x.out
  /\ site \in {"trimatTr", "2trimat"} => x.n * x.vec <= Calls!MaxV * Calls!MaxOByte
  /\ site = "trimat" => Calls!O * Calls!VByte <= Calls!MaxV * Calls!MaxOByte
WantedOf(n, q) ==
  CASE site = "trimat" -> (Calls!PerByte * col * Calls!VByte) + row + q
    [] site \in {"trimatTr", "2trimat"} -> (Calls!PerByte * col * Calls!VByte) + q
    [] site = "upper" -> (Calls!PerByte * row * Calls!VByte) + q
    [] site = "quad" /\ n = Calls!V - row -> row + q
    [] site = "quad" /\ n # Calls!V - row ->
         LET i == CHOOSE r \in row .. Calls!V - 1 : /\ Calls!Triangle(r) - Calls!Triangle(row) <= q
                                              /\ q < Calls!Triangle(r + 1) - Calls!Triangle(row)
         IN (i * Calls!V) + i + (q - (Calls!Triangle(i) - Calls!Triangle(row)))
    [] OTHER -> q
Met(x) == \A q \in 0 .. x.n - 1 : x.b[q] = WantedOf(x.n, q)

LEMMA RightCall ==
  ASSUME UNCHANGED <<set, be, multab, site, row, col>>, Kept(call'), Met(call')
  PROVE  Calls!CallsKeepContract' /\ Calls!OperandsRight'
<1>1. /\ Calls!V' = Calls!V /\ Calls!O' = Calls!O /\ Calls!VByte' = Calls!VByte
      /\ Calls!PerByte' = Calls!PerByte /\ Calls!MaxV' = Calls!MaxV
      /\ Calls!MaxOByte' = Calls!MaxOByte
      /\ Calls!Register' = Calls!Register
  BY DEF Calls!V, Calls!O, Calls!VByte, Calls!PerByte, Calls!MaxV, Calls!MaxOByte, Calls!Register
<1>2. Calls!CallsKeepContract'
  BY <1>1 DEF Calls!CallsKeepContract, Kept
<1>3. \A q : Calls!Wanted(q)' = WantedOf(call.n', q)
  BY <1>1 DEF Calls!Wanted, WantedOf, Calls!Triangle
<1>4. Calls!OperandsRight'
  BY <1>3 DEF Calls!OperandsRight, Met
<1> QED BY <1>2, <1>4

(* A product with the sizes of a vector of the scheme. *)
LEMMA KeptIf ==
  ASSUME CallTypes, NEW x, x.n \in Nat, x.vec \in Nat, 32 <= x.vec, x.vec <= x.out,
         x.n <= Calls!V \/ x.kernel \notin Calls!OwnTab16,
         site \in {"trimatTr", "2trimat"} => x.n <= Calls!V /\ x.vec = Calls!OByte
  PROVE  Kept(x)
<1>1. Calls!Contract(x.kernel, x.vec, x.n, Calls!Register, Calls!V)
  <2>1. Calls!Register \in {16, 32}
    BY SetSizes
  <2> QED BY <2>1, ContractMet, Zenon
<1>2. ASSUME x.n <= Calls!V, x.vec = Calls!OByte PROVE x.n * x.vec <= Calls!MaxV * Calls!MaxOByte
  <2>1. x.n <= Calls!MaxV /\ x.n \in Nat /\ Calls!MaxV \in Nat /\ Calls!OByte \in Nat
          /\ Calls!MaxOByte \in Nat /\ Calls!OByte <= Calls!MaxOByte
    BY <1>2, SetSizes
  <2>2. x.n * Calls!OByte <= Calls!MaxV * Calls!OByte
    BY <2>1
  <2>3. Calls!MaxV * Calls!OByte <= Calls!MaxV * Calls!MaxOByte
    BY <2>1
  <2>4. x.n * Calls!OByte \in Nat /\ Calls!MaxV * Calls!OByte \in Nat
          /\ Calls!MaxV * Calls!MaxOByte \in Nat
    BY <2>1
  <2> QED BY <1>2, <2>2, <2>3, <2>4
<1> QED BY <1>1, <1>2, SetSizes DEF Kept

(* A position in the j-th vinegar vector of B. *)
LEMMA Position ==
  ASSUME CallTypes, NEW j \in 0 .. Calls!O - 1, NEW p \in 0 .. Calls!V - 1
  PROVE  /\ (j * Calls!V) + p \in Nat /\ (j * Calls!V) + p < Calls!O * Calls!V
         /\ ((j * Calls!V) + p) % Calls!V = p
         /\ Calls!O * Calls!V = Calls!O * Calls!VByte * Calls!PerByte
         /\ Calls!VByte * Calls!PerByte = Calls!V /\ Calls!PerByte * j * Calls!VByte = j * Calls!V
<1>1. Calls!O \in Nat /\ Calls!V \in Nat \ {0} /\ Calls!VByte \in Nat /\ Calls!PerByte \in {1, 2}
        /\ Calls!PerByte * Calls!VByte = Calls!V
  BY SetSizes
<1>2. j * Calls!V \in Nat /\ (j + 1) * Calls!V <= Calls!O * Calls!V
        /\ (j + 1) * Calls!V = (j * Calls!V) + Calls!V /\ Calls!O * Calls!V \in Nat
  BY <1>1
<1>3. (j * Calls!V) + p \in Nat /\ (j * Calls!V) + p < Calls!O * Calls!V
  <2> DEFINE a == j * Calls!V
             d == (j + 1) * Calls!V
             e == Calls!O * Calls!V
  <2>1. a \in Nat /\ d <= e /\ d = a + Calls!V /\ e \in Nat
    BY <1>2
  <2> HIDE DEF a, d, e
  <2>2. a + p \in Nat /\ a + p < e
    BY <1>1, <2>1
  <2> QED BY <2>2 DEF a, e
<1>4. ((j * Calls!V) + p) % Calls!V = p
  BY <1>1, DivUnique
<1>5. Calls!O * Calls!V = Calls!O * Calls!VByte * Calls!PerByte
        /\ Calls!VByte * Calls!PerByte = Calls!V /\ Calls!PerByte * j * Calls!VByte = j * Calls!V
  <2>1. Calls!PerByte = 1 \/ Calls!PerByte = 2
    BY <1>1
  <2>2. CASE Calls!PerByte = 1
    <3>1. Calls!VByte = Calls!V
      BY <1>1, <2>2
    <3> QED BY <1>1, <2>2, <3>1
  <2>3. CASE Calls!PerByte = 2
    <3>1. Calls!V = 2 * Calls!VByte
      BY <1>1, <2>3
    <3>2. Calls!O * (2 * Calls!VByte) = (Calls!O * Calls!VByte) * 2
            /\ (2 * j) * Calls!VByte = j * (2 * Calls!VByte)
      BY <1>1
    <3> QED BY <1>1, <2>3, <3>1, <3>2
  <2> QED BY <2>1, <2>2, <2>3
<1> QED BY <1>3, <1>4, <1>5

LEMMA Elements ==
  ASSUME CallTypes, NEW j \in 0 .. Calls!O - 1, NEW p \in 0 .. Calls!V - 1
  PROVE  /\ Calls!InB(Calls!O, (j * Calls!V) + p) = (j * Calls!V) + p
         /\ p # Calls!V - 1 => Calls!Shifted(Calls!O, (j * Calls!V) + p) = (j * Calls!V) + p + 1
<1> DEFINE a == (j * Calls!V) + p
<1>1. /\ a \in Nat /\ a < Calls!O * Calls!V /\ a % Calls!V = p
      /\ Calls!O * Calls!V = Calls!O * Calls!VByte * Calls!PerByte
      /\ Calls!VByte * Calls!PerByte = Calls!V /\ Calls!O \in Nat /\ Calls!V \in Nat
  BY Position, SetSizes
<1>2. Calls!InB(Calls!O, a) = a
  <2> HIDE DEF a
  <2> QED BY <1>1 DEF Calls!InB
<1>3. p # Calls!V - 1 => Calls!Shifted(Calls!O, a) = a + 1
  <2> HIDE DEF a
  <2>1. Calls!O * Calls!V \in Nat
    BY <1>1
  <2> QED BY <1>1, <2>1 DEF Calls!Shifted
<1> QED BY <1>2, <1>3

(* The caller's stride of a table is the generator's. *)
LEMMA Tables ==
  ASSUME NEW n \in Nat, NEW index \in Nat, NEW q \in Nat, index + q < n
  PROVE  Calls!Tabulated(n, index, q) = index + q
<1> DEFINE d == Calls!Stride
<1>1. d \in Nat \ {0} /\ Calls!MultabStride = d
  BY DEF Calls!Stride, Calls!MultabStride
<1> HIDE DEF d
<1>2. (index * d) + (q * d) = ((index + q) * d) + 0 /\ index + q \in Nat
  BY <1>1
<1>3. (((index + q) * d) + 0) % d = 0 /\ (((index + q) * d) + 0) \div d = index + q
  BY <1>1, DivUnique
<1>4. Calls!Tabulated(n, index, q) = IF (((index + q) * d) + 0) % d = 0
        /\ (((index + q) * d) + 0) \div d < n
                               THEN (((index + q) * d) + 0) \div d ELSE Calls!Beyond
  <2>1. Calls!Tabulated(n, index, q) = IF ((index * d) + (q * d)) % d = 0
          /\ ((index * d) + (q * d)) \div d < n
                               THEN ((index * d) + (q * d)) \div d ELSE Calls!Beyond
    BY <1>1 DEF Calls!Tabulated, d
  <2> QED BY <1>2, <2>1
<1> QED BY <1>3, <1>4


Still == UNCHANGED <<set, be, multab, site, row, col>>
Right == Calls!CallsKeepContract' /\ Calls!OperandsRight'

(* The two demands on a product, from its parts. *)
LEMMA RightProduct ==
  ASSUME CallTypes, Still, NEW k, NEW vec \in Nat, NEW n \in Nat, NEW out, NEW b,
         call' = [kernel |-> k, vec |-> vec, n |-> n, out |-> out, b |-> b],
         32 <= vec, vec <= out, n <= Calls!V \/ k \notin Calls!OwnTab16,
         site \in {"trimatTr", "2trimat"} => n <= Calls!V /\ vec = Calls!OByte,
         \A q \in 0 .. n - 1 : b[q] = WantedOf(n, q)
  PROVE  Right
<1> DEFINE x == [kernel |-> k, vec |-> vec, n |-> n, out |-> out, b |-> b]
<1>1. x.kernel = k /\ x.vec = vec /\ x.n = n /\ x.out = out /\ x.b = b /\ call' = x
  OBVIOUS
<1> HIDE DEF x
<1>2. Kept(x)
  BY <1>1, KeptIf
<1>3. Met(x)
  BY <1>1 DEF Met
<1> QED BY <1>1, <1>2, <1>3, RightCall DEF Still, Right

LEMMA TrimatRight ==
  ASSUME CallTypes, Still, call = Calls!None,
         \/ Calls!batch_trimat_madd_gf16 \/ Calls!batch_trimat_madd_gf256
         \/ Calls!batch_trimat_madd_multab_gf16 \/ Calls!batch_trimat_madd_multab_gf256
  PROVE  Right
<1>1. site = "trimat"
  BY DEF Calls!batch_trimat_madd_gf16, Calls!batch_trimat_madd_gf256,
     Calls!batch_trimat_madd_multab_gf16,
     Calls!batch_trimat_madd_multab_gf256, Calls!At
<1>2. /\ Calls!O \in Nat \ {0} /\ Calls!V \in Nat \ {0} /\ Calls!PerByte \in {1, 2}
      /\ Calls!VByte \in Nat /\ Calls!PerByte * Calls!VByte = Calls!V
      /\ Calls!OByte \in Nat /\ 32 <= Calls!OByte /\ Calls!OByte <= Calls!MaxOByte
      /\ row \in 0 .. Calls!V - 1 /\ col \in 0 .. Calls!O - 1
      /\ (set.gf = 16 => Calls!PerByte = 2)
  BY SetSizes
<1>3. Calls!V - row \in Nat /\ Calls!V - row <= Calls!V
  BY <1>2
<1>4. ASSUME NEW q \in 0 .. (Calls!V - row) - 1
      PROVE  /\ row + q \in 0 .. Calls!V - 1
             /\ WantedOf(Calls!V - row, q) = (col * Calls!V) + (row + q)
             /\ (col * Calls!V) + row + q = (col * Calls!V) + (row + q)
  <2>1. row + q \in 0 .. Calls!V - 1
    BY <1>2
  <2>2. Calls!PerByte * col * Calls!VByte = col * Calls!V
    BY <1>2, <2>1, Position
  <2>3. WantedOf(Calls!V - row, q) = (Calls!PerByte * col * Calls!VByte) + row + q
    BY <1>1 DEF WantedOf
  <2>4. col * Calls!V \in Nat
    BY <1>2
  <2>5. (col * Calls!V) + row + q = (col * Calls!V) + (row + q)
    BY <1>2, <2>4
  <2> QED BY <2>1, <2>2, <2>3, <2>5
<1>5. ASSUME NEW k, NEW b, call' = [kernel |-> k, vec |-> Calls!OByte, n |-> Calls!V - row,
               out |-> Calls!MaxOByte, b |-> b],
             \A q \in 0 .. (Calls!V - row) - 1 : b[q] = (col * Calls!V) + (row + q)
      PROVE  Right
  <2>1. \A q \in 0 .. (Calls!V - row) - 1 : b[q] = WantedOf(Calls!V - row, q)
    BY <1>4, <1>5
  <2> QED BY <1>1, <1>2, <1>3, <1>5, <2>1, RightProduct
<1>6. CASE Calls!batch_trimat_madd_gf16
  <2> DEFINE from == 2 * ((col * Calls!VByte) + (Calls!Even \div 2))
             b == [q \in 0 .. (Calls!V - row) - 1 |-> IF row = Calls!Even THEN Calls!InB(Calls!O,
               from + q) ELSE Calls!Shifted(Calls!O, from + q)]
  <2>1. /\ call' = [kernel |-> Calls!gfmat_prod, vec |-> Calls!OByte, n |-> Calls!V - row,
             out |-> Calls!MaxOByte, b |-> b]
        /\ set.gf = 16
    BY <1>6 DEF Calls!batch_trimat_madd_gf16, Calls!Product, Calls!At
  <2>2. ASSUME NEW q \in 0 .. (Calls!V - row) - 1 PROVE b[q] = (col * Calls!V) + (row + q)
    <3>1. Calls!Even \in {row, row - 1} /\ Calls!Even \in Nat
            /\ Calls!Even = 2 * (Calls!Even \div 2)
      BY <1>2 DEF Calls!Even
    <3>2. from = (col * Calls!V) + Calls!Even
      <4>1. Calls!V = 2 * Calls!VByte
        BY <1>2, <2>1
      <4>2. 2 * (col * Calls!VByte) = col * (2 * Calls!VByte)
        BY <1>2
      <4> DEFINE e == Calls!Even \div 2
                 p == col * Calls!VByte
      <4>3. e \in Int /\ p \in Int /\ Calls!Even = 2 * e
        BY <1>2, <3>1
      <4> HIDE DEF e, p
      <4>4. 2 * (p + e) = (2 * p) + (2 * e)
        BY <4>3
      <4> QED BY <4>1, <4>2, <4>3, <4>4 DEF e, p
    <3> HIDE DEF from
    <3>3. b[q] = IF row = Calls!Even THEN Calls!InB(Calls!O,
            from + q) ELSE Calls!Shifted(Calls!O, from + q)
      OBVIOUS
    <3>4. col * Calls!V \in Nat
      BY <1>2
    <3>5. CASE row = Calls!Even
      <4>1. from + q = (col * Calls!V) + (row + q)
        BY <1>2, <3>2, <3>4, <3>5
      <4>2. Calls!InB(Calls!O, (col * Calls!V) + (row + q)) = (col * Calls!V) + (row + q)
        BY <1>2, <1>4, Elements
      <4> QED BY <3>3, <3>5, <4>1, <4>2
    <3>6. CASE row # Calls!Even
      <4>1. from + q = (col * Calls!V) + ((row + q) - 1) /\ (row + q) - 1 \in 0 .. Calls!V - 1
              /\ (row + q) - 1 # Calls!V - 1
            /\ (col * Calls!V) + ((row + q) - 1) + 1 = (col * Calls!V) + (row + q)
        BY <1>2, <3>1, <3>2, <3>4, <3>6
      <4>2. Calls!Shifted(Calls!O,
              (col * Calls!V) + ((row + q) - 1)) = (col * Calls!V) + ((row + q) - 1) + 1
        BY <1>2, <4>1, Elements
      <4> QED BY <3>3, <3>6, <4>1, <4>2
    <3> QED BY <3>5, <3>6
  <2> HIDE DEF b
  <2> QED BY <1>5, <2>1, <2>2
<1>7. CASE Calls!batch_trimat_madd_gf256
  <2> DEFINE b == [q \in 0 .. (Calls!V - row) - 1 |-> Calls!InB(Calls!O,
               (col * Calls!VByte) + row + q)]
  <2>1. /\ call' = [kernel |-> Calls!gfmat_prod, vec |-> Calls!OByte, n |-> Calls!V - row,
             out |-> Calls!MaxOByte, b |-> b]
        /\ set.gf = 256
    BY <1>7 DEF Calls!batch_trimat_madd_gf256, Calls!Product, Calls!At
  <2>2. ASSUME NEW q \in 0 .. (Calls!V - row) - 1 PROVE b[q] = (col * Calls!V) + (row + q)
    <3>1. Calls!VByte = Calls!V
      BY <2>1, SetSizes
    <3>2. Calls!InB(Calls!O, (col * Calls!V) + (row + q)) = (col * Calls!V) + (row + q)
      BY <1>2, <1>4, Elements
    <3> QED BY <1>4, <3>1, <3>2
  <2> HIDE DEF b
  <2> QED BY <1>5, <2>1, <2>2
<1>8. CASE Calls!batch_trimat_madd_multab_gf16 \/ Calls!batch_trimat_madd_multab_gf256
  <2> DEFINE b == [q \in 0 .. (Calls!V - row) - 1 |-> Calls!Tabulated(Calls!V * Calls!O,
               (col * Calls!V) + row, q)]
  <2>1. call' = [kernel |-> Calls!gfmat_prod_multab, vec |-> Calls!OByte, n |-> Calls!V - row,
          out |-> Calls!MaxOByte, b |-> b]
    BY <1>8 DEF Calls!batch_trimat_madd_multab_gf16, Calls!batch_trimat_madd_multab_gf256,
       Calls!TrimatTable, Calls!Product
  <2>2. ASSUME NEW q \in 0 .. (Calls!V - row) - 1 PROVE b[q] = (col * Calls!V) + (row + q)
    <3>1. (col * Calls!V) + (row + q) < Calls!O * Calls!V
            /\ Calls!O * Calls!V = Calls!V * Calls!O /\ Calls!V * Calls!O \in Nat
            /\ (col * Calls!V) + row \in Nat /\ q \in Nat
      BY <1>2, <1>4, Position
    <3>2. Calls!Tabulated(Calls!V * Calls!O, (col * Calls!V) + row, q) = (col * Calls!V) + row + q
      BY <1>4, <3>1, Tables
    <3> QED BY <1>4, <3>2
  <2> HIDE DEF b
  <2> QED BY <1>5, <2>1, <2>2
<1> QED BY <1>6, <1>7, <1>8

(* Columns copied, against a column of B from its first element on. *)
LEMMA CopiedRight ==
  ASSUME CallTypes, Still, site \in {"trimatTr", "2trimat"}, NEW n \in 0 .. Calls!V,
         Calls!Copied(n) \/ Calls!CopiedTable(n)
  PROVE  Right
<1>1. /\ Calls!O \in Nat \ {0} /\ Calls!V \in Nat \ {0} /\ Calls!OByte \in Nat
      /\ 32 <= Calls!OByte /\ Calls!OByte <= Calls!MaxOByte
      /\ col \in 0 .. Calls!O - 1 /\ Calls!VByte \in Nat /\ Calls!PerByte \in {1, 2}
  BY SetSizes
<1>2. ASSUME NEW q \in 0 .. n - 1
      PROVE  /\ q \in 0 .. Calls!V - 1 /\ WantedOf(n, q) = (col * Calls!V) + q
             /\ Calls!PerByte * col * Calls!VByte = col * Calls!V
  <2>1. q \in 0 .. Calls!V - 1
    BY <1>1
  <2>2. Calls!PerByte * col * Calls!VByte = col * Calls!V
    BY <1>1, <2>1, Position
  <2>3. WantedOf(n, q) = (Calls!PerByte * col * Calls!VByte) + q
    BY DEF WantedOf
  <2> QED BY <2>1, <2>2, <2>3
<1>3. ASSUME NEW k, NEW b, call' = [kernel |-> k, vec |-> Calls!OByte, n |-> n,
               out |-> Calls!MaxOByte, b |-> b],
             \A q \in 0 .. n - 1 : b[q] = (col * Calls!V) + q
      PROVE  Right
  <2>1. \A q \in 0 .. n - 1 : b[q] = WantedOf(n, q)
    BY <1>2, <1>3
  <2>2. n \in Nat /\ n <= Calls!V
    BY <1>1
  <2> QED BY <1>1, <1>3, <2>1, <2>2, RightProduct
<1>4. CASE Calls!Copied(n)
  <2> DEFINE b == [q \in 0 .. n - 1 |-> Calls!InB(Calls!O, (Calls!PerByte * col * Calls!VByte) + q)]
  <2>1. call' = [kernel |-> Calls!gfmat_prod, vec |-> Calls!OByte, n |-> n,
          out |-> Calls!MaxOByte, b |-> b]
    BY <1>4 DEF Calls!Copied, Calls!Product
  <2>2. ASSUME NEW q \in 0 .. n - 1 PROVE b[q] = (col * Calls!V) + q
    <3>1. Calls!InB(Calls!O, (col * Calls!V) + q) = (col * Calls!V) + q
      BY <1>1, <1>2, Elements
    <3> QED BY <1>2, <3>1
  <2> HIDE DEF b
  <2> QED BY <1>3, <2>1, <2>2
<1>5. CASE Calls!CopiedTable(n)
  <2> DEFINE b == [q \in 0 .. n - 1 |-> Calls!Tabulated(Calls!V * Calls!O, col * Calls!V, q)]
  <2>1. call' = [kernel |-> Calls!gfmat_prod_multab, vec |-> Calls!OByte, n |-> n,
          out |-> Calls!MaxOByte, b |-> b]
    BY <1>5 DEF Calls!CopiedTable, Calls!Product
  <2>2. ASSUME NEW q \in 0 .. n - 1 PROVE b[q] = (col * Calls!V) + q
    <3>1. (col * Calls!V) + q < Calls!O * Calls!V /\ Calls!O * Calls!V = Calls!V * Calls!O
            /\ Calls!V * Calls!O \in Nat /\ col * Calls!V \in Nat /\ q \in Nat
      BY <1>1, <1>2, Position
    <3>2. Calls!Tabulated(Calls!V * Calls!O, col * Calls!V, q) = (col * Calls!V) + q
      BY <3>1, Tables
    <3> QED BY <3>2
  <2> HIDE DEF b
  <2> QED BY <1>3, <2>1, <2>2
<1> QED BY <1>4, <1>5

LEMMA TrimatTrRight ==
  ASSUME CallTypes, Still,
         \/ Calls!batch_trimatTr_madd_gf16 \/ Calls!batch_trimatTr_madd_gf256
         \/ Calls!batch_trimatTr_madd_multab_gf16 \/ Calls!batch_trimatTr_madd_multab_gf256
         \/ Calls!batch_2trimat_madd_gf16 \/ Calls!batch_2trimat_madd_gf256
         \/ Calls!batch_2trimat_madd_multab_gf16 \/ Calls!batch_2trimat_madd_multab_gf256
  PROVE  Right
<1>1. /\ site \in {"trimatTr", "2trimat"}
      /\ Calls!Copied(row + 1) \/ Calls!CopiedTable(row + 1) \/ Calls!Copied(Calls!V)
           \/ Calls!CopiedTable(Calls!V)
  BY DEF Calls!At, Calls!batch_trimatTr_madd_gf16, Calls!batch_trimatTr_madd_gf256,
     Calls!batch_trimatTr_madd_multab_gf16,
         Calls!batch_trimatTr_madd_multab_gf256, Calls!batch_2trimat_madd_gf16,
            Calls!batch_2trimat_madd_gf256,
         Calls!batch_2trimat_madd_multab_gf16, Calls!batch_2trimat_madd_multab_gf256
<1>2. Calls!V \in 0 .. Calls!V /\ row + 1 \in 0 .. Calls!V
  BY SetSizes
<1> QED BY <1>1, <1>2, CopiedRight

LEMMA UpperRight ==
  ASSUME CallTypes, Still,
         \/ Calls!batch_upper_matTr_x_mat_gf16 \/ Calls!batch_upper_matTr_x_mat_gf256
         \/ Calls!batch_upper_matTr_x_mat_multab_gf16 \/ Calls!batch_upper_matTr_x_mat_multab_gf256
  PROVE  Right
<1>1. site = "upper" /\ (Calls!WholeRow \/ Calls!WholeRowTable) /\ row < Calls!O
  BY DEF Calls!At, Calls!batch_upper_matTr_x_mat_gf16, Calls!batch_upper_matTr_x_mat_gf256,
     Calls!WholeRow, Calls!WholeRowTable,
         Calls!batch_upper_matTr_x_mat_multab_gf16, Calls!batch_upper_matTr_x_mat_multab_gf256
<1>2. /\ Calls!O \in Nat \ {0} /\ Calls!V \in Nat \ {0} /\ Calls!OByte \in Nat
      /\ 32 <= Calls!OByte /\ Calls!OByte <= Calls!MaxOByte
      /\ row \in 0 .. Calls!O - 1 /\ Calls!VByte \in Nat /\ Calls!PerByte \in {1, 2}
      /\ Calls!O <= Calls!MaxO /\ Calls!MaxO \in Nat /\ Calls!MaxOByte \in Nat
  BY <1>1, SetSizes
<1>3. Calls!O * Calls!OByte \in Nat /\ 32 <= Calls!O * Calls!OByte
        /\ Calls!O * Calls!OByte <= Calls!MaxO * Calls!MaxOByte
  <2>1. 1 * Calls!OByte <= Calls!O * Calls!OByte
    BY <1>2
  <2>2. Calls!O * Calls!OByte <= Calls!MaxO * Calls!OByte
          /\ Calls!MaxO * Calls!OByte <= Calls!MaxO * Calls!MaxOByte
    BY <1>2
  <2>3. Calls!O * Calls!OByte \in Nat /\ Calls!MaxO * Calls!OByte \in Nat
          /\ Calls!MaxO * Calls!MaxOByte \in Nat
    BY <1>2
  <2> QED BY <1>2, <2>1, <2>2, <2>3
<1>4. ASSUME NEW q \in 0 .. Calls!V - 1
      PROVE  WantedOf(Calls!V, q) = (row * Calls!V) + q
               /\ Calls!PerByte * row * Calls!VByte = row * Calls!V
  <2>1. Calls!PerByte * row * Calls!VByte = row * Calls!V
    BY <1>2, Position
  <2>2. WantedOf(Calls!V, q) = (Calls!PerByte * row * Calls!VByte) + q
    BY <1>1 DEF WantedOf
  <2> QED BY <2>1, <2>2
<1>5. ASSUME NEW k, NEW b,
             call' = [kernel |-> k, vec |-> Calls!O * Calls!OByte, n |-> Calls!V,
               out |-> Calls!MaxO * Calls!MaxOByte, b |-> b],
             \A q \in 0 .. Calls!V - 1 : b[q] = (row * Calls!V) + q
      PROVE  Right
  <2>1. \A q \in 0 .. Calls!V - 1 : b[q] = WantedOf(Calls!V, q)
    BY <1>4, <1>5
  <2> DEFINE vec == Calls!O * Calls!OByte
             out == Calls!MaxO * Calls!MaxOByte
  <2>2. vec \in Nat /\ 32 <= vec /\ vec <= out /\ Calls!V \in Nat /\ Calls!V <= Calls!V
    BY <1>2, <1>3
  <2>3. call' = [kernel |-> k, vec |-> vec, n |-> Calls!V, out |-> out, b |-> b]
    BY <1>5
  <2> HIDE DEF vec, out
  <2> QED BY <1>1, <2>1, <2>2, <2>3, RightProduct
<1>6. CASE Calls!WholeRow
  <2> DEFINE b == [q \in 0 .. Calls!V - 1 |-> Calls!InB(Calls!O,
               (Calls!PerByte * row * Calls!VByte) + q)]
  <2>1. call' = [kernel |-> Calls!gfmat_prod, vec |-> Calls!O * Calls!OByte, n |-> Calls!V,
          out |-> Calls!MaxO * Calls!MaxOByte, b |-> b]
    BY <1>6 DEF Calls!WholeRow, Calls!Product
  <2>2. ASSUME NEW q \in 0 .. Calls!V - 1 PROVE b[q] = (row * Calls!V) + q
    <3>1. Calls!InB(Calls!O, (row * Calls!V) + q) = (row * Calls!V) + q
      BY <1>2, Elements
    <3> QED BY <1>4, <3>1
  <2> HIDE DEF b
  <2> QED BY <1>5, <2>1, <2>2
<1>7. CASE Calls!WholeRowTable
  <2> DEFINE b == [q \in 0 .. Calls!V - 1 |-> Calls!Tabulated(Calls!V * Calls!O, row * Calls!V, q)]
  <2>1. call' = [kernel |-> Calls!gfmat_prod_multab, vec |-> Calls!O * Calls!OByte,
          n |-> Calls!V, out |-> Calls!MaxO * Calls!MaxOByte, b |-> b]
    BY <1>7 DEF Calls!WholeRowTable, Calls!Product
  <2>2. ASSUME NEW q \in 0 .. Calls!V - 1 PROVE b[q] = (row * Calls!V) + q
    <3>1. (row * Calls!V) + q < Calls!O * Calls!V /\ Calls!O * Calls!V = Calls!V * Calls!O
            /\ Calls!V * Calls!O \in Nat /\ row * Calls!V \in Nat /\ q \in Nat
      BY <1>2, Position
    <3>2. Calls!Tabulated(Calls!V * Calls!O, row * Calls!V, q) = (row * Calls!V) + q
      BY <3>1, Tables
    <3> QED BY <3>2
  <2> HIDE DEF b
  <2> QED BY <1>5, <2>1, <2>2
<1> QED BY <1>1, <1>6, <1>7


(* What a recursion over 0 .. N defines, for a step given as a function.   *)
IsRec(N, T, a, h, g) ==
  /\ g \in [0 .. N -> T]
  /\ g[0] = a
  /\ \A k \in 0 .. N - 1 : g[k + 1] = h[k][g[k]]

(* A recursion whose steps stay in T has a value at each point of 0 .. N. *)
LEMMA RecExists ==
  ASSUME NEW N \in Nat, NEW T, NEW a \in T, NEW h \in [0 .. N - 1 -> [T -> T]]
  PROVE  \E g : IsRec(N, T, a, h, g)
<1> DEFINE Unrolls(n, g) == g[0] = a /\ \A k \in 0 .. n - 1 : g[k + 1] = h[k][g[k]]
           Z == { n \in Nat : \E g \in [0 .. n -> T] : Unrolls(n, g) }
<1>1. 0 \in Z
  <2>1. Unrolls(0, [k \in 0 .. 0 |-> a])
    OBVIOUS
  <2> QED BY <2>1
<1>2. \A n \in 0 .. N - 1 : n \in Z => n + 1 \in Z
  <2>1. SUFFICES ASSUME NEW n \in 0 .. N - 1, n \in Z PROVE n + 1 \in Z
    OBVIOUS
  <2>2. PICK f \in [0 .. n -> T] : Unrolls(n, f)
    BY <2>1
  <2> DEFINE v == h[n][f[n]]
             g == [k \in 0 .. n + 1 |-> IF k <= n THEN f[k] ELSE v]
  <2>3. n \in Nat /\ v \in T
    BY <2>2
  <2> HIDE DEF v
  <2>4. g \in [0 .. n + 1 -> T] /\ g[0] = a
    BY <2>2, <2>3
  <2>5. \A k \in 0 .. (n + 1) - 1 : g[k + 1] = h[k][g[k]]
    <3>1. TAKE k \in 0 .. (n + 1) - 1
    <3>2. CASE k = n
      BY <2>3, <3>2 DEF v
    <3>3. CASE k # n
      <4>1. k \in 0 .. n - 1 /\ k <= n /\ k + 1 <= n /\ k \in 0 .. n + 1 /\ k + 1 \in 0 .. n + 1
        BY <2>3, <3>3
      <4> QED BY <2>2, <4>1
    <3> QED BY <3>2, <3>3
  <2> HIDE DEF g
  <2>6. Unrolls(n + 1, g)
    BY <2>4, <2>5
  <2> QED BY <2>3, <2>4, <2>6
<1>3. N \in Z
  <2> HIDE DEF Z
  <2>1. \A n \in 0 .. N : n \in Z
    BY <1>1, <1>2, InductionUpTo
  <2> QED BY <2>1
<1> QED BY <1>3 DEF IsRec

-----------------------------------------------------------------------------
(* An element of a vector on its own, by its place or one after it. *)
LEMMA ElementsOfOne ==
  ASSUME CallTypes, NEW p \in 0 .. Calls!V - 1
  PROVE  /\ Calls!InB(1, p) = p
         /\ p # Calls!V - 1 => Calls!Shifted(1, p) = p + 1
<1>1. Calls!VByte * Calls!PerByte = Calls!V /\ Calls!V \in Nat /\ p % Calls!V = p
  <2>1. Calls!V \in Nat \ {0} /\ Calls!VByte \in Nat /\ Calls!PerByte \in {1, 2}
          /\ Calls!PerByte * Calls!VByte = Calls!V
    BY SetSizes
  <2>2. ((0 * Calls!V) + p) % Calls!V = p
    BY <2>1, DivUnique
  <2> QED BY <2>1, <2>2
<1>2. 1 * Calls!VByte * Calls!PerByte = Calls!V /\ 1 * (Calls!VByte * Calls!PerByte) = Calls!V
  <2>1. Calls!VByte \in Nat
    BY SetSizes
  <2> QED BY <1>1, <2>1
<1> QED BY <1>1, <1>2 DEF Calls!InB, Calls!Shifted

LEMMA L1matRight ==
  ASSUME CallTypes, Still, Calls!ov_calc_l1_mat
  PROVE  Right
<1>1. /\ Calls!O \in Nat \ {0} /\ Calls!V \in Nat \ {0} /\ Calls!OByte \in Nat /\ 32 <= Calls!OByte
  BY SetSizes
<1>2. Calls!O * Calls!OByte \in Nat /\ 32 <= Calls!O * Calls!OByte
  <2>1. 1 * Calls!OByte <= Calls!O * Calls!OByte
    BY <1>1
  <2> QED BY <1>1, <2>1
<1>3. site = "l1mat"
  BY DEF Calls!ov_calc_l1_mat
<1>4. ASSUME NEW k, NEW b,
             call' = [kernel |-> k, vec |-> Calls!O * Calls!OByte, n |-> Calls!V,
               out |-> Calls!O * Calls!OByte, b |-> b],
             \A q \in 0 .. Calls!V - 1 : b[q] = q
      PROVE  Right
  <2>1. \A q \in 0 .. Calls!V - 1 : b[q] = WantedOf(Calls!V, q)
    BY <1>3, <1>4 DEF WantedOf
  <2> DEFINE vec == Calls!O * Calls!OByte
  <2>2. vec \in Nat /\ 32 <= vec /\ vec <= vec /\ Calls!V \in Nat /\ Calls!V <= Calls!V
    BY <1>1, <1>2
  <2>3. call' = [kernel |-> k, vec |-> vec, n |-> Calls!V, out |-> vec, b |-> b]
    BY <1>4
  <2> HIDE DEF vec
  <2> QED BY <1>3, <2>1, <2>2, <2>3, RightProduct
<1>5. CASE call' = Calls!Product(Calls!gfmat_prod_multab, Calls!O * Calls!OByte, Calls!V,
             Calls!O * Calls!OByte, LAMBDA q : Calls!Tabulated(Calls!V, 0, q))
  <2> DEFINE b == [q \in 0 .. Calls!V - 1 |-> Calls!Tabulated(Calls!V, 0, q)]
  <2>1. call' = [kernel |-> Calls!gfmat_prod_multab, vec |-> Calls!O * Calls!OByte,
          n |-> Calls!V, out |-> Calls!O * Calls!OByte, b |-> b]
    BY <1>5 DEF Calls!Product
  <2>2. ASSUME NEW q \in 0 .. Calls!V - 1 PROVE b[q] = q
    <3>1. q \in Nat /\ 0 + q < Calls!V /\ Calls!V \in Nat /\ 0 \in Nat /\ 0 + q = q
      BY <1>1
    <3>2. Calls!Tabulated(Calls!V, 0, q) = 0 + q
      BY <3>1, Tables
    <3> QED BY <3>1, <3>2
  <2> HIDE DEF b
  <2> QED BY <1>4, <2>1, <2>2
<1>6. CASE call' = Calls!Product(Calls!gfmat_prod, Calls!O * Calls!OByte, Calls!V,
             Calls!O * Calls!OByte, LAMBDA q : Calls!InB(1, q))
  <2> DEFINE b == [q \in 0 .. Calls!V - 1 |-> Calls!InB(1, q)]
  <2>1. call' = [kernel |-> Calls!gfmat_prod, vec |-> Calls!O * Calls!OByte, n |-> Calls!V,
          out |-> Calls!O * Calls!OByte, b |-> b]
    BY <1>6 DEF Calls!Product
  <2>2. ASSUME NEW q \in 0 .. Calls!V - 1 PROVE b[q] = q
    BY ElementsOfOne
  <2> HIDE DEF b
  <2> QED BY <1>4, <2>1, <2>2
<1> QED BY <1>5, <1>6 DEF Calls!ov_calc_l1_mat

LEMMA OilRight ==
  ASSUME CallTypes, Still, Calls!oil_part
  PROVE  Right
<1> DEFINE b == [q \in 0 .. Calls!O - 1 |-> IF q < Calls!O THEN q ELSE Calls!Beyond]
           out == (Calls!V + Calls!O) \div Calls!PerByte
<1>1. /\ Calls!O \in Nat /\ Calls!V \in Nat /\ Calls!O <= Calls!V /\ Calls!VByte \in Nat
      /\ 32 <= Calls!VByte /\ Calls!VByte <= out
  BY SetSizes
<1>2. site = "oil"
  BY DEF Calls!oil_part
<1>3. call' = [kernel |-> Calls!gfmat_prod, vec |-> Calls!VByte, n |-> Calls!O, out |-> out,
        b |-> b]
  BY DEF Calls!oil_part, Calls!Product
<1>4. ASSUME NEW q \in 0 .. Calls!O - 1 PROVE b[q] = WantedOf(Calls!O, q)
  BY <1>1, <1>2 DEF WantedOf
<1> HIDE DEF b, out
<1> QED BY <1>1, <1>2, <1>3, <1>4, RightProduct


(* A row of quadratic terms on its own. *)
LEMMA QuadRowRight ==
  ASSUME CallTypes, Still, site = "quad", NEW k, NEW out \in Int, Calls!OByte <= out, NEW b,
         call' = [kernel |-> k, vec |-> Calls!OByte, n |-> Calls!V - row, out |-> out, b |-> b],
         \A q \in 0 .. (Calls!V - row) - 1 : b[q] = row + q
  PROVE  Right
<1>1. /\ Calls!V \in Nat \ {0} /\ Calls!OByte \in Nat /\ 32 <= Calls!OByte
      /\ row \in 0 .. Calls!V - 1
  BY SetSizes
<1>2. Calls!V - row \in Nat /\ Calls!V - row <= Calls!V
  BY <1>1
<1>3. \A q \in 0 .. (Calls!V - row) - 1 : b[q] = WantedOf(Calls!V - row, q)
  BY DEF WantedOf
<1> QED BY <1>1, <1>2, <1>3, RightProduct

LEMMA QuadGf16Right ==
  ASSUME CallTypes, Still, Calls!batch_quad_trimat_eval_gf16
  PROVE  Right
<1> DEFINE b == [q \in 0 .. (Calls!V - row) - 1 |-> IF row = Calls!Even THEN Calls!InB(1,
             Calls!Even + q) ELSE Calls!Shifted(1, Calls!Even + q)]
<1>1. /\ Calls!V \in Nat \ {0} /\ Calls!OByte \in Nat /\ Calls!OByte <= Calls!MaxOByte
      /\ Calls!MaxOByte \in Nat /\ row \in 0 .. Calls!V - 1
  BY SetSizes
<1>2. site = "quad" /\ call' = [kernel |-> Calls!gfmat_prod, vec |-> Calls!OByte,
        n |-> Calls!V - row, out |-> Calls!MaxOByte, b |-> b]
  BY DEF Calls!batch_quad_trimat_eval_gf16, Calls!Product, Calls!At
<1>3. ASSUME NEW q \in 0 .. (Calls!V - row) - 1 PROVE b[q] = row + q
  <2>1. Calls!Even \in {row, row - 1} /\ Calls!Even \in Nat
    BY <1>1 DEF Calls!Even
  <2>2. b[q] = IF row = Calls!Even THEN Calls!InB(1, Calls!Even + q) ELSE Calls!Shifted(1,
          Calls!Even + q)
    OBVIOUS
  <2>3. row + q \in 0 .. Calls!V - 1
    BY <1>1
  <2>4. CASE row = Calls!Even
    BY <2>2, <2>3, <2>4, ElementsOfOne
  <2>5. CASE row # Calls!Even
    <3>1. Calls!Even + q \in 0 .. Calls!V - 1 /\ Calls!Even + q # Calls!V - 1
            /\ Calls!Even + q + 1 = row + q
      BY <1>1, <2>1, <2>5
    <3>2. Calls!Shifted(1, Calls!Even + q) = Calls!Even + q + 1
      BY <3>1, ElementsOfOne
    <3> QED BY <2>2, <2>5, <3>1, <3>2
  <2> QED BY <2>4, <2>5
<1> HIDE DEF b
<1> QED BY <1>1, <1>2, <1>3, QuadRowRight

LEMMA QuadTableRight ==
  ASSUME CallTypes, Still, Calls!batch_quad_trimat_eval_multab_gf16
           \/ Calls!batch_quad_trimat_eval_multab_gf256
  PROVE  Right
<1> DEFINE b == [q \in 0 .. (Calls!V - row) - 1 |-> Calls!Tabulated(Calls!V, row, q)]
<1>1. /\ Calls!V \in Nat \ {0} /\ Calls!OByte \in Nat /\ Calls!OByte <= 256
      /\ row \in 0 .. Calls!V - 1
  BY SetSizes
<1>2. /\ site = "quad" /\ 256 \in Int
      /\ call' = [kernel |-> Calls!gfmat_prod_multab, vec |-> Calls!OByte, n |-> Calls!V - row,
           out |-> 256, b |-> b]
  BY DEF Calls!batch_quad_trimat_eval_multab_gf16, Calls!batch_quad_trimat_eval_multab_gf256,
     Calls!QuadTable, Calls!Product, Calls!At
<1>3. ASSUME NEW q \in 0 .. (Calls!V - row) - 1 PROVE b[q] = row + q
  <2>1. row \in Nat /\ q \in Nat /\ Calls!V \in Nat /\ row + q < Calls!V
    BY <1>1
  <2> QED BY <2>1, Tables
<1> HIDE DEF b
<1> QED BY <1>1, <1>2, <1>3, QuadRowRight

-----------------------------------------------------------------------------
(* The tail of the triangle: the sizes of its first rows. *)
Above(r) == Calls!Triangle((Calls!V - Calls!TailRows) + r) - Calls!Triangle(Calls!V - Calls!TailRows)

LEMMA TriangleStep ==
  ASSUME NEW i \in Nat, Calls!V \in Nat
  PROVE  Calls!Triangle(i) \in Int /\ Calls!Triangle(i + 1) = Calls!Triangle(i) + (Calls!V - i)
<1> DEFINE x == i * (i - 1)
<1>1. x \in Int /\ (i + 1) * ((i + 1) - 1) = x + i * 2
  OBVIOUS
<1>2. (i + 1) * Calls!V = (i * Calls!V) + Calls!V /\ i * Calls!V \in Int
  OBVIOUS
<1> HIDE DEF x
<1>3. (x + i * 2) \div 2 = x \div 2 + i /\ x \div 2 \in Int
  <2>1. 2 \in Nat \ {0}
    OBVIOUS
  <2> QED BY <1>1, <2>1, DivShift, DivMod
<1>4. Calls!Triangle(i) = (i * Calls!V) - (x \div 2)
  BY DEF Calls!Triangle, x
<1>5. Calls!Triangle(i + 1) = ((i + 1) * Calls!V) - ((x + i * 2) \div 2)
  BY <1>1 DEF Calls!Triangle
<1> QED BY <1>2, <1>3, <1>4, <1>5

LEMMA AboveStep ==
  ASSUME Calls!V \in Nat, Calls!V > 15
  PROVE  /\ Above(0) = 0
         /\ \A r \in 0 .. 15 : Above(r) \in Int
         /\ \A r \in 0 .. 14 : Above(r + 1) = Above(r) + (15 - r)
<1> DEFINE i0 == Calls!V - Calls!TailRows
<1>1. i0 \in Nat /\ i0 = Calls!V - 15
  BY DEF Calls!TailRows
<1> HIDE DEF i0
<1>2. Calls!Triangle(i0) \in Int /\ i0 + 0 = i0
  BY <1>1, TriangleStep
<1>3. \A r : Above(r) = Calls!Triangle(i0 + r) - Calls!Triangle(i0)
  BY DEF Above, i0
<1>4. Above(0) = 0
  BY <1>2, <1>3
<1>5. ASSUME NEW r \in 0 .. 15
      PROVE  Above(r) \in Int /\ Above(r + 1) = Above(r) + (15 - r)
  <2>1. i0 + r \in Nat /\ (i0 + r) + 1 = i0 + (r + 1) /\ Calls!V - (i0 + r) = 15 - r
    BY <1>1
  <2>2. Calls!Triangle(i0 + r) \in Int
          /\ Calls!Triangle(i0 + (r + 1)) = Calls!Triangle(i0 + r) + (15 - r)
    BY <2>1, TriangleStep
  <2> QED BY <1>2, <1>3, <2>2
<1> QED BY <1>4, <1>5

LEMMA AboveTotal ==
  ASSUME Calls!V \in Nat, Calls!V > 15
  PROVE  Above(15) = 120
<1>1. /\ Above(0) = 0
      /\ \A r \in 0 .. 14 : Above(r + 1) = Above(r) + (15 - r)
  BY AboveStep
<1>2. Above(1) = 15 /\ Above(2) = 29 /\ Above(3) = 42 /\ Above(4) = 54
  <2>1. Above(0 + 1) = 15
    BY <1>1
  <2>2. Above(1 + 1) = Above(1) + 14
    BY <1>1
  <2>3. Above(2 + 1) = Above(2) + 13
    BY <1>1
  <2>4. Above(3 + 1) = Above(3) + 12
    BY <1>1
  <2> QED BY <2>1, <2>2, <2>3, <2>4
<1>3. Above(5) = 65 /\ Above(6) = 75 /\ Above(7) = 84 /\ Above(8) = 92
  <2>1. Above(4 + 1) = Above(4) + 11
    BY <1>1
  <2>2. Above(5 + 1) = Above(5) + 10
    BY <1>1
  <2>3. Above(6 + 1) = Above(6) + 9
    BY <1>1
  <2>4. Above(7 + 1) = Above(7) + 8
    BY <1>1
  <2> QED BY <1>2, <2>1, <2>2, <2>3, <2>4
<1>4. Above(9) = 99 /\ Above(10) = 105 /\ Above(11) = 110 /\ Above(12) = 114
  <2>1. Above(8 + 1) = Above(8) + 7
    BY <1>1
  <2>2. Above(9 + 1) = Above(9) + 6
    BY <1>1
  <2>3. Above(10 + 1) = Above(10) + 5
    BY <1>1
  <2>4. Above(11 + 1) = Above(11) + 4
    BY <1>1
  <2> QED BY <1>3, <2>1, <2>2, <2>3, <2>4
<1>5. Above(12 + 1) = Above(12) + 3 /\ Above(13 + 1) = Above(13) + 2
        /\ Above(14 + 1) = Above(14) + 1
  BY <1>1
<1> QED BY <1>4, <1>5

LEMMA AboveGrows ==
  ASSUME Calls!V \in Nat, Calls!V > 15, NEW r \in 0 .. 15, NEW s \in 0 .. 15, r <= s
  PROVE  Above(r) <= Above(s)
<1> DEFINE S == { t \in 0 .. 15 : r <= t => Above(r) <= Above(t) }
<1>1. 0 \in S
  <2>1. Above(0) \in Int
    BY AboveStep
  <2> QED BY <2>1
<1>2. ASSUME NEW t \in 0 .. 15 - 1, t \in S PROVE t + 1 \in S
  <2>1. Above(t + 1) = Above(t) + (15 - t) /\ Above(t) \in Int /\ Above(r) \in Int
    BY AboveStep
  <2>2. t + 1 \in 0 .. 15 /\ (r <= t + 1 => r <= t \/ r = t + 1)
    OBVIOUS
  <2>3. r <= t => Above(r) <= Above(t)
    BY <1>2
  <2>4. r <= t + 1 => Above(r) <= Above(t + 1)
    <3>1. CASE r = t + 1
      BY <2>1, <3>1
    <3>2. CASE r <= t
      BY <2>1, <2>3, <3>2
    <3> QED BY <2>2, <3>1, <3>2
  <2> QED BY <2>2, <2>4
<1>3. \A t \in 0 .. 15 : t \in S
  <2> HIDE DEF S
  <2>1. 15 \in Nat
    OBVIOUS
  <2> QED BY <1>1, <1>2, <2>1, InductionUpTo
<1> QED BY <1>3


(* Row r of the tail, as the pairs of its elements. *)
TailRow(r) == LET i == (Calls!V - Calls!TailRows) + r IN [t \in 1 .. Calls!V - i |-> (i * Calls!V) + (i + t - 1)]

(* A pair of the triangle by its place among the terms gathered. *)
Pair(r, q) == LET i == (Calls!V - Calls!TailRows) + r IN (i * Calls!V) + i + (q - Above(r))

(* The first r rows gathered: every place holds the pair that belongs there. *)
GatheredTo(r, x) ==
  /\ x \in Seq(Int) /\ Len(x) = Above(r)
  /\ \A q \in Nat : q < Above(r) =>
       \E s \in 0 .. r - 1 : Above(s) <= q /\ q < Above(s + 1) /\ x[q + 1] = Pair(s, q)

LEMMA TailRowIs ==
  ASSUME Calls!V \in Nat, Calls!V > 15, NEW r \in 0 .. 14
  PROVE  /\ TailRow(r) \in Seq(Int) /\ Len(TailRow(r)) = 15 - r
         /\ \A t \in 1 .. 15 - r : TailRow(r)[t] = Pair(r, Above(r) + (t - 1))
<1> DEFINE i == (Calls!V - Calls!TailRows) + r
           x == [t \in 1 .. 15 - r |-> (i * Calls!V) + (i + t - 1)]
<1>1. i \in Nat /\ Calls!V - i = 15 - r /\ i * Calls!V \in Int
  BY DEF Calls!TailRows
<1>2. Above(r) \in Int
  BY AboveStep
<1>3. TailRow(r) = x
  BY <1>1 DEF TailRow
<1>4. \A a : Pair(r, a) = (i * Calls!V) + i + (a - Above(r))
  BY DEF Pair
<1> DEFINE p == i * Calls!V
<1>5. p \in Int
  BY <1>1
<1> HIDE DEF i, p
<1>6. x \in Seq(Int) /\ Len(x) = 15 - r
  <2>1. \A t \in 1 .. 15 - r : (p) + (i + t - 1) \in Int
    BY <1>1, <1>5
  <2>2. x \in [1 .. 15 - r -> Int] /\ 15 - r \in Nat
    BY <2>1 DEF p
  <2> QED BY <2>2
<1>7. ASSUME NEW t \in 1 .. 15 - r PROVE x[t] = Pair(r, Above(r) + (t - 1))
  <2>1. x[t] = p + (i + t - 1)
    BY DEF p
  <2>2. Pair(r, Above(r) + (t - 1)) = p + i + ((Above(r) + (t - 1)) - Above(r))
    BY <1>4 DEF p
  <2>3. i + t - 1 = i + (t - 1) /\ (Above(r) + (t - 1)) - Above(r) = t - 1
    BY <1>1, <1>2
  <2>4. p + (i + (t - 1)) = p + i + (t - 1)
    BY <1>1, <1>5
  <2> QED BY <2>1, <2>2, <2>3, <2>4
<1> HIDE DEF x
<1> QED BY <1>3, <1>6, <1>7

LEMMA GatheredStep ==
  ASSUME Calls!V \in Nat, Calls!V > 15, NEW r \in 0 .. 14, NEW x, GatheredTo(r, x)
  PROVE  GatheredTo(r + 1, x \o TailRow(r))
<1> DEFINE y == TailRow(r)
           z == x \o y
           a == Above(r)
           e == Above(r + 1)
<1>1. y \in Seq(Int) /\ Len(y) = 15 - r /\ \A t \in 1 .. 15 - r : y[t] = Pair(r, a + (t - 1))
  BY TailRowIs
<1>2. a \in Int /\ e = a + (15 - r)
  BY AboveStep
<1>3. x \in Seq(Int) /\ Len(x) = a /\ a \in Nat
  <2>1. x \in Seq(Int) /\ Len(x) = a
    BY DEF GatheredTo
  <2> QED BY <2>1
<1>4. \A q \in Nat : q < a =>
       \E s \in 0 .. r - 1 : Above(s) <= q /\ q < Above(s + 1) /\ x[q + 1] = Pair(s, q)
  BY DEF GatheredTo
<1> HIDE DEF y, a, e
<1>5. /\ z \in Seq(Int) /\ Len(z) = e
      /\ \A m \in 1 .. e : z[m] = IF m <= a THEN x[m] ELSE y[m - a]
  <2>1. z \in Seq(Int) /\ Len(z) = a + (15 - r)
    BY <1>1, <1>3
  <2>2. \A m \in 1 .. a + (15 - r) : z[m] = IF m <= a THEN x[m] ELSE y[m - a]
    BY <1>1, <1>3
  <2> QED BY <1>2, <2>1, <2>2
<1> HIDE DEF z
<1>6. ASSUME NEW q \in Nat, q < e
      PROVE  \E s \in 0 .. (r + 1) - 1 : Above(s) <= q /\ q < Above(s + 1) /\ z[q + 1] = Pair(s, q)
  <2>1. q + 1 \in 1 .. e
    BY <1>2, <1>3, <1>6
  <2>2. CASE q < a
    <3>1. PICK s \in 0 .. r - 1 : Above(s) <= q /\ q < Above(s + 1) /\ x[q + 1] = Pair(s, q)
      BY <1>4, <2>2
    <3>2. z[q + 1] = x[q + 1] /\ s \in 0 .. (r + 1) - 1
      BY <1>3, <1>5, <2>1, <2>2
    <3> QED BY <3>1, <3>2
  <2>3. CASE q >= a
    <3>1. z[q + 1] = y[(q + 1) - a] /\ (q + 1) - a \in 1 .. 15 - r
      BY <1>2, <1>3, <1>5, <1>6, <2>1, <2>3
    <3>2. a + (((q + 1) - a) - 1) = q
      BY <1>3
    <3>3. z[q + 1] = Pair(r, q)
      BY <1>1, <3>1, <3>2
    <3>4. r \in 0 .. (r + 1) - 1
      OBVIOUS
    <3> QED BY <1>6, <2>3, <3>3, <3>4 DEF a, e
  <2> QED BY <1>3, <2>2, <2>3
<1>7. GatheredTo(r + 1, z)
  BY <1>5, <1>6 DEF GatheredTo, e
<1> QED BY <1>7 DEF z, y

(* All the rows of the tail, one after the other. *)
LEMMA QuadTermsAre ==
  ASSUME Calls!V \in Nat, Calls!V > 15
  PROVE  GatheredTo(15, Calls!QuadTerms)
<1> DEFINE Rec(g) == [r \in 0 .. 15 |-> IF r = 0 THEN << >> ELSE g[r - 1] \o TailRow(r - 1)]
           from == CHOOSE g : g = Rec(g)
           h == [k \in 0 .. 15 - 1 |-> [t \in Seq(Int) |-> t \o TailRow(k)]]
<1>1. h \in [0 .. 15 - 1 -> [Seq(Int) -> Seq(Int)]] /\ << >> \in Seq(Int) /\ 15 \in Nat
  <2>1. \A k \in 0 .. 15 - 1 : \A t \in Seq(Int) : t \o TailRow(k) \in Seq(Int)
    <3>1. TAKE k \in 0 .. 15 - 1
    <3>2. k \in 0 .. 14
      OBVIOUS
    <3>3. TailRow(k) \in Seq(Int)
      BY <3>2, TailRowIs
    <3> QED BY <3>3
  <2> QED BY <2>1
<1>2. PICK g : IsRec(15, Seq(Int), << >>, h, g)
  <2> HIDE DEF h
  <2> QED BY <1>1, RecExists
<1>3. g \in [0 .. 15 -> Seq(Int)] /\ g[0] = << >>
  BY <1>2 DEF IsRec
<1>4. \A k \in 0 .. 14 : g[k + 1] = g[k] \o TailRow(k)
  <2>1. TAKE k \in 0 .. 14
  <2>2. k \in 0 .. 15 - 1 /\ g[k] \in Seq(Int)
    <3> HIDE DEF h
    <3>1. k \in 0 .. 15 /\ k \in 0 .. 15 - 1
      OBVIOUS
    <3>2. g[k] \in Seq(Int)
      BY <1>3, <3>1, Zenon
    <3> QED BY <3>1, <3>2
  <2>3. h[k][g[k]] = g[k] \o TailRow(k)
    BY <2>2
  <2> HIDE DEF h
  <2> QED BY <1>2, <2>2, <2>3 DEF IsRec
<1>5. g = Rec(g)
  <2>1. ASSUME NEW k \in 0 .. 15 PROVE g[k] = Rec(g)[k]
    <3>1. CASE k = 0
      BY <1>3, <3>1
    <3>2. CASE k # 0
      <4>1. k - 1 \in 0 .. 14 /\ (k - 1) + 1 = k
        BY <3>2
      <4>2. g[(k - 1) + 1] = g[k - 1] \o TailRow(k - 1)
        BY <1>4, <4>1, Zenon
      <4> QED BY <3>2, <4>1, <4>2
    <3> QED BY <3>1, <3>2
  <2> QED BY <1>3, <2>1
<1>6. from = Rec(from)
  <2> HIDE DEF Rec
  <2> QED BY <1>5
<1>7. Calls!QuadTerms = from[15]
  <2>1. \A r \in Int : (Calls!V - Calls!TailRows) + (r - 1) = (Calls!V - Calls!TailRows) + (r - 1)
    OBVIOUS
  <2> QED BY DEF Calls!QuadTerms, TailRow, Calls!TailRows
<1> HIDE DEF from
<1>8. from[0] = << >>
  BY <1>6
<1>9. ASSUME NEW k \in 0 .. 14 PROVE from[k + 1] = from[k] \o TailRow(k)
  <2>1. k + 1 \in 0 .. 15 /\ k + 1 # 0 /\ (k + 1) - 1 = k
    OBVIOUS
  <2> QED BY <1>6, <2>1
<1> HIDE DEF Rec
<1> DEFINE Z == { k \in 0 .. 15 : GatheredTo(k, from[k]) }
<1>10. 0 \in Z
  <2>1. GatheredTo(0, << >>)
    BY AboveStep DEF GatheredTo
  <2> QED BY <1>8, <2>1
<1>11. ASSUME NEW k \in 0 .. 15 - 1, k \in Z PROVE k + 1 \in Z
  <2>1. k \in 0 .. 14 /\ k + 1 \in 0 .. 15
    OBVIOUS
  <2>2. GatheredTo(k, from[k])
    BY <1>11
  <2>3. GatheredTo(k + 1, from[k] \o TailRow(k))
    BY <2>1, <2>2, GatheredStep
  <2> QED BY <1>9, <2>1, <2>3
<1>12. \A k \in 0 .. 15 : k \in Z
  <2> HIDE DEF Z
  <2> QED BY <1>1, <1>10, <1>11, InductionUpTo
<1>13. 15 \in Z
  <2> HIDE DEF Z
  <2> QED BY <1>12
<1> QED BY <1>7, <1>13


(* The place of a term of the tail gives its row. *)
LEMMA RowOfTerm ==
  ASSUME Calls!V \in Nat, Calls!V > 15, NEW s \in 0 .. 14, NEW q \in Nat, Above(s) <= q,
         q < Above(s + 1)
  PROVE  (CHOOSE r \in Calls!V - Calls!TailRows .. Calls!V - 1 : /\ Calls!Triangle(r) - Calls!Triangle(Calls!V - Calls!TailRows) <= q
                                               /\ q < Calls!Triangle(r + 1) - Calls!Triangle(Calls!V - Calls!TailRows))
           = (Calls!V - Calls!TailRows) + s
<1> DEFINE i0 == Calls!V - Calls!TailRows
           P(r) == Calls!Triangle(r) - Calls!Triangle(i0) <= q
             /\ q < Calls!Triangle(r + 1) - Calls!Triangle(i0)
<1>1. i0 \in Nat /\ Calls!V - 1 = i0 + 14
  BY DEF Calls!TailRows
<1>2. ASSUME NEW t \in 0 .. 14 PROVE P(i0 + t) <=> Above(t) <= q /\ q < Above(t + 1)
  <2>1. (i0 + t) + 1 = i0 + (t + 1)
    BY <1>1
  <2>2. Above(t) = Calls!Triangle(i0 + t) - Calls!Triangle(i0)
          /\ Above(t + 1) = Calls!Triangle(i0 + (t + 1)) - Calls!Triangle(i0)
    BY DEF Above
  <2> QED BY <2>1, <2>2
<1>3. P(i0 + s) /\ i0 + s \in i0 .. Calls!V - 1
  BY <1>1, <1>2
<1>4. ASSUME NEW r \in i0 .. Calls!V - 1, P(r) PROVE r = i0 + s
  <2> HIDE DEF P
  <2> DEFINE t == r - i0
  <2>1. t \in 0 .. 14 /\ i0 + t = r
    <3> HIDE DEF i0
    <3> QED BY <1>1
  <2> HIDE DEF t
  <2>2. Above(t) <= q /\ q < Above(t + 1)
    BY <1>2, <1>4, <2>1
  <2>3. Above(t) \in Int /\ Above(t + 1) \in Int /\ Above(s) \in Int /\ Above(s + 1) \in Int
    <3>1. t \in 0 .. 15 /\ t + 1 \in 0 .. 15 /\ s \in 0 .. 15 /\ s + 1 \in 0 .. 15
      BY <2>1
    <3> QED BY <3>1, AboveStep
  <2>4. ~(t < s)
    <3>1. SUFFICES ASSUME t < s PROVE FALSE
      OBVIOUS
    <3>2. t + 1 \in 0 .. 15 /\ s \in 0 .. 15 /\ t + 1 <= s
      BY <2>1, <3>1
    <3>3. Above(t + 1) <= Above(s)
      BY <3>2, AboveGrows
    <3> QED BY <2>2, <2>3, <3>3
  <2>5. ~(s < t)
    <3>1. SUFFICES ASSUME s < t PROVE FALSE
      OBVIOUS
    <3>2. s + 1 \in 0 .. 15 /\ t \in 0 .. 15 /\ s + 1 <= t
      BY <2>1, <3>1
    <3>3. Above(s + 1) <= Above(t)
      BY <3>2, AboveGrows
    <3> QED BY <2>2, <2>3, <3>3
  <2> QED BY <2>1, <2>4, <2>5
<1> HIDE DEF P
<1>5. (CHOOSE r \in i0 .. Calls!V - 1 : P(r)) = i0 + s
  <2>1. \E r \in i0 .. Calls!V - 1 : P(r)
    BY <1>3
  <2> DEFINE found == CHOOSE r \in i0 .. Calls!V - 1 : P(r)
  <2>2. found \in i0 .. Calls!V - 1 /\ P(found)
    BY <2>1
  <2> QED BY <1>4, <2>2
<1> QED BY <1>5 DEF P

LEMMA QuadGf256Right ==
  ASSUME CallTypes, Still, Calls!batch_quad_trimat_eval_gf256
  PROVE  Right
<1>1. /\ Calls!V \in Nat \ {0} /\ Calls!V > 15 /\ Calls!OByte \in Nat /\ 32 <= Calls!OByte
      /\ Calls!OByte <= 256 /\ row \in 0 .. Calls!V - 1
  BY SetSizes
<1>2. site = "quad" /\ set.gf = 256 /\ 256 \in Int
  BY DEF Calls!batch_quad_trimat_eval_gf256, Calls!At
<1>3. CASE call' = Calls!Product(Calls!gfmat_prod, Calls!OByte, Calls!V - row, 256,
             LAMBDA q : Calls!InB(1, row + q))
  <2> DEFINE b == [q \in 0 .. (Calls!V - row) - 1 |-> Calls!InB(1, row + q)]
  <2>1. call' = [kernel |-> Calls!gfmat_prod, vec |-> Calls!OByte, n |-> Calls!V - row,
          out |-> 256, b |-> b]
    BY <1>3 DEF Calls!Product
  <2>2. ASSUME NEW q \in 0 .. (Calls!V - row) - 1 PROVE b[q] = row + q
    <3>1. row + q \in 0 .. Calls!V - 1
      BY <1>1
    <3> QED BY <3>1, ElementsOfOne
  <2> HIDE DEF b
  <2> QED BY <1>1, <1>2, <2>1, <2>2, QuadRowRight
<1>4. CASE /\ row = Calls!V - Calls!TailRows
           /\ call' = Calls!Product(Calls!gfmat_prod, Calls!OByte, 120, 256,
                LAMBDA q : IF q < Len(Calls!QuadTerms) THEN Calls!QuadTerms[q + 1] ELSE Calls!Zeros)
  <2> DEFINE b == [q \in 0 .. 120 - 1 |-> IF q < Len(Calls!QuadTerms) THEN Calls!QuadTerms[q + 1] ELSE Calls!Zeros]
  <2>1. call' = [kernel |-> Calls!gfmat_prod, vec |-> Calls!OByte, n |-> 120, out |-> 256, b |-> b]
    BY <1>4 DEF Calls!Product
  <2>2. Calls!gfmat_prod \notin Calls!OwnTab16
    BY <1>2, BuildsAssumption DEF Calls!gfmat_prod, Calls!gf256mat_prod_impl, Calls!OwnTab16,
       CallTypes
  <2>3. ASSUME NEW q \in 0 .. 120 - 1 PROVE b[q] = WantedOf(120, q)
    <3>1. GatheredTo(15, Calls!QuadTerms) /\ Above(15) = 120
      BY <1>1, QuadTermsAre, AboveTotal
    <3>2. b[q] = Calls!QuadTerms[q + 1] /\ q \in Nat /\ q < Above(15)
      BY <3>1 DEF GatheredTo
    <3>3. PICK s \in 0 .. 15 - 1 : Above(s) <= q /\ q < Above(s + 1)
                 /\ Calls!QuadTerms[q + 1] = Pair(s, q)
      BY <3>1, <3>2 DEF GatheredTo
    <3>4. s \in 0 .. 14
      OBVIOUS
    <3> DEFINE i == CHOOSE r \in row .. Calls!V - 1 : /\ Calls!Triangle(r) - Calls!Triangle(row) <= q
                                                /\ q < Calls!Triangle(r + 1) - Calls!Triangle(row)
    <3>5. i = (Calls!V - Calls!TailRows) + s
      BY <1>1, <1>4, <3>2, <3>3, <3>4, RowOfTerm
    <3>6. WantedOf(120, q) = (i * Calls!V) + i + (q - (Calls!Triangle(i) - Calls!Triangle(row)))
      <4>1. 120 # Calls!V - row /\ site = "quad"
        BY <1>1, <1>2, <1>4 DEF Calls!TailRows
      <4> QED BY <4>1 DEF WantedOf
    <3>7. Calls!Triangle(i) - Calls!Triangle(row) = Above(s)
      BY <1>4, <3>5 DEF Above
    <3>8. Pair(s, q) = (i * Calls!V) + i + (q - Above(s))
      BY <3>5 DEF Pair
    <3> QED BY <3>2, <3>3, <3>6, <3>7, <3>8
  <2> HIDE DEF b
  <2>4. 120 \in Nat
    OBVIOUS
  <2> QED BY <1>1, <1>2, <2>1, <2>2, <2>3, <2>4, RightProduct
<1> QED BY <1>3, <1>4 DEF Calls!batch_quad_trimat_eval_gf256

-----------------------------------------------------------------------------
(* The types, and what the last product met. *)
CallsInv == CallTypes /\ Calls!CallsKeepContract /\ Calls!OperandsRight

LEMMA CallsInit == Calls!Init => CallsInv
<1> SUFFICES ASSUME Calls!Init PROVE CallsInv
  OBVIOUS
<1>1. CallTypes
  <2>1. set \in ParamSets /\ be \in BackEnds /\ multab = Calls!HasMultab(set, be)
          /\ site \in Calls!Sites /\ col \in Columns
        /\ col < Calls!O
    BY DEF Calls!Init
  <2>2. Calls!V > 0 /\ Calls!V \in Nat
    BY <2>1, BuildsAssumption DEF Calls!V, ParamSets
  <2>3. row \in 0 .. Calls!V - 1
    BY <2>2 DEF Calls!Init
  <2> QED BY <2>1, <2>3 DEF CallTypes
<1> QED BY <1>1 DEF Calls!Init, CallsInv, Calls!CallsKeepContract, Calls!OperandsRight

LEMMA CallsStepKeeps == CallsInv /\ [Calls!Next]_(Calls!vars) => CallsInv'
<1> SUFFICES ASSUME CallsInv, [Calls!Next]_(Calls!vars) PROVE CallsInv'
  OBVIOUS
<1>1. CallTypes
  BY DEF CallsInv
<1>2. CASE Calls!Call
  <2>1. Still /\ CallTypes'
    BY <1>1, <1>2 DEF Calls!Call, Still, CallTypes, Calls!HasMultab, Calls!V, Calls!O
  <2>2. Right
    BY <1>1, <1>2, <2>1, TrimatRight, TrimatTrRight, UpperRight, QuadGf16Right, QuadTableRight,
       QuadGf256Right,
       L1matRight, OilRight DEF Calls!Call
  <2> QED BY <2>1, <2>2 DEF Right, CallsInv
<1>3. CASE Calls!NextRow
  <2>1. CallTypes'
    <3>1. row + 1 \in 0 .. Calls!V - 1 /\ Calls!V' = Calls!V /\ Calls!O' = Calls!O
      BY <1>1, <1>3, SetSizes DEF Calls!NextRow, Calls!V, Calls!O
    <3> QED BY <1>1, <1>3, <3>1 DEF Calls!NextRow, CallTypes, Calls!HasMultab
  <2>2. call' = Calls!None /\ Calls!None' = Calls!None
    BY <1>3 DEF Calls!NextRow, Calls!None
  <2> QED BY <2>1, <2>2 DEF CallsInv, Calls!CallsKeepContract, Calls!OperandsRight
<1>4. CASE UNCHANGED Calls!vars
  <2>1. UNCHANGED <<set, be, multab, site, row, col, call>>
    BY <1>4 DEF Calls!vars
  <2>2. /\ Calls!V' = Calls!V /\ Calls!O' = Calls!O /\ Calls!VByte' = Calls!VByte
        /\ Calls!PerByte' = Calls!PerByte /\ Calls!MaxV' = Calls!MaxV
        /\ Calls!MaxOByte' = Calls!MaxOByte /\ Calls!Register' = Calls!Register
        /\ Calls!None' = Calls!None
    BY <2>1 DEF Calls!V, Calls!O, Calls!VByte, Calls!PerByte, Calls!MaxV, Calls!MaxOByte,
       Calls!Register, Calls!None
  <2>3. CallTypes'
    BY <1>1, <2>1, <2>2 DEF CallTypes, Calls!HasMultab
  <2>4. Calls!CallsKeepContract'
    BY <2>1, <2>2 DEF CallsInv, Calls!CallsKeepContract
  <2>5. \A q : Calls!Wanted(q)' = Calls!Wanted(q)
    BY <2>1, <2>2 DEF Calls!Wanted, Calls!Triangle
  <2>6. Calls!OperandsRight'
    BY <2>1, <2>2, <2>5 DEF CallsInv, Calls!OperandsRight
  <2> QED BY <2>3, <2>4, <2>6 DEF CallsInv
<1> QED BY <1>2, <1>3, <1>4 DEF Calls!Next

(* The calls of parallel_matrix_op.c and ov.c on their own: for the four   *)
(* parameter sets and every back end, row and column of B, the function    *)
(* that is bound to the name gets what it demands, and every column the    *)
(* element that is in its row.                                             *)
THEOREM CallsMeetContracts == Calls!Spec => []Calls!CallsKeepContract /\ []Calls!OperandsRight
<1>1. CallsInv => Calls!CallsKeepContract /\ Calls!OperandsRight
  BY DEF CallsInv
<1> QED BY <1>1, CallsInit, CallsStepKeeps, PTL DEF Calls!Spec

-----------------------------------------------------------------------------
(* The transposition of a matrix over GF(16).                              *)

(* A place in blocks of h and of twice that: where its block begins and    *)
(* where it lies in it; and the places half a block away.                  *)
LEMMA HalfBlocks ==
  ASSUME NEW h \in Nat \ {0}, NEW x \in Nat
  PROVE  LET g == 2 * h
             base == (x \div g) * g
             rest == x % h
         IN /\ base \in Nat /\ rest \in 0 .. h - 1 /\ (x \div h) % 2 \in {0, 1}
            /\ (x \div h) % 2 = 1 =>
                 /\ (x \div h) * h = base + h /\ x % g = h + rest /\ x - h \in Nat
                 /\ ((x - h) \div g) * g = base /\ (x - h) % g = rest
            /\ (x \div h) % 2 = 0 =>
                 /\ (x \div h) * h = base /\ x % g = rest /\ x + h \in Nat
                 /\ ((x + h) \div g) * g = base /\ (x + h) % g = h + rest
            /\ x = base + (x % g)
<1> DEFINE q == x \div h
           e == x % h
           a == q \div 2
           o == q % 2
           g == 2 * h
<1>1. q \in Int /\ e \in 0 .. h - 1 /\ x = q * h + e
  BY DivMod
<1>2. q \in Nat
  <2>1. SUFFICES ASSUME q <= -1 PROVE FALSE
    BY <1>1
  <2>2. q * h <= (-1) * h
    BY <1>1, <2>1
  <2> QED BY <1>1, <2>2
<1>3. a \in Int /\ o \in {0, 1} /\ q = a * 2 + o
  BY <1>2
<1>4. a \in Nat
  BY <1>2, <1>3
<1> HIDE DEF q, e, a, o
<1>5. q * h = a * g + o * h /\ g \in Nat \ {0} /\ a * g \in Nat
  BY <1>3, <1>4
<1> HIDE DEF g
<1>6. g = 2 * h
  BY DEF g
<1> DEFINE base == a * g
<1>7. base \in Nat
  BY <1>5
<1>8. CASE o = 1
  <2>1. q * h = base + h /\ x = base + (h + e) /\ x - h = base + e
    BY <1>1, <1>5, <1>8
  <2>2. h + e \in Int /\ 0 <= h + e /\ h + e < g /\ e \in Int /\ 0 <= e /\ e < g
    BY <1>1, <1>6
  <2> DEFINE t == h + e
  <2>3. (a * g + t) \div g = a /\ (a * g + t) % g = t
    <3>1. t \in Int /\ 0 <= t /\ t < g
      BY <2>2
    <3> HIDE DEF t
    <3> QED BY <1>4, <1>5, <3>1, DivUnique
  <2>4. (a * g + e) \div g = a /\ (a * g + e) % g = e
    BY <1>4, <1>5, <2>2, DivUnique
  <2>5. x \div g = a /\ x % g = h + e /\ (x - h) \div g = a /\ (x - h) % g = e
    BY <2>1, <2>3, <2>4
  <2>6. x - h \in Nat /\ x = base + (x % g)
    BY <1>1, <1>7, <2>1, <2>5
  <2> HIDE DEF base
  <2> QED BY <1>1, <1>7, <1>8, <2>1, <2>5, <2>6 DEF q, e, o, g, base
<1>9. CASE o = 0
  <2>1. q * h = base /\ x = base + e /\ x + h = base + (h + e)
    BY <1>1, <1>5, <1>9
  <2>2. h + e \in Int /\ 0 <= h + e /\ h + e < g /\ e \in Int /\ 0 <= e /\ e < g
    BY <1>1, <1>6
  <2> DEFINE t == h + e
  <2>3. (a * g + t) \div g = a /\ (a * g + t) % g = t
    <3>1. t \in Int /\ 0 <= t /\ t < g
      BY <2>2
    <3> HIDE DEF t
    <3> QED BY <1>4, <1>5, <3>1, DivUnique
  <2>4. (a * g + e) \div g = a /\ (a * g + e) % g = e
    BY <1>4, <1>5, <2>2, DivUnique
  <2>5. x \div g = a /\ x % g = e /\ (x + h) \div g = a /\ (x + h) % g = h + e
    BY <2>1, <2>3, <2>4
  <2>6. x + h \in Nat /\ x = base + (x % g)
    BY <1>1, <1>7, <2>1, <2>5
  <2> HIDE DEF base
  <2> QED BY <1>1, <1>7, <1>9, <2>1, <2>5, <2>6 DEF q, e, o, g, base
<1> QED BY <1>3, <1>8, <1>9

(* m is blk with its blocks of h by h transposed as a whole. *)
Blocked(blk, m, n, h) ==
  /\ DOMAIN m = 0 .. n - 1
  /\ \A r, b \in 0 .. n - 1 : m[r][b] = blk[((b \div h) * h) + (r % h)][((r \div h) * h) + (b % h)]

LEMMA SwapHalves ==
  ASSUME NEW h \in Nat \ {0}, NEW k \in Nat, NEW blk, NEW m, Blocked(blk, m, k * (2 * h), 2 * h)
  PROVE  Blocked(blk, Transposes!Swapped(m, h), k * (2 * h), h)
<1> DEFINE g == 2 * h
           n == k * g
           Odd(x) == (x \div h) % 2 = 1
           Base(x) == (x \div g) * g
           Over(x) == x % h
<1>0. n \in Nat /\ g \in Nat \ {0} /\ g = 2 * h
  OBVIOUS
<1>1. DOMAIN m = 0 .. n - 1
  BY DEF Blocked
<1>2. \A r, b \in 0 .. n - 1 : m[r][b] = blk[Base(b) + (r % g)][Base(r) + (b % g)]
  BY DEF Blocked
<1>3. \A r, b \in 0 .. n - 1 :
        Transposes!Swapped(m, h)[r][b] = IF Odd(r) = Odd(b) THEN m[r][b]
                              ELSE IF Odd(r) THEN m[r - h][b + h] ELSE m[r + h][b - h]
  BY <1>1 DEF Transposes!Swapped
<1>4. DOMAIN Transposes!Swapped(m, h) = 0 .. n - 1
  BY <1>1 DEF Transposes!Swapped
<1>5. ASSUME NEW x \in 0 .. n - 1
      PROVE  /\ Base(x) \in Nat /\ Over(x) \in 0 .. h - 1
             /\ Odd(x) => /\ (x \div h) * h = Base(x) + h /\ x % g = h + Over(x)
                  /\ x - h \in 0 .. n - 1
                          /\ Base(x - h) = Base(x) /\ (x - h) % g = Over(x)
             /\ ~Odd(x) => /\ (x \div h) * h = Base(x) /\ x % g = Over(x) /\ x + h \in 0 .. n - 1
                           /\ Base(x + h) = Base(x) /\ (x + h) % g = h + Over(x)
  <2>1. x \in Nat
    BY <1>0
  <2>2. /\ Base(x) \in Nat /\ Over(x) \in 0 .. h - 1 /\ (x \div h) % 2 \in {0, 1}
        /\ Odd(x) => /\ (x \div h) * h = Base(x) + h /\ x % g = h + Over(x) /\ x - h \in Nat
                     /\ Base(x - h) = Base(x) /\ (x - h) % g = Over(x)
        /\ (x \div h) % 2 = 0 => /\ (x \div h) * h = Base(x) /\ x % g = Over(x) /\ x + h \in Nat
                                 /\ Base(x + h) = Base(x) /\ (x + h) % g = h + Over(x)
        /\ x = Base(x) + (x % g)
    BY <2>1, HalfBlocks
  <2>3. Base(x) + g <= n
    <3> DEFINE a == x \div g
    <3>1. a \in Int /\ a * g <= x
      BY <2>1, <2>2, <1>0, DivMod
    <3> HIDE DEF g, a
    <3>2. ~(a >= k)
      <4>1. SUFFICES ASSUME a >= k PROVE FALSE
        OBVIOUS
      <4>2. k * g <= a * g
        BY <1>0, <3>1, <4>1
      <4> QED BY <1>0, <3>1, <4>2
    <3>3. a + 1 <= k
      BY <3>1, <3>2
    <3>4. (a + 1) * g <= k * g
      BY <1>0, <3>1, <3>3
    <3>5. (a + 1) * g = a * g + g
      BY <1>0, <3>1
    <3> QED BY <3>4, <3>5 DEF a
  <2> HIDE DEF Base, Over, g
  <2>4. ~Odd(x) => (x \div h) % 2 = 0
    BY <2>2
  <2>5. Odd(x) => x - h \in 0 .. n - 1
    BY <1>0, <2>1, <2>2
  <2>6. ~Odd(x) => x + h \in 0 .. n - 1
    BY <1>0, <2>1, <2>2, <2>3, <2>4
  <2> QED BY <2>2, <2>4, <2>5, <2>6
<1> HIDE DEF Base, Over, Odd, g, n
<1>6. ASSUME NEW r \in 0 .. n - 1, NEW b \in 0 .. n - 1
      PROVE  Transposes!Swapped(m,
               h)[r][b] = blk[((b \div h) * h) + Over(r)][((r \div h) * h) + Over(b)]
  <2>1. CASE Odd(r) /\ Odd(b)
    <3>0. Transposes!Swapped(m, h)[r][b] = m[r][b]
      BY <1>3, <2>1 DEF Odd
    <3>1. Transposes!Swapped(m, h)[r][b] = blk[Base(b) + (h + Over(r))][Base(r) + (h + Over(b))]
      BY <1>2, <1>5, <2>1, <3>0
    <3>2. Base(b) + (h + Over(r)) = (Base(b) + h) + Over(r)
            /\ Base(r) + (h + Over(b)) = (Base(r) + h) + Over(b)
      BY <1>5
    <3> QED BY <1>5, <2>1, <3>1, <3>2
  <2>2. CASE ~Odd(r) /\ ~Odd(b)
    <3>1. Transposes!Swapped(m, h)[r][b] = m[r][b]
      BY <1>3, <2>2 DEF Odd
    <3> QED BY <1>2, <1>5, <2>2, <3>1
  <2>3. CASE Odd(r) /\ ~Odd(b)
    <3>1. Transposes!Swapped(m, h)[r][b] = m[r - h][b + h] /\ r - h \in 0 .. n - 1
            /\ b + h \in 0 .. n - 1
      BY <1>3, <1>5, <2>3
    <3>2. m[r - h][b + h] = blk[Base(b) + Over(r)][Base(r) + (h + Over(b))]
      BY <1>2, <1>5, <2>3, <3>1
    <3>3. Base(r) + (h + Over(b)) = (Base(r) + h) + Over(b)
      BY <1>5
    <3> QED BY <1>5, <2>3, <3>1, <3>2, <3>3
  <2>4. CASE ~Odd(r) /\ Odd(b)
    <3>1. Transposes!Swapped(m, h)[r][b] = m[r + h][b - h] /\ r + h \in 0 .. n - 1
            /\ b - h \in 0 .. n - 1
      BY <1>3, <1>5, <2>4
    <3>2. m[r + h][b - h] = blk[Base(b) + (h + Over(r))][Base(r) + Over(b)]
      BY <1>2, <1>5, <2>4, <3>1
    <3>3. Base(b) + (h + Over(r)) = (Base(b) + h) + Over(r)
      BY <1>5
    <3> QED BY <1>5, <2>4, <3>1, <3>2, <3>3
  <2> QED BY <2>1, <2>2, <2>3, <2>4
<1> QED BY <1>4, <1>6 DEF Blocked, Over, n, g


(* The rounds from n bytes down to one are a function that unrolls. *)
LEMMA RoundsUnroll ==
  ASSUME NEW blk, NEW n \in Nat \ {0}
  PROVE  \E round : /\ Transposes!Rounds(blk, n) = round[1]
                    /\ \A half \in 1 .. n :
                         round[half] =
                               IF 2 * half > n THEN blk ELSE Transposes!Swapped(round[2 * half], half)
<1> DEFINE Rec(g) == [half \in 1 .. n |->
      IF 2 * half > n THEN blk ELSE Transposes!Swapped(g[2 * half], half)]
           round == CHOOSE g : g = Rec(g)
           Unrolls(lo, g) == /\ g = [half \in lo .. n |-> g[half]]
                             /\ \A half \in lo .. n : g[half] =
                                   IF 2 * half > n THEN blk ELSE Transposes!Swapped(g[2 * half], half)
           Z == { m \in Nat : m < n => \E g : Unrolls(n - m, g) }
<1>1. 0 \in Z
  <2>1. Unrolls(n - 0, [half \in n .. n |-> blk])
    <3>1. \A half \in n .. n : 2 * half > n
      OBVIOUS
    <3>2. n - 0 = n
      OBVIOUS
    <3> QED BY <3>1, <3>2
  <2> HIDE DEF Unrolls
  <2> QED BY <2>1
<1>2. ASSUME NEW m \in Nat, m \in Z PROVE m + 1 \in Z
  <2>1. SUFFICES ASSUME m + 1 < n PROVE \E g : Unrolls(n - (m + 1), g)
    <3> HIDE DEF Unrolls
    <3> QED OBVIOUS
  <2>2. PICK f : Unrolls(n - m, f)
    <3> HIDE DEF Unrolls
    <3> QED BY <1>2, <2>1
  <2> DEFINE lo == n - (m + 1)
             v == IF 2 * lo > n THEN blk ELSE Transposes!Swapped(f[2 * lo], lo)
             g == [half \in lo .. n |-> IF half = lo THEN v ELSE f[half]]
  <2>3. lo \in 1 .. n /\ n - m = lo + 1 /\ lo \in Int
    BY <2>1
  <2>4. \A half \in lo + 1 .. n : f[half] =
        IF 2 * half > n THEN blk ELSE Transposes!Swapped(f[2 * half], half)
    BY <2>2, <2>3
  <2> HIDE DEF lo, v
  <2>5. g = [half \in lo .. n |-> g[half]]
    OBVIOUS
  <2>6. ASSUME NEW half \in lo .. n
        PROVE  g[half] = IF 2 * half > n THEN blk ELSE Transposes!Swapped(g[2 * half], half)
    <3>1. half \in Nat /\ (half # lo => half \in lo + 1 .. n)
      BY <2>3
    <3>2. ~(2 * half > n) => 2 * half \in lo .. n /\ 2 * half # lo
      BY <2>3, <3>1
    <3>3. ~(2 * half > n) => g[2 * half] = f[2 * half]
      BY <3>2
    <3>4. CASE half = lo
      <4>1. g[half] = v
        BY <3>4
      <4> HIDE DEF g
      <4> QED BY <3>3, <3>4, <4>1 DEF v
    <3>5. CASE half # lo
      <4>1. g[half] = f[half]
        BY <3>5
      <4> HIDE DEF g
      <4> QED BY <2>4, <3>1, <3>3, <3>5, <4>1
    <3> QED BY <3>4, <3>5
  <2> HIDE DEF g
  <2>7. Unrolls(lo, g)
    BY <2>5, <2>6
  <2> QED BY <2>7 DEF lo
<1>3. \A m \in Nat : m \in Z
  <2> HIDE DEF Z
  <2> QED BY <1>1, <1>2, SetInduction
<1>4. \E g : Unrolls(1, g)
  <2> HIDE DEF Unrolls
  <2>1. n - 1 \in Nat /\ n - 1 < n /\ n - (n - 1) = 1
    OBVIOUS
  <2>2. n - 1 \in Z
    <3> HIDE DEF Z
    <3> QED BY <1>3, <2>1
  <2> QED BY <2>1, <2>2
<1>5. PICK g : Unrolls(1, g)
  BY <1>4
<1>6. g = Rec(g)
  <2>1. g = [half \in 1 .. n |-> g[half]]
    BY <1>5
  <2>2. \A half \in 1 .. n : g[half] =
        IF 2 * half > n THEN blk ELSE Transposes!Swapped(g[2 * half], half)
    BY <1>5
  <2> QED BY <2>1, <2>2
<1>7. round = Rec(round)
  <2> HIDE DEF Rec
  <2> QED BY <1>6
<1>8. Transposes!Rounds(blk, n) = round[1]
  BY DEF Transposes!Rounds
<1> HIDE DEF round
<1>9. \A half \in 1 .. n : round[half] =
      IF 2 * half > n THEN blk ELSE Transposes!Swapped(round[2 * half], half)
  BY <1>7
<1> QED BY <1>8, <1>9

(* One round more. *)
LEMMA RoundKeeps ==
  ASSUME NEW blk, NEW round, NEW n \in Nat \ {0}, NEW h \in Nat \ {0}, NEW k \in Nat \ {0},
         n = k * (2 * h),
         \A half \in 1 .. n : round[half] =
               IF 2 * half > n THEN blk ELSE Transposes!Swapped(round[2 * half], half),
         Blocked(blk, round[2 * h], n, 2 * h)
  PROVE  Blocked(blk, round[h], n, h)
<1>1. 2 * h <= n
  <2>1. 1 * (2 * h) <= k * (2 * h)
    OBVIOUS
  <2> QED BY <2>1
<1>2. h \in 1 .. n /\ ~(2 * h > n)
  BY <1>1
<1>3. round[h] = Transposes!Swapped(round[2 * h], h)
  BY <1>2
<1> QED BY <1>3, SwapHalves

(* A square of 16 by 16 or 32 by 32 bytes is transposed. *)
Square(blk, n) == DOMAIN blk = 0 .. n - 1
Transposed(m, blk, n) == \A r, b \in 0 .. n - 1 : m[r][b] = blk[b][r]

LEMMA RoundsTranspose ==
  ASSUME NEW n \in {16, 32}, NEW blk, Square(blk, n)
  PROVE  Transposed(Transposes!Rounds(blk, n), blk, n)
<1>0. n \in Nat \ {0}
  OBVIOUS
<1>1. PICK round : /\ Transposes!Rounds(blk, n) = round[1]
                   /\ \A half \in 1 .. n :
                        round[half] =
                              IF 2 * half > n THEN blk ELSE Transposes!Swapped(round[2 * half], half)
  BY <1>0, RoundsUnroll
<1>2. Blocked(blk, round[n], n, n)
  <2>1. round[n] = blk
    BY <1>0, <1>1
  <2>2. ASSUME NEW x \in 0 .. n - 1 PROVE (x \div n) * n = 0 /\ x % n = x
    <3>1. (0 * n + x) \div n = 0 /\ (0 * n + x) % n = x
      BY <1>0, DivUnique
    <3> QED BY <3>1
  <2>3. ASSUME NEW r \in 0 .. n - 1, NEW b \in 0 .. n - 1
        PROVE  blk[r][b] = blk[((b \div n) * n) + (r % n)][((r \div n) * n) + (b % n)]
    <3>1. ((b \div n) * n) + (r % n) = r /\ ((r \div n) * n) + (b % n) = b
      BY <2>2
    <3> QED BY <3>1
  <2> QED BY <2>1, <2>3 DEF Blocked, Square
<1>3. Blocked(blk, round[16], n, 16)
  <2>1. CASE n = 16
    BY <1>2, <2>1
  <2>2. CASE n = 32
    <3>1. n = 1 * (2 * 16) /\ 2 * 16 = n
      BY <2>2
    <3>2. Blocked(blk, round[2 * 16], n, 2 * 16)
      BY <1>2, <3>1
    <3> QED BY <1>0, <1>1, <3>1, <3>2, RoundKeeps
  <2> QED BY <2>1, <2>2
<1>4. ASSUME NEW h \in {1, 2, 4, 8}, Blocked(blk, round[2 * h], n, 2 * h)
      PROVE  Blocked(blk, round[h], n, h)
  <2>1. \E k \in Nat \ {0} : n = k * (2 * h)
    <3> DEFINE P(k) == n = k * (2 * h)
    <3>1. P(1) \/ P(2) \/ P(4) \/ P(8) \/ P(16)
      OBVIOUS
    <3>2. \E k \in Nat \ {0} : P(k)
      <4> HIDE DEF P
      <4> QED BY <3>1
    <3> QED BY <3>2
  <2>2. PICK k \in Nat \ {0} : n = k * (2 * h)
    BY <2>1
  <2>3. h \in Nat \ {0}
    OBVIOUS
  <2> QED BY <1>0, <1>1, <1>4, <2>2, <2>3, RoundKeeps
<1>5. Blocked(blk, round[8], n, 8)
  <2>1. Blocked(blk, round[2 * 8], n, 2 * 8)
    BY <1>3
  <2> QED BY <1>4, <2>1
<1>6. Blocked(blk, round[4], n, 4)
  <2>1. Blocked(blk, round[2 * 4], n, 2 * 4)
    BY <1>5
  <2> QED BY <1>4, <2>1
<1>7. Blocked(blk, round[2], n, 2)
  <2>1. Blocked(blk, round[2 * 2], n, 2 * 2)
    BY <1>6
  <2> QED BY <1>4, <2>1
<1>8. Blocked(blk, round[1], n, 1)
  <2>1. Blocked(blk, round[2 * 1], n, 2 * 1)
    BY <1>7
  <2> QED BY <1>4, <2>1
<1>9. ASSUME NEW r \in 0 .. n - 1, NEW b \in 0 .. n - 1 PROVE round[1][r][b] = blk[b][r]
  <2>1. round[1][r][b] = blk[((b \div 1) * 1) + (r % 1)][((r \div 1) * 1) + (b % 1)]
    BY <1>8 DEF Blocked
  <2>2. ASSUME NEW x \in 0 .. n - 1 PROVE (x \div 1) * 1 = x /\ x % 1 = 0
    OBVIOUS
  <2>3. ((b \div 1) * 1) + (r % 1) = b /\ ((r \div 1) * 1) + (b % 1) = r
    BY <2>2
  <2> QED BY <2>1, <2>3
<1> QED BY <1>1, <1>9 DEF Transposed


(* Rows of s bytes: row and place in it. *)
LEMMA CellIs ==
  ASSUME NEW s \in Nat \ {0}, NEW r \in Nat, NEW b \in 0 .. s - 1
  PROVE  ((r * s) + b) \div s = r /\ ((r * s) + b) % s = b /\ (r * s) + b \in Nat
<1>1. r * s \in Nat
  OBVIOUS
<1> QED BY <1>1, DivUnique

LEMMA CellInside ==
  ASSUME NEW s \in Nat \ {0}, NEW rows \in Nat, NEW r \in 0 .. rows - 1, NEW b \in 0 .. s - 1
  PROVE  (r * s) + b \in 0 .. (rows * s) - 1
<1>1. (r + 1) * s <= rows * s /\ (r + 1) * s = r * s + s /\ r * s \in Nat /\ rows * s \in Nat
  OBVIOUS
<1> DEFINE x == r * s
           y == rows * s
           z == (r + 1) * s
<1>2. z <= y /\ z = x + s /\ x \in Nat /\ y \in Nat
  BY <1>1
<1> HIDE DEF x, y, z
<1>3. x + b \in 0 .. y - 1
  BY <1>2
<1> QED BY <1>3 DEF x, y

(* A square of n by n stored at byte w of every other row, from row        *)
(* 2 * u + par on.                                                         *)
HasByte(d, p) == p \in DOMAIN d

StoredByte(z, d, blk, p, r, b, u, w, n, par) ==
  z[p] = IF r % 2 = par /\ (r \div 2) - u \in 0 .. n - 1 /\ b - w \in 0 .. n - 1
         THEN blk[(r \div 2) - u][b - w] ELSE d[p]

LEMMA StoredAt ==
  ASSUME NEW s \in Nat \ {0}, NEW n \in Nat \ {0}, NEW u \in Nat, NEW w \in Nat, w + n <= s,
         NEW par \in {0, 1},
         NEW d, NEW blk, NEW r \in Nat, NEW b \in 0 .. s - 1, NEW p, NEW from, NEW g, HasByte(d, p),
         p = (r * s) + b, from = (((2 * u) + par) * s) + w, g = 2 * s
  PROVE  StoredByte(Transposes!Stored(d, from, g, n, blk), d, blk, p, r, b, u, w, n, par)
<1> DEFINE e == p - from
           a == r \div 2
           o == r % 2
<1>1. a \in Nat /\ o \in {0, 1} /\ r = 2 * a + o
  OBVIOUS
<1>2. g \in Nat \ {0} /\ g = 2 * s
  OBVIOUS
<1>3. Transposes!Stored(d, from, g, n, blk)[p] = IF p >= from /\ e \div g < n
        /\ e % g < n THEN blk[e \div g][e % g] ELSE d[p]
  BY DEF Transposes!Stored, HasByte
<1>4. p = (a * g) + (o * s) + b /\ from = (u * g) + (par * s) + w /\ a * g \in Nat /\ u * g \in Nat
  BY <1>1, <1>2
<1>5. p \in Int /\ from \in Int /\ e \in Int /\ e = p - from
  BY <1>1, <1>2, <1>4
<1>6. CASE o = par /\ a - u \in 0 .. n - 1 /\ b - w \in 0 .. n - 1
  <2> DEFINE x == a - u
             y == b - w
  <2>1. x \in Nat /\ y \in Nat /\ x < n /\ y < n /\ y < g
    BY <1>2, <1>6
  <2>2. x * g = (a * g) - (u * g) /\ x * g \in Nat
    BY <1>1, <1>2, <2>1
  <2> HIDE DEF e, a, o
  <2>3. e = x * g + y
    <3>1. o * s = par * s /\ par * s \in Int
      BY <1>6
    <3> DEFINE ag == a * g
               ug == u * g
               ps == par * s
               xg == x * g
    <3>2. p = ag + ps + b /\ from = ug + ps + w /\ ag \in Int /\ ug \in Int /\ ps \in Int
            /\ xg = ag - ug
      BY <1>4, <2>2, <3>1
    <3> HIDE DEF ag, ug, ps, xg
    <3>3. p - from = xg + (b - w)
      BY <3>2
    <3> QED BY <1>5, <3>3 DEF xg
  <2> HIDE DEF x, y
  <2>4. (x * g + y) \div g = x /\ (x * g + y) % g = y
    BY <1>2, <2>1, DivUnique
  <2>5. p >= from
    BY <1>5, <2>1, <2>2, <2>3
  <2>6. Transposes!Stored(d, from, g, n, blk)[p] = blk[x][y]
    BY <1>3, <2>1, <2>3, <2>4, <2>5
  <2> QED BY <1>6, <2>6 DEF StoredByte, a, o, x, y
<1>7. CASE ~(o = par /\ a - u \in 0 .. n - 1 /\ b - w \in 0 .. n - 1)
  <2>1. ~(p >= from /\ e \div g < n /\ e % g < n)
    <3>1. SUFFICES ASSUME p >= from, e \div g < n, e % g < n PROVE FALSE
      OBVIOUS
    <3> DEFINE x == e \div g
               y == e % g
    <3> HIDE DEF e, a, o
    <3>2. x \in Int /\ y \in 0 .. g - 1 /\ e = x * g + y /\ x < n /\ y < n
      BY <1>2, <1>5, <3>1, DivMod
    <3> HIDE DEF x, y
    <3>3. x \in Nat
      <4>1. SUFFICES ASSUME x <= -1 PROVE FALSE
        BY <3>2
      <4>2. x * g <= (-1) * g
        BY <1>2, <3>2, <4>1
      <4>3. x * g \in Int
        BY <1>2, <3>2
      <4> QED BY <1>2, <1>5, <3>1, <3>2, <4>2, <4>3
    <3> DEFINE q == (2 * (u + x)) + par
    <3>4. q * s = (u * g) + (par * s) + (x * g) /\ q \in Nat
      BY <1>2, <3>3
    <3>5. p = q * s + (w + y)
      <4> DEFINE ug == u * g
                 ps == par * s
                 xg == x * g
                 qs == q * s
      <4>1. from = ug + ps + w /\ e = xg + y /\ qs = ug + ps + xg /\ ug \in Int /\ ps \in Int
              /\ xg \in Int /\ y \in Int
        BY <1>2, <1>4, <3>2, <3>4
      <4> HIDE DEF ug, ps, xg, qs
      <4>2. p = qs + (w + y)
        BY <1>5, <4>1
      <4> QED BY <4>2 DEF qs
    <3>6. p \div s = q /\ p % s = w + y
      <4> DEFINE t == w + y
      <4>1. t \in Int /\ 0 <= t /\ t < s
        BY <3>2
      <4>3. q \in Int
        BY <3>4
      <4> HIDE DEF t, q
      <4>2. (q * s + t) \div s = q /\ (q * s + t) % s = t
        BY <4>1, <4>3, DivUnique, Zenon
      <4> QED BY <3>5, <4>2 DEF t
    <3>7. p \div s = r /\ p % s = b
      BY CellIs
    <3>8. r = 2 * (u + x) + par /\ b = w + y /\ u + x \in Int
      BY <3>3, <3>6, <3>7
    <3>9. a = u + x /\ o = par
      <4> DEFINE m == u + x
      <4>1. m \in Int /\ 2 * m + par = 2 * a + o
        BY <1>1, <3>8
      <4> HIDE DEF m
      <4>2. o = par
        <5>1. 2 * (m - a) = o - par /\ m - a \in Int /\ a \in Int
          BY <1>1, <4>1
        <5> DEFINE k == m - a
        <5>2. k \in Int /\ 2 * k = o - par
          BY <5>1
        <5> HIDE DEF k
        <5>3. CASE par = 0 /\ o = 1
          BY <5>2, <5>3
        <5>4. CASE par = 1 /\ o = 0
          BY <5>2, <5>4
        <5> QED BY <1>1, <5>3, <5>4
      <4>3. a = m
        BY <1>1, <4>1, <4>2
      <4> QED BY <4>2, <4>3 DEF m
    <3> QED BY <1>7, <3>2, <3>3, <3>8, <3>9
  <2> HIDE DEF e
  <2>2. Transposes!Stored(d, from, g, n, blk)[p] = d[p]
    BY <1>3, <2>1
  <2> QED BY <1>7, <2>2 DEF StoredByte, a, o
<1> QED BY <1>6, <1>7


(* Destinations with enough room between the rows. *)
Room == stride \in Nat /\ 32 <= stride
Dest(d) == d = [p \in 0 .. (64 * stride) - 1 |-> d[p]]

LEMMA Sizes64 == Side = 64 /\ Transposes!RowBytes = 32 /\ Transposes!RowBytes \div 2 = 16
  BY SquareAssumption DEF Transposes!RowBytes

LEMMA SrcAt ==
  /\ Transposes!Src = [p \in 0 .. (64 * 32) - 1 |-> Transposes!Src[p]]
  /\ \A r \in 0 .. 63 : \A b \in 0 .. 31 : Transposes!Src[(r * 32) + b] = Transposes!SrcByte(r, b)
<1>1. Transposes!Src = [p \in 0 .. (64 * 32) - 1 |-> Transposes!SrcByte(p \div 32, p % 32)]
  BY Sizes64 DEF Transposes!Src
<1>2. ASSUME NEW r \in 0 .. 63, NEW b \in 0 .. 31
      PROVE Transposes!Src[(r * 32) + b] = Transposes!SrcByte(r, b)
  <2>1. ((r * 32) + b) \div 32 = r /\ ((r * 32) + b) % 32 = b
    BY CellIs
  <2>2. (r * 32) + b \in 0 .. (64 * 32) - 1
    OBVIOUS
  <2> QED BY <1>1, <2>1, <2>2
<1> QED BY <1>1, <1>2

(* A square of n by n bytes of m, stored from byte w on in every other row. *)
SquareByte(z, d, m, from, r, b, u, w, n, par) ==
  z[(r * stride) + b] =
    IF r % 2 = par /\ (r \div 2) - u \in 0 .. n - 1 /\ b - w \in 0 .. n - 1
    THEN m[from + ((b - w) * 64) + ((r \div 2) - u)] ELSE d[(r * stride) + b]

LEMMA SquareStored ==
  ASSUME Room, NEW n \in {16, 32}, NEW u \in Nat, NEW w \in Nat, w + n <= 32, NEW par \in {0, 1},
         NEW d, Dest(d), NEW m, NEW from, NEW to, to = (((2 * u) + par) * stride) + w,
         NEW r \in 0 .. 63, NEW b \in 0 .. stride - 1
  PROVE  SquareByte(Transposes!Stored(d, to, 2 * stride, n,
           Transposes!Rounds(Transposes!Block(m, from, 64, n), n)), d, m, from, r, b, u, w, n,
           par)
<1> DEFINE blk == Transposes!Block(m, from, 64, n)
           rounds == Transposes!Rounds(blk, n)
           z == Transposes!Stored(d, to, 2 * stride, n, rounds)
           p == (r * stride) + b
           g == 2 * stride
<1>1. DOMAIN blk = 0 .. n - 1 /\ \A i, j \in 0 .. n - 1 : blk[i][j] = m[from + (i * 64) + j]
  BY DEF Transposes!Block
<1> HIDE DEF blk
<1>2. \A i, j \in 0 .. n - 1 : rounds[i][j] = m[from + (j * 64) + i]
  <2>1. Square(blk, n)
    BY <1>1 DEF Square
  <2>2. Transposed(Transposes!Rounds(blk, n), blk, n)
    BY <2>1, RoundsTranspose
  <2> QED BY <1>1, <2>2 DEF Transposed
<1> HIDE DEF rounds
<1>3. HasByte(d, p)
  <2>1. stride \in Nat \ {0} /\ 64 \in Nat /\ r \in 0 .. 64 - 1
    BY DEF Room
  <2>2. (r * stride) + b \in 0 .. (64 * stride) - 1
    BY <2>1, CellInside
  <2>3. DOMAIN d = 0 .. (64 * stride) - 1
    BY DEF Dest
  <2> QED BY <2>2, <2>3 DEF HasByte
<1>4. StoredByte(Transposes!Stored(d, to, g, n, rounds), d, rounds, p, r, b, u, w, n, par)
  <2>1. stride \in Nat \ {0} /\ n \in Nat \ {0} /\ w + n <= stride /\ r \in Nat
    BY DEF Room
  <2>2. p = (r * stride) + b /\ g = 2 * stride
    OBVIOUS
  <2>3. to = (((2 * u) + par) * stride) + w
    OBVIOUS
  <2> HIDE DEF p, g
  <2> QED BY <1>3, <2>1, <2>2, <2>3, StoredAt, ZenonT(30)
<1>5. SquareByte(z, d, m, from, r, b, u, w, n, par)
  <2> DEFINE x == (r \div 2) - u
             y == b - w
  <2>1. z[p] = IF r % 2 = par /\ x \in 0 .. n - 1 /\ y \in 0 .. n - 1 THEN rounds[x][y] ELSE d[p]
    BY <1>4 DEF StoredByte
  <2> HIDE DEF x, y, z, p
  <2>2. z[p] = IF r % 2 = par /\ x \in 0 .. n - 1
          /\ y \in 0 .. n - 1 THEN m[from + (y * 64) + x] ELSE d[p]
    BY <1>2, <2>1
  <2> QED BY <2>2 DEF SquareByte, p, x, y
<1> QED BY <1>5 DEF z, rounds, blk

LEMMA StoredDest ==
  ASSUME NEW d, Dest(d), NEW from, NEW step, NEW n, NEW blk
  PROVE  Dest(Transposes!Stored(d, from, step, n, blk))
<1>1. DOMAIN d = 0 .. (64 * stride) - 1
  BY DEF Dest
<1> QED BY <1>1 DEF Transposes!Stored, Dest

(* NEON: a quarter of the bytes of one parity. *)
QuarterOf(e, par, down, right) ==
  LET n == Transposes!RowBytes \div 2
  IN Transposes!byte_transpose_16x16_neon(e,
       (par * stride) + (down * n * (2 * stride)) + (right * n), 2 * stride,
       Transposes!Src, (par * Transposes!RowBytes) + (right * n * Side) + (down * n), Side, n)

QuarterByte(z, e, par, down, right, r, b) ==
  z[(r * stride) + b] =
    IF r % 2 = par /\ (r \div 2) - (16 * down) \in 0 .. 15 /\ b - (16 * right) \in 0 .. 15
    THEN Transposes!SrcByte((2 * b) + par, r \div 2) ELSE e[(r * stride) + b]

LEMMA QuarterAt ==
  ASSUME Room, NEW par \in {0, 1}, NEW down \in {0, 1}, NEW right \in {0, 1}, NEW e, Dest(e)
  PROVE  /\ Dest(QuarterOf(e, par, down, right))
         /\ \A r \in 0 .. 63 : \A b \in 0 .. stride - 1 :
              QuarterByte(QuarterOf(e, par, down, right), e, par, down, right, r, b)
<1> DEFINE u == 16 * down
           w == 16 * right
           to == (((2 * u) + par) * stride) + w
           from == (par * 32) + (w * 64) + u
           z == Transposes!Stored(e, to, 2 * stride, 16,
             Transposes!Rounds(Transposes!Block(Transposes!Src, from, 64, 16), 16))
<1>1. u \in Nat /\ w \in Nat /\ w + 16 <= 32 /\ u + 16 <= 32
  OBVIOUS
<1>2. QuarterOf(e, par, down, right) = z
  <2>1. (par * stride) + (down * 16 * (2 * stride)) + (right * 16) = to
    <3>1. stride \in Nat
      BY DEF Room
    <3>2. down = 0 \/ down = 1
      OBVIOUS
    <3> QED BY <3>1, <3>2
  <2>2. (par * 32) + (right * 16 * 64) + (down * 16) = from
    OBVIOUS
  <2> HIDE DEF to, from
  <2> QED BY <2>1, <2>2, Sizes64 DEF QuarterOf, Transposes!byte_transpose_16x16_neon
<1>3. Dest(z)
  BY StoredDest
<1>4. ASSUME NEW r \in 0 .. 63, NEW b \in 0 .. stride - 1
      PROVE  QuarterByte(z, e, par, down, right, r, b)
  <2>1. 16 \in {16, 32} /\ to = (((2 * u) + par) * stride) + w
    OBVIOUS
  <2>2. SquareByte(z, e, Transposes!Src, from, r, b, u, w, 16, par)
    <3> HIDE DEF from, to, u, w
    <3> QED BY <1>1, <2>1, SquareStored
  <2>3. ASSUME (r \div 2) - u \in 0 .. 15, b - w \in 0 .. 15
        PROVE  Transposes!Src[from + ((b - w) * 64) + ((r \div 2) - u)] =
                 Transposes!SrcByte((2 * b) + par, r \div 2)
    <3> DEFINE a == r \div 2
    <3>1. a \in Int
      OBVIOUS
    <3>2. b \in 0 .. 31 /\ a \in 0 .. 31 /\ (2 * b) + par \in 0 .. 63
      <4> HIDE DEF a, u, w
      <4>1. b \in Nat
        BY DEF Room
      <4>2. a - u \in 0 .. 15
        BY <2>3 DEF a
      <4> QED BY <1>1, <2>3, <3>1, <4>1, <4>2
    <3> HIDE DEF a
    <3>3. from + ((b - w) * 64) + (a - u) = (((2 * b) + par) * 32) + a
      BY <1>1, <3>2
    <3> QED BY <3>2, <3>3, SrcAt DEF a
  <2>4. (r \div 2) - u \in 0 .. 15 <=> (r \div 2) - u \in 0 .. 16 - 1
    OBVIOUS
  <2>5. b - w \in 0 .. 15 <=> b - w \in 0 .. 16 - 1
    OBVIOUS
  <2> HIDE DEF z, from, u, w
  <2>6. z[(r * stride) + b] =
          IF r % 2 = par /\ (r \div 2) - u \in 0 .. 15 /\ b - w \in 0 .. 15
          THEN Transposes!SrcByte((2 * b) + par, r \div 2) ELSE e[(r * stride) + b]
    BY <2>2, <2>3, <2>4, <2>5 DEF SquareByte
  <2> QED BY <2>6 DEF QuarterByte, u, w
<1> HIDE DEF z
<1> QED BY <1>2, <1>3, <1>4

(* What the half of one parity leaves: its rows transposed, the others as they were. *)
HalfByte(z, d, par, r, b) ==
  z[(r * stride) + b] =
    IF r % 2 = par /\ b < 32 THEN Transposes!SrcByte((2 * b) + par,
      r \div 2) ELSE d[(r * stride) + b]

LEMMA NeonPass ==
  ASSUME Room, NEW par \in {0, 1}, NEW d, Dest(d)
  PROVE  /\ Dest(Transposes!gf256mat_transpose_32x32_neon(d, par * stride,
              par * Transposes!RowBytes))
         /\ \A r \in 0 .. 63 : \A b \in 0 .. stride - 1 :
              HalfByte(Transposes!gf256mat_transpose_32x32_neon(d, par * stride,
                par * Transposes!RowBytes), d, par, r, b)
<1> DEFINE d1 == QuarterOf(d, par, 0, 0)
           d2 == QuarterOf(d1, par, 0, 1)
           d3 == QuarterOf(d2, par, 1, 0)
           d4 == QuarterOf(d3, par, 1, 1)
           z == Transposes!gf256mat_transpose_32x32_neon(d, par * stride, par * Transposes!RowBytes)
<1>1. z = d4
  BY DEF Transposes!gf256mat_transpose_32x32_neon, QuarterOf
<1> HIDE DEF d4, z
<1>2. 0 \in {0, 1} /\ 1 \in {0, 1}
  OBVIOUS
<1>3. Dest(d1) /\ \A r \in 0 .. 63 : \A b \in 0 .. stride - 1 : QuarterByte(d1, d, par, 0, 0, r, b)
  BY <1>2, QuarterAt
<1> HIDE DEF d1
<1>4. Dest(d2) /\ \A r \in 0 .. 63 : \A b \in 0 .. stride - 1 : QuarterByte(d2, d1, par, 0, 1, r, b)
  BY <1>2, <1>3, QuarterAt
<1> HIDE DEF d2
<1>5. Dest(d3) /\ \A r \in 0 .. 63 : \A b \in 0 .. stride - 1 : QuarterByte(d3, d2, par, 1, 0, r, b)
  BY <1>2, <1>4, QuarterAt
<1> HIDE DEF d3
<1>6. Dest(d4) /\ \A r \in 0 .. 63 : \A b \in 0 .. stride - 1 : QuarterByte(d4, d3, par, 1, 1, r, b)
  BY <1>2, <1>5, QuarterAt DEF d4
<1>7. ASSUME NEW r \in 0 .. 63, NEW b \in 0 .. stride - 1
      PROVE  HalfByte(d4, d, par, r, b)
  <2> DEFINE v == Transposes!SrcByte((2 * b) + par, r \div 2)
             p == (r * stride) + b
             a == r \div 2
  <2>1. d1[p] = IF r % 2 = par /\ a - (16 * 0) \in 0 .. 15
          /\ b - (16 * 0) \in 0 .. 15 THEN v ELSE d[p]
    BY <1>3 DEF QuarterByte
  <2>2. d2[p] = IF r % 2 = par /\ a - (16 * 0) \in 0 .. 15
          /\ b - (16 * 1) \in 0 .. 15 THEN v ELSE d1[p]
    BY <1>4 DEF QuarterByte
  <2>3. d3[p] = IF r % 2 = par /\ a - (16 * 1) \in 0 .. 15
          /\ b - (16 * 0) \in 0 .. 15 THEN v ELSE d2[p]
    BY <1>5 DEF QuarterByte
  <2>4. d4[p] = IF r % 2 = par /\ a - (16 * 1) \in 0 .. 15
          /\ b - (16 * 1) \in 0 .. 15 THEN v ELSE d3[p]
    BY <1>6 DEF QuarterByte
  <2>5. a \in 0 .. 31 /\ b \in Nat
    BY DEF Room
  <2> HIDE DEF v, p, a
  <2>6. b < 32 <=> b \in 0 .. 15 \/ b - 16 \in 0 .. 15
    BY <2>5
  <2>7. a \in 0 .. 15 \/ a - 16 \in 0 .. 15
    BY <2>5
  <2>8. a - (16 * 0) = a /\ b - (16 * 0) = b /\ 16 * 1 = 16
    BY <2>5
  <2>9. d4[p] = IF r % 2 = par /\ b < 32 THEN v ELSE d[p]
    BY <2>1, <2>2, <2>3, <2>4, <2>6, <2>7, <2>8
  <2> QED BY <2>9 DEF HalfByte, v, p
<1> QED BY <1>1, <1>6, <1>7 DEF z


(* Where the bytes of one row lie; no other row's byte lies there. *)
LEMMA RowApart ==
  ASSUME Room, NEW k \in 0 .. 63, NEW r \in 0 .. 63, NEW b \in 0 .. stride - 1
  PROVE  (r * stride) + b \in (k * stride) .. (k * stride) + 31 <=> r = k /\ b < 32
<1> DEFINE x == r * stride
           y == k * stride
<1>1. x \in Nat /\ y \in Nat /\ stride \in Nat /\ 32 <= stride /\ b \in Nat
  BY DEF Room
<1>2. CASE r = k
  <2>1. x = y
    BY <1>2
  <2> HIDE DEF x, y
  <2> QED BY <1>1, <1>2, <2>1 DEF x, y
<1>3. CASE r < k
  <2>1. (r + 1) * stride <= k * stride /\ (r + 1) * stride = x + stride
    BY <1>1, <1>3
  <2>2. x + stride <= y
    BY <2>1
  <2>3. x + b < y
    <3> HIDE DEF x, y
    <3> QED BY <1>1, <2>2
  <2>4. x + b \in y .. y + 31 <=> r = k /\ b < 32
    <3> HIDE DEF x, y
    <3> QED BY <1>1, <1>3, <2>3
  <2> QED BY <2>4
<1>4. CASE k < r
  <2>1. (k + 1) * stride <= r * stride /\ (k + 1) * stride = y + stride
    BY <1>1, <1>4
  <2>2. y + stride <= x
    BY <2>1
  <2>3. y + 31 < x + b
    <3> HIDE DEF x, y
    <3> QED BY <1>1, <2>2
  <2>4. x + b \in y .. y + 31 <=> r = k /\ b < 32
    <3> HIDE DEF x, y
    <3> QED BY <1>1, <1>4, <2>3
  <2> QED BY <2>4
<1> QED BY <1>2, <1>3, <1>4

(* A byte of the destination is inside it. *)
LEMMA CellOf ==
  ASSUME Room, NEW d, Dest(d), NEW r \in 0 .. 63, NEW b \in 0 .. stride - 1
  PROVE  HasByte(d, (r * stride) + b)
<1>1. stride \in Nat \ {0} /\ 64 \in Nat /\ r \in 0 .. 64 - 1
  BY DEF Room
<1>2. (r * stride) + b \in 0 .. (64 * stride) - 1
  BY <1>1, CellInside
<1>3. DOMAIN d = 0 .. (64 * stride) - 1
  BY DEF Dest
<1> QED BY <1>2, <1>3 DEF HasByte

(* avx2: the rows of one parity, read from the destination itself. *)
LEMMA AvxPass ==
  ASSUME stride = 32, NEW par \in {0, 1}, NEW d, Dest(d),
         \A r \in 0 .. 63 : \A b \in 0 .. 31 : r % 2 = par
           => d[(r * 32) + b] = Transposes!SrcByte(r, b)
  PROVE  /\ Dest(Transposes!gf256mat_transpose_32x32_even(d, par * 32))
         /\ \A r \in 0 .. 63 : \A b \in 0 .. 31 :
              HalfByte(Transposes!gf256mat_transpose_32x32_even(d, par * 32), d, par, r, b)
<1> DEFINE to == par * 32
           z == Transposes!Stored(d, to, 2 * stride, 32,
             Transposes!Rounds(Transposes!Block(d, to, 64, 32), 32))
<1>1. Transposes!gf256mat_transpose_32x32_even(d, to) = z
  <2>1. 2 * stride = 64
    OBVIOUS
  <2> HIDE DEF to
  <2> QED BY <2>1, Sizes64 DEF Transposes!gf256mat_transpose_32x32_even
<1>2. Dest(z)
  BY StoredDest
<1>3. ASSUME NEW r \in 0 .. 63, NEW b \in 0 .. 31
      PROVE  HalfByte(z, d, par, r, b)
  <2> DEFINE none == 0
             n == 32
  <2>1. /\ Room /\ n \in {16, 32} /\ none \in Nat /\ none + n <= 32 /\ b \in 0 .. stride - 1
        /\ to = (((2 * none) + par) * stride) + none
    BY DEF Room
  <2>2. SquareByte(z, d, d, to, r, b, none, none, n, par)
    <3>1. z = Transposes!Stored(d, to, 2 * stride, n,
            Transposes!Rounds(Transposes!Block(d, to, 64, n), n))
      OBVIOUS
    <3> HIDE DEF to, none, n, z
    <3>2. SquareByte(Transposes!Stored(d, to, 2 * stride, n,
            Transposes!Rounds(Transposes!Block(d, to, 64, n), n)), d, d, to, r, b, none, none, n,
            par)
      BY <2>1, SquareStored, ZenonT(30)
    <3> QED BY <3>1, <3>2
  <2> DEFINE a == r \div 2
             p == (r * stride) + b
  <2>3. a \in 0 .. 31 /\ a - 0 = a /\ b - 0 = b /\ 32 - 1 = 31 /\ b < 32
    OBVIOUS
  <2>4. d[to + (b * 64) + a] = Transposes!SrcByte((2 * b) + par, a)
    <3> DEFINE k == (2 * b) + par
    <3>1. k \in 0 .. 63 /\ k % 2 = par /\ to + (b * 64) + a = (k * 32) + a
      BY <2>3
    <3> HIDE DEF k, to, a
    <3>2. d[(k * 32) + a] = Transposes!SrcByte(k, a)
      BY <2>3, <3>1
    <3> QED BY <3>1, <3>2 DEF k
  <2>5. z[p] = IF r % 2 = par /\ a \in 0 .. 31 /\ b \in 0 .. 31 THEN d[to + (b * 64) + a] ELSE d[p]
    <3> HIDE DEF z, to
    <3> QED BY <2>2, <2>3 DEF SquareByte
  <2> HIDE DEF z, to, p, a
  <2>6. z[p] = IF r % 2 = par /\ b < 32 THEN Transposes!SrcByte((2 * b) + par, a) ELSE d[p]
    BY <2>3, <2>4, <2>5
  <2> QED BY <2>6 DEF HalfByte, p, a
<1> HIDE DEF z, to
<1> QED BY <1>1, <1>2, <1>3 DEF to

(* What a byte of the destination holds at the end. *)
Finished(r, b) == IF b < 32 THEN << Transposes!Element(2 * b, r),
  Transposes!Element((2 * b) + 1, r) >> ELSE Transposes!Untouched

LEMMA PairsFinish ==
  ASSUME Room, NEW d, Dest(d),
         \A r \in 0 .. 63 : \A b \in 0 .. stride - 1 :
           d[(r * stride) + b] = IF b < 32 THEN Transposes!SrcByte((2 * b) + (r % 2),
             r \div 2) ELSE Transposes!Untouched
  PROVE  /\ Dest(Transposes!Pairs(d))
         /\ \A r \in 0 .. 63 : \A b \in 0 .. stride - 1 :
               Transposes!Pairs(d)[(r * stride) + b] = Finished(r, b)
<1>1. Dest(Transposes!Pairs(d))
  <2>1. DOMAIN d = 0 .. (64 * stride) - 1
    BY DEF Dest
  <2> QED BY <2>1 DEF Dest, Transposes!Pairs
<1>2. ASSUME NEW r \in 0 .. 63, NEW b \in 0 .. stride - 1
      PROVE  Transposes!Pairs(d)[(r * stride) + b] = Finished(r, b)
  <2> DEFINE p == (r * stride) + b
  <2>1. p \in DOMAIN d
    BY CellOf DEF HasByte
  <2>2. p \div stride = r /\ p % stride = b
    <3>1. stride \in Nat \ {0} /\ r \in Nat
      BY DEF Room
    <3> QED BY <3>1, CellIs
  <2>3. Transposes!Pairs(d)[p] = IF b >= 32 THEN d[p]
                      ELSE IF (r % 2) = 0 THEN << d[p][1], d[p + stride][1] >>
                      ELSE << d[p - stride][2], d[p][2] >>
    <3> HIDE DEF p
    <3> QED BY <2>1, <2>2, Sizes64 DEF Transposes!Pairs
  <2>4. b \in Nat /\ stride \in Nat
    BY DEF Room
  <2>5. CASE b >= 32
    <3>1. d[p] = Transposes!Untouched
      <4>1. d[p] = IF b < 32 THEN Transposes!SrcByte((2 * b) + (r % 2),
              r \div 2) ELSE Transposes!Untouched
        OBVIOUS
      <4> HIDE DEF p
      <4> QED BY <2>4, <2>5, <4>1
    <3> HIDE DEF p
    <3> QED BY <2>3, <2>4, <2>5, <3>1 DEF Finished, p
  <2>6. CASE b < 32 /\ r % 2 = 0
    <3>1. r + 1 \in 0 .. 63 /\ (r + 1) % 2 = 1 /\ (r + 1) \div 2 = r \div 2 /\ 2 * (r \div 2) = r
      BY <2>6
    <3>2. d[p] = Transposes!SrcByte(2 * b, r \div 2)
      BY <2>6
    <3>3. d[((r + 1) * stride) + b] = Transposes!SrcByte((2 * b) + 1, r \div 2)
      BY <2>6, <3>1
    <3>4. ((r + 1) * stride) + b = p + stride
      BY <2>4
    <3>5. d[p + stride] = Transposes!SrcByte((2 * b) + 1, r \div 2)
      BY <3>3, <3>4
    <3> HIDE DEF p
    <3>6. Transposes!Pairs(d)[p] = << d[p][1], d[p + stride][1] >>
      BY <2>3, <2>4, <2>6
    <3>7. Transposes!SrcByte(2 * b, r \div 2)[1] = Transposes!Element(2 * b, r)
      BY <2>4, <3>1 DEF Transposes!SrcByte
    <3>8. Transposes!SrcByte((2 * b) + 1, r \div 2)[1] = Transposes!Element((2 * b) + 1, r)
      BY <2>4, <3>1 DEF Transposes!SrcByte
    <3>9. Transposes!Pairs(d)[p] = << Transposes!Element(2 * b, r),
            Transposes!Element((2 * b) + 1, r) >>
      BY <3>2, <3>5, <3>6, <3>7, <3>8
    <3> QED BY <2>6, <3>9 DEF Finished, p
  <2>7. CASE b < 32 /\ r % 2 = 1
    <3>1. r - 1 \in 0 .. 63 /\ (r - 1) % 2 = 0 /\ (r - 1) \div 2 = r \div 2
            /\ 2 * (r \div 2) + 1 = r
      BY <2>7
    <3>2. d[p] = Transposes!SrcByte((2 * b) + 1, r \div 2)
      BY <2>7
    <3>3. d[((r - 1) * stride) + b] = Transposes!SrcByte(2 * b, r \div 2)
      BY <2>7, <3>1
    <3>4. ((r - 1) * stride) + b = p - stride
      BY <2>4
    <3>5. d[p - stride] = Transposes!SrcByte(2 * b, r \div 2)
      BY <3>3, <3>4
    <3> HIDE DEF p
    <3>6. Transposes!Pairs(d)[p] = << d[p - stride][2], d[p][2] >>
      BY <2>3, <2>4, <2>7
    <3>7. Transposes!SrcByte(2 * b, r \div 2)[2] = Transposes!Element(2 * b, r)
      BY <2>4, <3>1 DEF Transposes!SrcByte
    <3>8. Transposes!SrcByte((2 * b) + 1, r \div 2)[2] = Transposes!Element((2 * b) + 1, r)
      BY <2>4, <3>1 DEF Transposes!SrcByte
    <3>9. Transposes!Pairs(d)[p] = << Transposes!Element(2 * b, r),
            Transposes!Element((2 * b) + 1, r) >>
      BY <3>2, <3>5, <3>6, <3>7, <3>8
    <3> QED BY <2>7, <3>9 DEF Finished, p
  <2>8. r % 2 \in {0, 1}
    OBVIOUS
  <2> QED BY <2>4, <2>5, <2>6, <2>7, <2>8
<1> QED BY <1>1, <1>2


(* What a byte holds when the first k rows, or the first k parts of the    *)
(* work in registers, are done.                                            *)
Expected(k, r, b) ==
  IF how = "elements" THEN IF r < k THEN Finished(r, b) ELSE Transposes!Untouched
  ELSE IF k = 0 THEN Transposes!Untouched
  ELSE IF k = 3 THEN Finished(r, b)
  ELSE IF b < 32 /\ (r % 2 = 0 \/ k = 2) THEN Transposes!SrcByte((2 * b) + (r % 2), r \div 2)
  ELSE IF how = "neon" THEN Transposes!Untouched ELSE Transposes!SrcByte(r, b)
Filled(d, k) ==
  Dest(d) /\ \A r \in 0 .. 63 : \A b \in 0 .. stride - 1 : d[(r * stride) + b] = Expected(k, r, b)

TransposeInv ==
  /\ how \in {"elements", "neon", "avx2"} /\ stride \in Strides
  /\ how = "avx2" => stride = 32
  /\ at \in 0 .. Transposes!Done
  /\ Filled(matrix, at)

LEMMA TransposeInit == Transposes!Init => TransposeInv
<1> SUFFICES ASSUME Transposes!Init PROVE TransposeInv
  OBVIOUS
<1>1. how \in {"elements", "neon", "avx2"} /\ stride \in Strides /\ (how = "avx2" => stride = 32)
        /\ at = 0
  BY Sizes64 DEF Transposes!Init
<1>2. Room
  BY <1>1, SquareAssumption DEF Room
<1>3. matrix = [p \in 0 .. (64 * stride) - 1 |-> Transposes!Untouched]
  BY Sizes64 DEF Transposes!Init
<1>4. Dest(matrix)
  BY <1>3 DEF Dest
<1>5. ASSUME NEW r \in 0 .. 63, NEW b \in 0 .. stride - 1
      PROVE  matrix[(r * stride) + b] = Expected(at, r, b)
  <2>1. HasByte(matrix, (r * stride) + b)
    BY <1>2, <1>4, CellOf
  <2>2. matrix[(r * stride) + b] = Transposes!Untouched
    <3> DEFINE p == (r * stride) + b
    <3> HIDE DEF p
    <3>1. HasByte(matrix, p)
      BY <2>1 DEF p
    <3>2. matrix[p] = Transposes!Untouched
      BY <1>3, <3>1 DEF HasByte
    <3> QED BY <3>2 DEF p
  <2>3. ~(r < 0)
    OBVIOUS
  <2> QED BY <1>1, <2>2, <2>3 DEF Expected
<1>6. 0 \in 0 .. Transposes!Done
  BY Sizes64 DEF Transposes!Done
<1> QED BY <1>1, <1>4, <1>5, <1>6 DEF TransposeInv, Filled

(* A part of the work leaves the bytes the next one expects. *)
LEMMA ElementsRow ==
  ASSUME TransposeInv, Transposes!gf16mat_sqmat_transpose
  PROVE  at + 1 \in 0 .. Transposes!Done /\ Filled(matrix', at + 1)
<1>1. how = "elements" /\ Transposes!Done = 64 /\ at \in 0 .. 63 /\ Room /\ Filled(matrix, at)
  BY Sizes64, SquareAssumption
        DEF TransposeInv, Transposes!gf16mat_sqmat_transpose, Transposes!Done, Room
<1> DEFINE own(p) == LET b == p - (at * stride)
                     IN << Transposes!Element(2 * b, at), Transposes!Element((2 * b) + 1, at) >>
           lo == at * stride
<1>2. matrix' = [p \in DOMAIN matrix |-> IF p \in lo .. lo + 32 - 1 THEN own(p) ELSE matrix[p]]
  BY Sizes64 DEF Transposes!gf16mat_sqmat_transpose
<1>3. lo + 32 - 1 = lo + 31
  BY <1>1 DEF Room
<1>4. Dest(matrix')
  <2>1. DOMAIN matrix = 0 .. (64 * stride) - 1
    BY <1>1 DEF Filled, Dest
  <2>2. DOMAIN matrix' = 0 .. (64 * stride) - 1 /\ matrix' = [p \in DOMAIN matrix' |-> matrix'[p]]
    BY <1>2, <2>1
  <2> QED BY <2>2 DEF Dest
<1>5. ASSUME NEW r \in 0 .. 63, NEW b \in 0 .. stride - 1
      PROVE  matrix'[(r * stride) + b] = Expected(at + 1, r, b)
  <2> DEFINE p == (r * stride) + b
  <2>1. HasByte(matrix, p)
    BY <1>1, CellOf DEF Filled
  <2>2. p \in lo .. lo + 31 <=> r = at /\ b < 32
    BY <1>1, RowApart
  <2>3. matrix[p] = IF r < at THEN Finished(r, b) ELSE Transposes!Untouched
    <3>1. matrix[p] = Expected(at, r, b)
      BY <1>1 DEF Filled
    <3> HIDE DEF p
    <3> QED BY <1>1, <3>1 DEF Expected
  <2>4. r = at /\ b < 32 => own(p) = Finished(r, b)
    <3>1. SUFFICES ASSUME r = at, b < 32 PROVE own(p) = Finished(r, b)
      OBVIOUS
    <3>2. p - lo = b
      <4>1. p = lo + b /\ lo \in Int
        BY <1>1, <3>1 DEF Room
      <4> HIDE DEF p, lo
      <4> QED BY <4>1
    <3> HIDE DEF p
    <3>3. own(p) = << Transposes!Element(2 * b, at), Transposes!Element((2 * b) + 1, at) >>
      BY <3>2
    <3> QED BY <3>1, <3>3 DEF Finished
  <2> HIDE DEF own, p, lo
  <2>5. matrix'[p] = IF r = at
          /\ b < 32 THEN Finished(r, b) ELSE IF r < at THEN Finished(r,
          b) ELSE Transposes!Untouched
    BY <1>2, <1>3, <2>1, <2>2, <2>3, <2>4 DEF HasByte
  <2>6. ~(b < 32) => Finished(r, b) = Transposes!Untouched
    BY DEF Finished
  <2>7. r < at + 1 <=> r < at \/ r = at
    BY <1>1
  <2>8. matrix'[p] = IF r < at + 1 THEN Finished(r, b) ELSE Transposes!Untouched
    BY <1>1, <2>5, <2>6, <2>7
  <2> QED BY <1>1, <2>8 DEF Expected, p
<1>6. at + 1 \in 0 .. Transposes!Done
  BY <1>1
<1> HIDE DEF own, lo
<1> QED BY <1>4, <1>5, <1>6 DEF Filled

LEMMA LastPart ==
  ASSUME Room, how \in {"neon", "avx2"}, how = "avx2" => stride = 32, NEW d, Filled(d, 2)
  PROVE  Filled(Transposes!Pairs(d), 3)
<1>1. Dest(d)
  BY DEF Filled
<1>2. ASSUME NEW r \in 0 .. 63, NEW b \in 0 .. stride - 1
      PROVE  d[(r * stride) + b] = IF b < 32 THEN Transposes!SrcByte((2 * b) + (r % 2),
               r \div 2) ELSE Transposes!Untouched
  <2>1. d[(r * stride) + b] = Expected(2, r, b)
    BY DEF Filled
  <2>2. how = "avx2" => b < 32
    OBVIOUS
  <2>3. Expected(2, r, b) = IF b < 32 THEN Transposes!SrcByte((2 * b) + (r % 2),
          r \div 2) ELSE Transposes!Untouched
    BY <2>2 DEF Expected
  <2> QED BY <2>1, <2>3
<1>3. Dest(Transposes!Pairs(d))
        /\ \A r \in 0 .. 63 : \A b \in 0 .. stride - 1 :
              Transposes!Pairs(d)[(r * stride) + b] = Finished(r, b)
  BY <1>1, <1>2, PairsFinish
<1>4. ASSUME NEW r \in 0 .. 63, NEW b \in 0 .. stride - 1 PROVE Expected(3, r, b) = Finished(r, b)
  BY DEF Expected
<1> QED BY <1>3, <1>4 DEF Filled

(* The halves of one parity: first the even rows, then the odd ones. *)
LEMMA NeonHalf ==
  ASSUME Room, how = "neon", NEW par \in {0, 1}, NEW d, Filled(d, par)
  PROVE  Filled(Transposes!gf256mat_transpose_32x32_neon(d, par * stride,
           par * Transposes!RowBytes), par + 1)
<1> DEFINE z == Transposes!gf256mat_transpose_32x32_neon(d, par * stride, par * Transposes!RowBytes)
<1>1. Dest(z) /\ \A r \in 0 .. 63 : \A b \in 0 .. stride - 1 : HalfByte(z, d, par, r, b)
  BY NeonPass DEF Filled
<1>2. ASSUME NEW r \in 0 .. 63, NEW b \in 0 .. stride - 1
      PROVE  z[(r * stride) + b] = Expected(par + 1, r, b)
  <2>1. z[(r * stride) + b] = IF r % 2 = par
          /\ b < 32 THEN Transposes!SrcByte((2 * b) + par, r \div 2) ELSE Expected(par, r, b)
    <3>1. d[(r * stride) + b] = Expected(par, r, b)
      BY DEF Filled
    <3> QED BY <1>1, <3>1 DEF HalfByte
  <2> DEFINE e == z[(r * stride) + b]
             v(q) == Transposes!SrcByte((2 * b) + q, r \div 2)
  <2>2. e = IF r % 2 = par /\ b < 32 THEN v(par) ELSE Expected(par, r, b)
    BY <2>1
  <2>3. \A k \in {1, 2} : Expected(k, r, b) = IF b < 32
          /\ (r % 2 = 0 \/ k = 2) THEN v(r % 2) ELSE Transposes!Untouched
    BY DEF Expected
  <2>4. Expected(0, r, b) = Transposes!Untouched
    BY DEF Expected
  <2>5. r % 2 \in {0, 1}
    OBVIOUS
  <2> HIDE DEF e, v
  <2>6. CASE par = 0
    <3>1. par + 1 = 1
      BY <2>6
    <3> QED BY <2>2, <2>3, <2>4, <2>6, <3>1 DEF e
  <2>7. CASE par = 1
    <3>1. par + 1 = 2
      BY <2>7
    <3> QED BY <2>2, <2>3, <2>5, <2>7, <3>1 DEF e
  <2> QED BY <2>6, <2>7
<1> HIDE DEF z
<1>3. Filled(z, par + 1)
  BY <1>1, <1>2 DEF Filled
<1> QED BY <1>3 DEF z

(* What the avx2 halves read: the source, then what the first half left. *)
ReadBy(d, par) ==
  \A r \in 0 .. 63 : \A b \in 0 .. 31 :
    d[(r * 32) + b] = IF par = 0 THEN Transposes!SrcByte(r, b) ELSE Expected(1, r, b)

LEMMA AvxHalf ==
  ASSUME stride = 32, how = "avx2", NEW par \in {0, 1}, NEW d, Dest(d), ReadBy(d, par)
  PROVE  Filled(Transposes!gf256mat_transpose_32x32_even(d, par * 32), par + 1)
<1> DEFINE z == Transposes!gf256mat_transpose_32x32_even(d, par * 32)
<1>0. \A k \in {1, 2} : \A r \in 0 .. 63 : \A b \in 0 .. 31 :
        Expected(k, r, b) = IF r % 2 = 0
          \/ k = 2 THEN Transposes!SrcByte((2 * b) + (r % 2),
          r \div 2) ELSE Transposes!SrcByte(r, b)
  BY DEF Expected
<1>1. \A r \in 0 .. 63 : \A b \in 0 .. 31 : r % 2 = par
        => d[(r * 32) + b] = Transposes!SrcByte(r, b)
  <2>1. ASSUME NEW r \in 0 .. 63, NEW b \in 0 .. 31, r % 2 = par
        PROVE d[(r * 32) + b] = Transposes!SrcByte(r, b)
    <3> DEFINE e == d[(r * 32) + b]
    <3>1. e = IF par = 0 THEN Transposes!SrcByte(r, b) ELSE Expected(1, r, b)
      BY DEF ReadBy
    <3>2. par = 1 => Expected(1, r, b) = Transposes!SrcByte(r, b)
      BY <1>0, <2>1
    <3> HIDE DEF e
    <3> QED BY <3>1, <3>2 DEF e
  <2> QED BY <2>1
<1>2. Dest(z) /\ \A r \in 0 .. 63 : \A b \in 0 .. 31 : HalfByte(z, d, par, r, b)
  BY <1>1, AvxPass
<1> HIDE DEF z
<1>3. ASSUME NEW r \in 0 .. 63, NEW b \in 0 .. stride - 1
      PROVE  z[(r * stride) + b] = Expected(par + 1, r, b)
  <2> DEFINE p == (r * stride) + b
             v(q) == Transposes!SrcByte((2 * b) + q, r \div 2)
  <2>0. b \in 0 .. 31 /\ p = (r * 32) + b
    OBVIOUS
  <2>1. z[p] = IF r % 2 = par /\ b < 32 THEN v(par) ELSE d[p]
    BY <1>2, <2>0 DEF HalfByte
  <2>2. d[p] = IF par = 0 THEN Transposes!SrcByte(r, b) ELSE Expected(1, r, b)
    <3> HIDE DEF p
    <3> QED BY <2>0 DEF ReadBy
  <2>3. \A k \in {1, 2} : Expected(k, r, b) = IF r % 2 = 0
          \/ k = 2 THEN v(r % 2) ELSE Transposes!SrcByte(r, b)
    BY <1>0, <2>0
  <2>4. r % 2 \in {0, 1} /\ b < 32
    <3> HIDE DEF p, v
    <3> QED BY <2>0
  <2> HIDE DEF p, v
  <2>5. CASE par = 0
    <3>1. par + 1 = 1
      BY <2>5
    <3> QED BY <2>1, <2>2, <2>3, <2>4, <2>5, <3>1 DEF p
  <2>6. CASE par = 1
    <3>1. par + 1 = 2
      BY <2>6
    <3> QED BY <2>1, <2>2, <2>3, <2>4, <2>6, <3>1 DEF p
  <2> QED BY <2>5, <2>6
<1>4. Filled(z, par + 1)
  BY <1>2, <1>3 DEF Filled
<1> QED BY <1>4 DEF z

LEMMA NeonPart ==
  ASSUME TransposeInv, Transposes!gf16mat_64x64_sqmat_transpose_neon
  PROVE  at + 1 \in 0 .. Transposes!Done /\ Filled(matrix', at + 1)
<1>1. how = "neon" /\ Transposes!Done = 3 /\ at \in {0, 1, 2} /\ Room /\ Filled(matrix, at)
  BY SquareAssumption
        DEF TransposeInv, Transposes!gf16mat_64x64_sqmat_transpose_neon, Transposes!Done, Room
<1>2. CASE at = 0
  <2>1. matrix' = Transposes!gf256mat_transpose_32x32_neon(matrix, 0, 0)
    BY <1>2 DEF Transposes!gf16mat_64x64_sqmat_transpose_neon
  <2>2. 0 * stride = 0 /\ 0 * Transposes!RowBytes = 0 /\ 0 + 1 = 1
    BY <1>1, Sizes64 DEF Room
  <2>3. Filled(Transposes!gf256mat_transpose_32x32_neon(matrix, 0 * stride,
          0 * Transposes!RowBytes), 0 + 1)
    BY <1>1, <1>2, NeonHalf
  <2> QED BY <1>1, <1>2, <2>1, <2>2, <2>3
<1>3. CASE at = 1
  <2>1. matrix' = Transposes!gf256mat_transpose_32x32_neon(matrix, stride, Transposes!RowBytes)
    BY <1>3 DEF Transposes!gf16mat_64x64_sqmat_transpose_neon
  <2>2. 1 * stride = stride /\ 1 * Transposes!RowBytes = Transposes!RowBytes /\ 1 + 1 = 2
    BY <1>1, Sizes64 DEF Room
  <2>3. Filled(Transposes!gf256mat_transpose_32x32_neon(matrix, 1 * stride,
          1 * Transposes!RowBytes), 1 + 1)
    BY <1>1, <1>3, NeonHalf
  <2> QED BY <1>1, <1>3, <2>1, <2>2, <2>3
<1>4. CASE at = 2
  <2>1. matrix' = Transposes!Pairs(matrix)
    BY <1>4 DEF Transposes!gf16mat_64x64_sqmat_transpose_neon
  <2>2. Filled(Transposes!Pairs(matrix), 3)
    BY <1>1, <1>4, LastPart
  <2> QED BY <1>1, <1>4, <2>1, <2>2
<1> QED BY <1>1, <1>2, <1>3, <1>4

LEMMA AvxPart ==
  ASSUME TransposeInv, Transposes!gf16mat_transpose_64x64
  PROVE  at + 1 \in 0 .. Transposes!Done /\ Filled(matrix', at + 1)
<1>1. how = "avx2" /\ stride = 32 /\ Transposes!Done = 3 /\ at \in {0, 1, 2} /\ Room
        /\ Filled(matrix, at)
  BY DEF TransposeInv, Transposes!gf16mat_transpose_64x64, Transposes!Done, Room
<1>2. CASE at = 0
  <2>1. matrix' = Transposes!gf256mat_transpose_32x32_even(Transposes!Src, 0)
    BY <1>2 DEF Transposes!gf16mat_transpose_64x64
  <2>2. Dest(Transposes!Src)
    BY <1>1, SrcAt DEF Dest
  <2>3. ReadBy(Transposes!Src, 0)
    BY SrcAt DEF ReadBy
  <2>4. Filled(Transposes!gf256mat_transpose_32x32_even(Transposes!Src, 0 * 32), 0 + 1)
    BY <1>1, <2>2, <2>3, AvxHalf
  <2>5. 0 * 32 = 0 /\ 0 + 1 = 1
    OBVIOUS
  <2> QED BY <1>1, <1>2, <2>1, <2>4, <2>5
<1>3. CASE at = 1
  <2>1. matrix' = Transposes!gf256mat_transpose_32x32_even(matrix, 32)
    BY <1>3, Sizes64 DEF Transposes!gf16mat_transpose_64x64
  <2>2. Dest(matrix)
    BY <1>1 DEF Filled
  <2>3. ReadBy(matrix, 1)
    BY <1>1, <1>3 DEF Filled, ReadBy
  <2>4. Filled(Transposes!gf256mat_transpose_32x32_even(matrix, 1 * 32), 1 + 1)
    BY <1>1, <2>2, <2>3, AvxHalf
  <2>5. 1 * 32 = 32 /\ 1 + 1 = 2
    OBVIOUS
  <2> QED BY <1>1, <1>3, <2>1, <2>4, <2>5
<1>4. CASE at = 2
  <2>1. matrix' = Transposes!Pairs(matrix)
    BY <1>4 DEF Transposes!gf16mat_transpose_64x64
  <2>2. Filled(Transposes!Pairs(matrix), 3)
    BY <1>1, <1>4, LastPart
  <2> QED BY <1>1, <1>4, <2>1, <2>2
<1> QED BY <1>1, <1>2, <1>3, <1>4

LEMMA TransposeStepKeeps == TransposeInv /\ [Transposes!Next]_(Transposes!vars) => TransposeInv'
<1> SUFFICES ASSUME TransposeInv, [Transposes!Next]_(Transposes!vars) PROVE TransposeInv'
  OBVIOUS
<1>1. CASE Transposes!Next
  <2>1. at + 1 \in 0 .. Transposes!Done /\ Filled(matrix', at + 1)
    BY <1>1, ElementsRow, NeonPart, AvxPart DEF Transposes!Next
  <2>2. at' = at + 1 /\ how' = how /\ stride' = stride
    BY <1>1 DEF Transposes!Next, Transposes!gf16mat_64x64_sqmat_transpose_neon,
       Transposes!gf16mat_transpose_64x64, Transposes!gf16mat_sqmat_transpose
  <2>3. Filled(matrix, at)'
    <3>1. Dest(matrix)'
      BY <2>1, <2>2 DEF Filled, Dest
    <3>2. ASSUME NEW r \in 0 .. 63, NEW b \in 0 .. stride' - 1
          PROVE  matrix'[(r * stride') + b] = Expected(at, r, b)'
      <4>1. matrix'[(r * stride') + b] = Expected(at + 1, r, b)
        BY <2>1, <2>2 DEF Filled
      <4>2. Expected(at, r, b)' = Expected(at + 1, r, b)
        BY <2>2 DEF Expected
      <4> QED BY <4>1, <4>2
    <3> QED BY <3>1, <3>2 DEF Filled
  <2>4. (at \in 0 .. Transposes!Done)'
    BY <2>1, <2>2 DEF Transposes!Done
  <2> QED BY <2>2, <2>3, <2>4 DEF TransposeInv
<1>2. CASE UNCHANGED Transposes!vars
  BY <1>2 DEF Transposes!vars, TransposeInv, Filled, Dest, Expected, Transposes!Done
<1> QED BY <1>1, <1>2

LEMMA TransposeInvRight == TransposeInv => Transposes!TransposeRight
<1> SUFFICES ASSUME TransposeInv, at = Transposes!Done, NEW r \in 0 .. Side - 1, NEW b \in 0 .. stride - 1
             PROVE  matrix[(r * stride) + b] =
                      IF b < Transposes!RowBytes THEN << Transposes!Element(2 * b, r),
                        Transposes!Element((2 * b) + 1, r) >> ELSE Transposes!Untouched
  BY DEF Transposes!TransposeRight
<1>1. r \in 0 .. 63
  BY Sizes64
<1>2. matrix[(r * stride) + b] = Expected(at, r, b)
  BY <1>1 DEF TransposeInv, Filled
<1>3. Expected(at, r, b) = Finished(r, b)
  <2>1. r < 64
    BY <1>1
  <2> QED BY <2>1, Sizes64 DEF Expected, Transposes!Done
<1> QED BY <1>2, <1>3, Sizes64 DEF Finished

(* The transposition of gf16mat_sqmat_transpose and its NEON and AVX2      *)
(* versions on its own: for every stride of the destination each element   *)
(* comes to its half of its byte, and the room between the rows stays.     *)
THEOREM TransposesAreRight == Transposes!Spec => []Transposes!TransposeRight
<1> QED BY TransposeInit, TransposeStepKeeps, TransposeInvRight, PTL DEF Transposes!Spec

-----------------------------------------------------------------------------
(* One kernel at a time.                                                   *)
Running ==
  /\ IF mode = "vector" THEN IInv ELSE NoVector
  /\ Contracted /\ mode = "product" => ProductInv
  /\ mode = "calls" => CallsInv
  /\ mode = "transpose" => TransposeInv

LEMMA RunningInit == MCInit => Running
  BY InitKeeps, ProductInitKeeps, CallsInit, TransposeInit DEF MCInit, Running

LEMMA RunningKept == Running /\ [MCNext]_<<mode, vector, product, calls, transposes>> => Running'
<1> SUFFICES ASSUME Running, [MCNext]_<<mode, vector, product, calls, transposes>> PROVE Running'
  OBVIOUS
<1>1. mode' = mode
  BY DEF MCNext
<1>2. IF mode = "vector" THEN IInv' ELSE NoVector'
  <2>1. CASE mode = "vector"
    <3>1. [Next]_vars
      BY <2>1 DEF MCNext, vector, vars
    <3> QED BY <2>1, <3>1, StepKeeps DEF Running
  <2>2. CASE mode # "vector"
    <3>1. UNCHANGED vector
      BY <2>2 DEF MCNext
    <3> QED BY <2>2, <3>1 DEF Running, NoVector, vector
  <2> QED BY <2>1, <2>2
<1>3. ASSUME Contracted, mode = "product" PROVE ProductInv'
  <2>1. [Products!Next]_(Products!vars)
    BY <1>3 DEF MCNext, product, Products!vars, Products!call, Products!outer, Products!inner
  <2> QED BY <1>3, <2>1, ProductStepKeeps DEF Running
<1>4. ASSUME mode = "calls" PROVE CallsInv'
  <2>1. [Calls!Next]_(Calls!vars)
    BY <1>4 DEF MCNext, calls, Calls!vars
  <2> QED BY <1>4, <2>1, CallsStepKeeps DEF Running
<1>5. ASSUME mode = "transpose" PROVE TransposeInv'
  <2>1. [Transposes!Next]_(Transposes!vars)
    BY <1>5 DEF MCNext, transposes, Transposes!vars
  <2> QED BY <1>5, <2>1, TransposeStepKeeps DEF Running
<1> QED BY <1>1, <1>2, <1>3, <1>4, <1>5 DEF Running

LEMMA RunningAlways == MCSpec => []Running
  BY RunningInit, RunningKept, PTL DEF MCSpec

(* In the run of MCKernels too every vector function applies its operation *)
(* once to each byte and stays within its operands.                        *)
THEOREM RunsOnceEach == MCSpec => []OnceEach
<1>1. Running => OnceEach
  <2>1. NoVector => OnceEach
    BY DEF NoVector, OnceEach, Bytes
  <2> QED BY <2>1, IInvOnceEach DEF Running
<1> QED BY <1>1, RunningAlways, PTL

(* A product of matrix and vector adds every column once, scaled by its    *)
(* own element of b, to every byte of the result, whatever the lengths and *)
(* numbers of columns a caller that keeps to Contract may ask for.         *)
THEOREM RunsProductRight == ASSUME Contracted PROVE MCSpec => []ProductRight
<1>1. Running => ProductRight
  BY ProductInvRight DEF Running, ProductRight
<1> QED BY <1>1, RunningAlways, PTL

(* No load of a product leaves the matrix and no store leaves the result,  *)
(* although most are whole registers.                                      *)
THEOREM RunsStayInside == ASSUME Contracted PROVE MCSpec => []StaysInside
<1>1. Running => StaysInside
  BY ProductInvRight DEF Running, StaysInside
<1> QED BY <1>1, RunningAlways, PTL

(* Every product the batched operations and ov.c ask for, in every build,  *)
(* meets the demands of the function it is bound to and fits its buffers.  *)
THEOREM RunsKeepContract == MCSpec => []CallsKeepContract
<1>1. Running => CallsKeepContract
  BY DEF Running, CallsInv, CallsKeepContract
<1> QED BY <1>1, RunningAlways, PTL

(* Every column of such a product meets the element it belongs with, also  *)
(* where the vector is a shifted copy, a table, or the gathered terms of   *)
(* the last 15 rows.                                                       *)
THEOREM RunsOperandsRight == MCSpec => []OperandsRight
<1>1. Running => OperandsRight
  BY DEF Running, CallsInv, OperandsRight
<1> QED BY <1>1, RunningAlways, PTL

(* Element by element or in registers, the destination ends as the         *)
(* transposed matrix, and no byte between its rows is written.             *)
THEOREM RunsTransposeRight == MCSpec => []TransposeRight
<1>1. Running => TransposeRight
  BY TransposeInvRight DEF Running, TransposeRight
<1> QED BY <1>1, RunningAlways, PTL
=============================================================================

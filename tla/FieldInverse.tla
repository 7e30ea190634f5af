----------------------------- MODULE FieldInverse -----------------------------
(***************************************************************************)
(* gf256_inv: fifteen division steps of a constant-time extended gcd, one  *)
(* action each, and the arithmetic of Field against polynomials over       *)
(* GF(2) for the elements it is called with.                               *)
(***************************************************************************)
EXTENDS Field

VARIABLES
  a,          (* the argument *)
  i,
  f, g,       (* uint16_t *)
  delta,      (* int16_t *)
  v, r        (* uint16_t *)

vars == <<a, i, f, g, delta, v, r>>

Modulus == {0, 1, 3, 4, 8}   (* 0x11b *)
IterationsShort == 14
Iterations == 15

(* the conversion to int16_t *)
Int16(n) == ((n + 32768) % 65536) - 32768

Entered ==
  /\ i = 0
  /\ f = Modulus /\ g = Shl(a, 1)
  /\ delta = 1
  /\ r = {8} /\ v = {}

Init == a \in Byte /\ Entered

g0 == 8 \in g
minus_delta == (65536 - delta) % 65536
swapAlways == minus_delta >= 32768
swap == minus_delta >= 32768 /\ g0

Iterate ==
  /\ i < Iterations
  /\ i' = i + 1
  /\ delta' = Int16((IF swap THEN 2 * minus_delta ELSE 0) + delta + 1)
  /\ f' = IF swap THEN g ELSE f
  /\ g' = Cut(Shl(Xor(g, If(g0, f)), 1), 16)
  /\ v' = Shr(IF swap THEN r ELSE v, 1)
  /\ r' = Xor(r, If(g0, v))
  /\ UNCHANGED a

(* return v & 0xff; the next call *)
Result == Cut(v, 8)
Return ==
  /\ i = Iterations
  /\ a' \in Byte
  /\ i' = 0
  /\ f' = Modulus /\ g' = Shl(a', 1)
  /\ delta' = 1
  /\ r' = {8} /\ v' = {}

Next == Iterate \/ Return

Spec == Init /\ [][Next]_vars

-----------------------------------------------------------------------------
(* Polynomials over GF(2): the product, and the remainder modulo m. *)
Carryless(s, t) ==
  { n \in 0 .. 30 : Cardinality({ k \in s : n - k \in t }) % 2 = 1 }

RECURSIVE Remainder(_, _)
Remainder(s, m) ==
  IF s = {} \/ Max(s) < Max(m) THEN s
  ELSE Remainder(Xor(s, Shl(m, Max(s) - Max(m))), m)

Times(s, t, m) == Remainder(Carryless(s, t), m)
GF256(s, t) == Times(s, t, Modulus)
GF16(s, t) == Times(s, t, {0, 1, 4})

(* The loop invariant of gf256_inv: up to the powers of x that the shifts  *)
(* of g and v stand for, f is a times v and g is a times r.  It breaks as  *)
(* soon as a shift loses a bit or a wrong pair is swapped.                 *)
Bezout ==
  /\ GF256(f, {7}) = GF256(GF256(a, Remainder(v, Modulus)), Remainder({i}, Modulus))
  /\ GF256(g, {7}) = GF256(GF256(a, Remainder(r, Modulus)), Remainder({i}, Modulus))

(* Fifteen steps are enough for every element, and 0 gives 0, which        *)
(* Gaussian elimination relies on for a zero pivot.                        *)
InverseFound ==
  i = Iterations => GF256(a, Result) = IF a = {} THEN {} ELSE {0}

(* A nibble of a. *)
low == Cut(a, 4)
high == Shr(a, 4)
Word(lo, hi) == lo \cup Shl(hi, 8)

ScalarsAgree ==
  /\ \A b \in Byte : gf256_mul(a, b) = GF256(a, b)
  /\ gf256_squ(a) = GF256(a, a)
  /\ gf16_mul(low, high) = GF16(low, high)
  /\ gf16_squ(low) = GF16(low, low)
  /\ GF16(low, gf16_inv(low)) = IF low = {} THEN {} ELSE {0}
  /\ gf16_is_nonzero(a) <=> low # {}
  /\ gf256_is_nonzero(a) <=> a # {}

Multipliers == { {k} : k \in 0 .. 7 } \cup {{}, 0 .. 7, a}

(* The lanes of a word do not disturb each other. *)
VectorsAgree ==
  /\ \A b \in Multipliers, other \in {{}, 0 .. 7} :
       gf256v_mul_u32(Word(a, other), b) = Word(GF256(a, b), GF256(other, b))
  /\ \A b \in Nibble :
       gf16v_mul_u32(a, b) = GF16(low, b) \cup Shl(GF16(high, b), 4)
  /\ \A other \in {{}, 0 .. 7} :
       gf256v_squ_u32(Word(a, other)) = Word(GF256(a, a), GF256(other, other))
  /\ gf16v_squ_u32(a) = GF16(low, low) \cup Shl(GF16(high, high), 4)
  /\ \A b \in Multipliers :
       gf16v_mul_u32_u32(a, b) = GF16(low, Cut(b, 4)) \cup Shl(GF16(high, Shr(b, 4)), 4)
  /\ \A b \in Multipliers : gf256v_reduce_u32(Word(a, b)) = Xor(a, b)
  /\ gf16v_reduce_u32(a) = Xor(low, high)

(* What a bucket holds counts as many times as its number says. *)
BucketsAgree ==
  \A k \in 0 .. 7 :
    LET only(n, z) == [m \in 0 .. 15 |-> If(m = n, z)]
    IN /\ madd_reduce_gf256(only(Val(low), {k}), only(Val(high), {k})) = GF256(a, {k})
       /\ k <= 3 => madd_reduce_gf16(only(Val(low), {k})) = GF16(low, {k})

(* The shifts, masks and constants of gf16.h compute products of           *)
(* polynomials, alone and side by side in a word, and the buckets of the   *)
(* public map sum to products.                                             *)
ArithmeticAgrees == i = Iterations => ScalarsAgree /\ VectorsAgree /\ BucketsAgree
=============================================================================

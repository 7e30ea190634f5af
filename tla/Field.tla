-------------------------------- MODULE Field --------------------------------
(***************************************************************************)
(* The arithmetic of gf16.h and the last step of ov_publicmap.c that is    *)
(* built on it.  A byte or a word is the set of its bits, so that xor is   *)
(* the symmetric difference and & the intersection; + and * are those of   *)
(* the integers, carries included, cut to the word's width.                *)
(***************************************************************************)
EXTENDS Integers, FiniteSets, FiniteSetsExt

CONSTANT WordBits   (* bits of the vector word: 32, or 64 on amd64 *)

Nibble == SUBSET (0 .. 3)
Byte == SUBSET (0 .. 7)

Xor(s, t) == (s \ t) \cup (t \ s)
Shl(s, n) == { b + n : b \in s }
Shr(s, n) == { b - n : b \in { c \in s : c >= n } }
Cut(s, width) == s \cap (0 .. width - 1)
If(bit, s) == IF bit THEN s ELSE {}

Val(s) == MapThenSumSet(LAMBDA b : 2 ^ b, s)
Bits(n) == { b \in 0 .. 29 : (n \div (2 ^ b)) % 2 = 1 }
Product(s, t) == Bits(Val(s) * Val(t))
Sum(s, t) == Bits(Val(s) + Val(t))

(* xor of op(k) for k in ks *)
XorOver(ks, op(_)) == FoldSet(LAMBDA k, acc : Xor(op(k), acc), {}, ks)

-----------------------------------------------------------------------------
(* One element.  GF(16) is GF(2)[x]/(x^4+x+1). *)
NegatedHasBit(a, n) == (((65536 - Val(a)) % 65536) \div (2 ^ n)) % 2 = 1
gf16_is_nonzero(a) == NegatedHasBit(Cut(a, 4), 4)
gf256_is_nonzero(a) == NegatedHasBit(a, 8)

Reduction(r8) == Product(Shr(r8, 4) \cap {0, 2}, {0, 1})
gf16_mul(a, b) ==
  LET r8 == XorOver(Cut(a, 4), LAMBDA k : Shl(b, k))
      r4 == Xor(r8, Reduction(r8))
  IN Cut(Xor(r4, If(5 \in r8, {1, 2})), 4)

gf16_squ(a) ==
  Xor(Xor(a \cap {0}, Shl(a, 1) \cap {2}),
      Xor(If(2 \in a, {0, 1}), If(3 \in a, {2, 3})))

(* a^14 *)
gf16_inv(a) ==
  LET a2 == gf16_squ(a)
      a4 == gf16_squ(a2)
      a8 == gf16_squ(a4)
  IN gf16_mul(a8, gf16_mul(a4, a2))

(* GF(256) is GF(2)[x]/(x^8+x^4+x^3+x+1). *)
gf256_mul(a, b) ==
  LET shifted[k \in 0 .. 7] ==
        IF k = 0 THEN a
        ELSE Cut(Xor(Shl(shifted[k - 1], 1), If(7 \in shifted[k - 1], {0, 1, 3, 4})), 8)
  IN XorOver(Cut(b, 8), LAMBDA k : shifted[k])

gf256_squ(a) ==
  Xor(XorOver(0 .. 3, LAMBDA k : Shl(a, k) \cap {2 * k}),
      XorOver({ k \in 4 .. 7 : k \in a },
              LAMBDA k : CASE k = 4 -> {0, 1, 3, 4} [] k = 5 -> {2, 3, 5, 6}
                           [] k = 6 -> {0, 1, 3, 5, 7} [] OTHER -> {1, 3, 4, 7}))

-----------------------------------------------------------------------------
(* Words of WordBits bits, of elements n bits wide. *)
Lane(n, k) == { b \in 0 .. WordBits - 1 : b % n = k }

(* a_msb, and the word times x: gf16v_mul_u32, gf256v_mul_u32 *)
VTimesXKeeping(n, c, w) ==
  Cut(Xor(Shl(w, 1), Product(Shr(w \cap Lane(n, n - 1), n - 1), c)), WordBits)
VTimesX(n, c, w) ==
  LET msb == w \cap Lane(n, n - 1)
  IN Cut(Xor(Shl(w \ msb, 1), Product(Shr(msb, n - 1), c)), WordBits)
VMul(n, c, w, b) ==
  LET shifted[k \in 0 .. n - 1] == IF k = 0 THEN w ELSE VTimesX(n, c, shifted[k - 1])
  IN XorOver(Cut(b, n), LAMBDA k : shifted[k])

gf16v_mul_u32(w, b) == VMul(4, {0, 1}, w, b)
gf256v_mul_u32(w, b) == VMul(8, {0, 1, 3, 4}, w, b)

gf16v_squ_u32(w) ==
  LET a01 == Sum(w \cap Lane(4, 0), Shl(w, 1) \cap Lane(4, 2))
      a23 == Product(Sum(Shr(w, 2) \cap Lane(4, 0), Shr(w, 1) \cap Lane(4, 2)), {0, 1})
  IN Xor(a01, Cut(a23, WordBits))

(* element times element, bit plane by bit plane *)
gf16v_mul_u32_u32(w, u) ==
  LET a(k) == Shr(w, k) \cap Lane(4, 0)
      b(k) == Shr(u, k) \cap Lane(4, 0)
      c(k) == XorOver({ j \in 0 .. 3 : k - j \in 0 .. 3 }, LAMBDA j : a(j) \cap b(k - j))
  IN Xor(XorOver(0 .. 3, LAMBDA k : Shl(c(k), k)),
         Cut(Xor(Xor(Product(c(4), {0, 1}), Product(c(5), {1, 2})), Product(c(6), {2, 3})),
             WordBits))

gf256v_squ_u32(w) ==
  LET ones(k) == Shr(w, k) \cap Lane(8, 0)
  IN Xor(XorOver(0 .. 3, LAMBDA k : Shl(w, k) \cap Lane(8, 2 * k)),
         Cut(Xor(Xor(Product(ones(4), {0, 1, 3, 4}), Product(ones(5), {2, 3, 5, 6})),
                 Xor(Product(ones(6), {0, 1, 3, 5, 7}), Product(ones(7), {1, 3, 4, 7}))),
             WordBits))

gf256v_reduce_u32(w) == XorOver(0 .. (WordBits \div 8) - 1, LAMBDA k : Cut(Shr(w, 8 * k), 8))
gf16v_reduce_u32(w) ==
  LET r256 == gf256v_reduce_u32(w) IN Xor(Cut(r256, 4), Shr(r256, 4))

-----------------------------------------------------------------------------
(* madd_reduce_gf16, madd_reduce_gf256: bucket i holds what is to be       *)
(* multiplied by i.  Bucket i of top+1 .. 2*top-1 is added to bucket top   *)
(* and to bucket i - top; no bucket is both read and written on one level. *)
FoldBuckets(tmp, top) ==
  [n \in DOMAIN tmp |->
     CASE n = top -> XorOver(top .. (2 * top) - 1, LAMBDA i : tmp[i])
       [] n \in 1 .. top - 1 -> Xor(tmp[n], tmp[top + n])
       [] OTHER -> tmp[n]]
Folded(tmp) == FoldBuckets(FoldBuckets(FoldBuckets(tmp, 8), 4), 2)

madd_reduce_gf16(tmp) ==
  XorOver(0 .. 3, LAMBDA k : gf16_mul({k}, Folded(tmp)[2 ^ k]))

madd_reduce_gf256(tmp_low, tmp_high) ==
  Xor(XorOver(0 .. 3, LAMBDA k : gf256_mul(Folded(tmp_low)[2 ^ k], {k})),
      XorOver(0 .. 3, LAMBDA k : gf256_mul(Folded(tmp_high)[2 ^ k], {k + 4})))
=============================================================================

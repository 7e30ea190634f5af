------------------------------ MODULE Transpose ------------------------------
(***************************************************************************)
(* The transposition of a square matrix over GF(16), two elements in a     *)
(* byte, for gaussian elimination and back substitution: element by        *)
(* element (gf16mat_sqmat_transpose), or in registers, where blocks off    *)
(* the diagonal are swapped, half as large in each round.  The registers   *)
(* know bytes only, so even and odd rows are two matrices of bytes, and    *)
(* the elements of a pair of rows find their places in a last step.        *)
(***************************************************************************)
EXTENDS Integers

CONSTANTS
  Side,      (* elements of a row: 64 *)
  Strides    (* bound: bytes from row to row of the destination, Side / 2 or more *)

VARIABLES
  how,       (* "elements", "neon" or "avx2" *)
  stride,    (* dest_vec_len *)
  at,        (* the next row, or the part of the work that is next *)
  dest       (* the bytes of the destination: its two elements *)

vars == <<how, stride, at, dest>>

RowBytes == Side \div 2
Untouched == << -1, -1 >>
Element(r, k) == (r * Side) + k
SrcByte(r, b) == << Element(r, 2 * b), Element(r, (2 * b) + 1) >>

Init ==
  /\ how \in {"elements", "neon", "avx2"}
  /\ stride \in Strides /\ (how = "avx2" => stride = RowBytes)
  /\ at = 0
  /\ dest = [p \in 0 .. (Side * stride) - 1 |-> Untouched]

-----------------------------------------------------------------------------
(* n by n bytes: those of m at rows `step` apart *)
Block(m, from, step, n) == [r \in 0 .. n - 1 |-> [b \in 0 .. n - 1 |-> m[from + (r * step) + b]]]
Stored(d, from, step, n, blk) ==
  [p \in DOMAIN d |->
     IF p >= from /\ (p - from) \div step < n /\ ((p - from) % step) < n
     THEN blk[(p - from) \div step][(p - from) % step] ELSE d[p]]

(* One round: blocks of `half` bytes off the diagonal change places. *)
Swapped(blk, half) ==
  LET Odd(x) == (x \div half) % 2 = 1
  IN [r \in DOMAIN blk |->
        [b \in DOMAIN blk |->
           IF Odd(r) = Odd(b) THEN blk[r][b]
           ELSE IF Odd(r) THEN blk[r - half][b + half] ELSE blk[r + half][b - half]]]
Rounds(blk, n) ==
  LET round[half \in 1 .. n] == IF 2 * half > n THEN blk ELSE Swapped(round[2 * half], half)
  IN round[1]

(* vtrn1q/vtrn2q of u64, u32, u16 and u8 *)
byte_transpose_16x16_neon(d, to, step, src, from, srcstep, n) ==
  Stored(d, to, step, n, Rounds(Block(src, from, srcstep, n), n))

(* permute2x128, unpacklo/hi_epi64, blends of 32, 16 and 8 bits, in place *)
gf256mat_transpose_32x32_even(d, to) ==
  Stored(d, to, Side, RowBytes, Rounds(Block(d, to, Side, RowBytes), RowBytes))

Src == [p \in 0 .. (Side * RowBytes) - 1 |-> SrcByte(p \div RowBytes, p % RowBytes)]

(* The four quarters; the two off the diagonal change places. *)
gf256mat_transpose_32x32_kept(d, to, from) ==
  LET n == RowBytes \div 2
      step == 2 * stride
      Quarter(e, down, right) ==
        byte_transpose_16x16_neon(e, to + (down * n * step) + (right * n), step,
                                  Src, from + (down * n * Side) + (right * n), Side, n)
  IN Quarter(Quarter(Quarter(Quarter(d, 0, 0), 0, 1), 1, 0), 1, 1)
gf256mat_transpose_32x32_neon(d, to, from) ==
  LET n == RowBytes \div 2
      step == 2 * stride
      Quarter(e, down, right) ==
        byte_transpose_16x16_neon(e, to + (down * n * step) + (right * n), step,
                                  Src, from + (right * n * Side) + (down * n), Side, n)
  IN Quarter(Quarter(Quarter(Quarter(d, 0, 0), 0, 1), 1, 0), 1, 1)

(* "transpose 2x2 4-bit blocks": rows i and i + 1 *)
Pairs(d) ==
  [p \in DOMAIN d |->
     LET r == p \div stride
     IN IF (p % stride) >= RowBytes THEN d[p]
        ELSE IF (r % 2) = 0 THEN << d[p][1], d[p + stride][1] >>
        ELSE << d[p - stride][2], d[p][2] >>]

Done == IF how = "elements" THEN Side ELSE 3

gf16mat_64x64_sqmat_transpose_neon ==
  /\ how = "neon" /\ at < Done
  /\ dest' = CASE at = 0 -> gf256mat_transpose_32x32_neon(dest, 0, 0)
               [] at = 1 -> gf256mat_transpose_32x32_neon(dest, stride, RowBytes)
               [] at = 2 -> Pairs(dest)
  /\ at' = at + 1
  /\ UNCHANGED <<how, stride>>

gf16mat_transpose_64x64 ==
  /\ how = "avx2" /\ at < Done
  /\ dest' = CASE at = 0 -> gf256mat_transpose_32x32_even(Src, 0)
               [] at = 1 -> gf256mat_transpose_32x32_even(dest, RowBytes)
               [] at = 2 -> Pairs(dest)
  /\ at' = at + 1
  /\ UNCHANGED <<how, stride>>

(* row i of the destination, element after element *)
gf16mat_sqmat_transpose ==
  /\ how = "elements" /\ at < Done
  /\ dest' = [p \in DOMAIN dest |->
                IF p \in at * stride .. (at * stride) + RowBytes - 1
                THEN LET b == p - (at * stride)
                     IN << Element(2 * b, at), Element((2 * b) + 1, at) >>
                ELSE dest[p]]
  /\ at' = at + 1
  /\ UNCHANGED <<how, stride>>

Next == gf16mat_64x64_sqmat_transpose_neon \/ gf16mat_transpose_64x64 \/ gf16mat_sqmat_transpose

Spec == Init /\ [][Next]_vars

-----------------------------------------------------------------------------
(* Both ways end with the transposed matrix, every element in its half of  *)
(* its byte, and with the room between the rows as it was.                 *)
TransposeRight ==
  at = Done =>
    \A r \in 0 .. Side - 1 : \A b \in 0 .. stride - 1 :
      dest[(r * stride) + b] =
        IF b < RowBytes THEN << Element(2 * b, r), Element((2 * b) + 1, r) >> ELSE Untouched
=============================================================================

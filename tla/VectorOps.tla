------------------------------ MODULE VectorOps ------------------------------
(***************************************************************************)
(* The vector operations of blas.h, for 32-bit and 64-bit words            *)
(* (ref/blas_u32.h, amd64/blas_u64.h) and the registers of blas_sse.h,     *)
(* blas_avx2.h, blas_avx2_gfni.h and blas_neon.h: one action per function. *)
(* A length is seldom a whole number of registers.  Some functions leave   *)
(* the rest for the end; the others begin with a whole register at offset  *)
(* 0, put back what was behind the rest, and go on from there.             *)
(*                                                                         *)
(* A byte of the result is the sequence of the operands that have gone     *)
(* into it, one for each time the operation was applied; an entry of a     *)
(* table that of the element it was made for.  What the operation is does  *)
(* not matter to the walk.                                                 *)
(***************************************************************************)
EXTENDS Integers, Sequences

CONSTANTS
  U32, U64, Xmm, Ymm,  (* bytes of a word and of a register: 4, 8, 16, 32 *)
  MaxLen               (* bound: bytes of a vector, or elements tabulated *)

ASSUME WidthsAssumption ==
  /\ U32 \in Nat \ {0} /\ U64 \in Nat \ {0} /\ Xmm \in Nat \ {0} /\ Ymm \in Nat \ {0}
  /\ MaxLen \in Nat

VARIABLES
  fn, len,   (* the call: which function, _num_byte or n_ele *)
  aligned,   (* both pointers lie on a word boundary *)
  ap, cp,    (* how far a and accu_c (or v and multabs) have moved *)
  todo,      (* what is left of _num_byte or n_ele *)
  dest,      (* the operands applied to each byte (entry) of the result *)
  reach      (* one past the furthest byte read of a, one past the furthest of dest *)

vars == <<fn, len, aligned, ap, cp, todo, dest, reach>>

Tables16 == {"gf16v_generate_multabs_sse", "gf16v_generate_multabs_avx2",
             "gf16v_generate_multabs_neon", "gf16v_generate_multabs_gfni"}
Tables256 == {"gf256v_generate_multabs_sse", "gf256v_generate_multabs_avx2",
              "gf256v_generate_multabs_neon"}
U64Adds == {"gf256v_add_u64", "gf256v_conditional_add_u64"}
Vectors ==
  {"gf256v_add_u32", "gf256v_conditional_add_u32", "gf16v_mul_scalar_u32",
   "gf256v_mul_scalar_u32", "gf16v_madd_u32", "gf256v_madd_u32",
   "gf16v_mul_scalar_u64", "gf256v_mul_scalar_u64", "gf16v_madd_u64", "gf256v_madd_u64",
   "linearmap_8x8_sse", "linearmap_8x8_accu_sse", "gf256v_add_sse",
   "linearmap_8x8_ymm", "linearmap_8x8_accu_ymm", "gf256v_add_avx2",
   "gf16v_madd_multab_gfni", "gf16v_madd_gfni", "gf16v_mul_scalar_gfni",
   "gf256v_mul_scalar_avx2_gfni", "gf256v_madd_avx2_gfni",
   "gf256v_add_neon", "gf256v_conditional_add_neon", "gf256v_set_zero_neon",
   "gf16v_mul_scalar_neon", "gf16v_madd_neon", "gf16v_madd_multab_neon",
   "gf256v_mul_scalar_neon", "gf256v_madd_neon"} \cup U64Adds

Furthest(a, b) == IF a >= b THEN a ELSE b

-----------------------------------------------------------------------------
(* The operation on n bytes at the pointers: what is there afterwards. *)
Applied(n) ==
  [k \in DOMAIN dest |-> IF k \in cp .. (cp + n) - 1 THEN Append(dest[k], (ap + k) - cp) ELSE dest[k]]
Reached(n) == <<Furthest(reach[1], ap + n), Furthest(reach[2], cp + n)>>

Moved(n) ==
  /\ ap' = ap + n /\ cp' = cp + n
  /\ todo' = todo - n
  /\ UNCHANGED <<fn, len, aligned>>

(* One word or register, or several loaded together. *)
Word(w) ==
  /\ todo >= w
  /\ dest' = Applied(w) /\ reach' = Reached(w)
  /\ Moved(w)

(* The rest, gathered in a word or a register and put back byte by byte. *)
Rest(w) ==
  /\ 0 < todo /\ todo < w
  /\ dest' = Applied(todo) /\ reach' = Reached(todo)
  /\ Moved(todo)

(* The rest from its last byte down; the pointers stay. *)
LastByte(w) ==
  /\ 0 < todo /\ todo < w
  /\ LET k == (cp + todo) - 1 IN dest' = [dest EXCEPT ![k] = Append(@, (ap + todo) - 1)]
  /\ reach' = Reached(todo)
  /\ todo' = todo - 1
  /\ UNCHANGED <<fn, len, aligned, ap, cp>>

(* A whole register first; what it did behind the rest is taken back. *)
OverlapUnsaved(w) ==
  /\ todo % w # 0 /\ todo >= w
  /\ dest' = Applied(w) /\ reach' = Reached(w)
  /\ Moved(todo % w)
Overlap(w) ==
  /\ todo % w # 0 /\ todo >= w
  /\ LET rem == todo % w
     IN /\ dest' = [k \in DOMAIN dest |-> IF k >= cp + rem THEN dest[k] ELSE Applied(w)[k]]
        /\ reach' = <<Furthest(reach[1], ap + w), Furthest(reach[2], cp + rem + w)>>
        /\ Moved(rem)

(* The orders these come in. *)
WordsThenBytes(w) == Word(w) \/ LastByte(w)
WordsThenRest(w) == Word(w) \/ Rest(w)
WholeWord(w) == todo % w = 0 /\ Word(w)
OverlapThenWords(w) == Overlap(w) \/ WholeWord(w)
RestThenWords(w) == Rest(w) \/ OverlapThenWords(w)
(* three registers at a time, then one *)
RestThenThrees(w) ==
  \/ Rest(w) \/ Overlap(w)
  \/ todo % w = 0 /\ (Word(3 * w) \/ (todo < 3 * w /\ Word(w)))

-----------------------------------------------------------------------------
gf256v_add_u32 == fn = "gf256v_add_u32" /\ WordsThenBytes(U32)
gf256v_conditional_add_u32 == fn = "gf256v_conditional_add_u32" /\ WordsThenBytes(U32)
gf16v_mul_scalar_u32 == fn = "gf16v_mul_scalar_u32" /\ WordsThenRest(U32)
gf256v_mul_scalar_u32 == fn = "gf256v_mul_scalar_u32" /\ WordsThenRest(U32)
gf16v_madd_u32 == fn = "gf16v_madd_u32" /\ WordsThenRest(U32)
gf256v_madd_u32 == fn = "gf256v_madd_u32" /\ WordsThenRest(U32)

(* Unless both pointers are aligned, the rest goes to the 32-bit function. *)
AddU64(rest32) ==
  \/ Word(U64)
  \/ aligned /\ len >= U64 /\ LastByte(U64)
  \/ ~(aligned /\ len >= U64) /\ todo < U64 /\ rest32
gf256v_add_u64 == fn = "gf256v_add_u64" /\ AddU64(WordsThenBytes(U32))
gf256v_conditional_add_u64 == fn = "gf256v_conditional_add_u64" /\ AddU64(WordsThenBytes(U32))
gf16v_mul_scalar_u64 == fn = "gf16v_mul_scalar_u64" /\ WordsThenRest(U64)
gf256v_mul_scalar_u64 == fn = "gf256v_mul_scalar_u64" /\ WordsThenRest(U64)
gf16v_madd_u64 == fn = "gf16v_madd_u64" /\ WordsThenRest(U64)
gf256v_madd_u64 == fn = "gf256v_madd_u64" /\ WordsThenRest(U64)

(* gf16v_mul_scalar_sse, gf256v_mul_scalar_sse; gf16v_madd_sse, ... *)
linearmap_8x8_sse == fn = "linearmap_8x8_sse" /\ WordsThenRest(Xmm)
linearmap_8x8_accu_sse == fn = "linearmap_8x8_accu_sse" /\ WordsThenRest(Xmm)
gf256v_add_sse == fn = "gf256v_add_sse" /\ WordsThenRest(Xmm)

(* less than a register goes to the function for the half register *)
linearmap_8x8_ymm ==
  /\ fn = "linearmap_8x8_ymm"
  /\ IF len < Ymm THEN WordsThenRest(Xmm) ELSE OverlapThenWords(Ymm)
linearmap_8x8_accu_ymm ==
  /\ fn = "linearmap_8x8_accu_ymm"
  /\ IF len < Ymm THEN WordsThenRest(Xmm) ELSE OverlapThenWords(Ymm)
gf256v_add_avx2 ==
  /\ fn = "gf256v_add_avx2"
  /\ IF len < Ymm THEN WordsThenRest(Xmm) ELSE OverlapThenWords(Ymm)

gf16v_madd_multab_gfni == fn = "gf16v_madd_multab_gfni" /\ RestThenWords(Ymm)
gf16v_madd_gfni == fn = "gf16v_madd_gfni" /\ RestThenWords(Ymm)
gf16v_mul_scalar_gfni == fn = "gf16v_mul_scalar_gfni" /\ RestThenWords(Ymm)
gf256v_mul_scalar_avx2_gfni == fn = "gf256v_mul_scalar_avx2_gfni" /\ RestThenWords(Ymm)
gf256v_madd_avx2_gfni == fn = "gf256v_madd_avx2_gfni" /\ RestThenWords(Ymm)

gf256v_add_neon == fn = "gf256v_add_neon" /\ RestThenThrees(Xmm)
gf256v_conditional_add_neon == fn = "gf256v_conditional_add_neon" /\ WordsThenRest(Xmm)
gf256v_set_zero_neon == fn = "gf256v_set_zero_neon" /\ WordsThenRest(Xmm)
gf16v_mul_scalar_neon == fn = "gf16v_mul_scalar_neon" /\ RestThenWords(Xmm)
gf16v_madd_neon == fn = "gf16v_madd_neon" /\ RestThenWords(Xmm)
gf16v_madd_multab_neon == fn = "gf16v_madd_multab_neon" /\ RestThenWords(Xmm)
gf256v_mul_scalar_neon == fn = "gf256v_mul_scalar_neon" /\ RestThenThrees(Xmm)
gf256v_madd_neon == fn = "gf256v_madd_neon" /\ RestThenThrees(Xmm)

-----------------------------------------------------------------------------
(* Tables: n entries from `at` on, for the elements from `from` on. *)
Entries(d, at, from, n) ==
  [k \in DOMAIN d |-> IF k \in at .. (at + n) - 1 THEN << from + (k - at) >> ELSE d[k]]
gf16v_generate_multab_16_sse(d, at, from, n) == Entries(d, at, from, n)
gf16v_generate_multab_16_avx2(d, at, from, n) == Entries(d, at, from, n)
gf256v_generate_multab_16_sse(d, at, from, n) == Entries(d, at, from, n)
(* an even number in pairs *)
gf256v_generate_multab_16_avx2(d, at, from, n) == Entries(d, at, from, IF n = 0 THEN 2 ELSE n)

(* 16 bytes of v, split in two registers of 16 elements of GF(16); a byte  *)
(* read for an odd number of elements holds one more.                      *)
Bytes(n) == IF fn \in Tables16 THEN (n + 1) \div 2 ELSE n
Tabulated(d, n) ==
  /\ todo >= n
  /\ dest' = d
  /\ reach' = <<Furthest(reach[1], ap + Bytes(n)), Furthest(reach[2], cp + n)>>
  /\ ap' = ap + Bytes(n) /\ cp' = cp + n
  /\ todo' = todo - n
  /\ UNCHANGED <<fn, len, aligned>>

Split(Multab16(_, _, _, _), n) ==
  IF n <= Xmm THEN Multab16(dest, cp, 2 * ap, n)
  ELSE Multab16(Multab16(dest, cp, 2 * ap, Xmm), cp + Xmm, (2 * ap) + Xmm, n - Xmm)

gf16v_generate_multabs_sse ==
  /\ fn = "gf16v_generate_multabs_sse"
  /\ LET n == IF todo >= 2 * Xmm THEN 2 * Xmm ELSE todo
     IN n > 0 /\ Tabulated(Split(gf16v_generate_multab_16_sse, n), n)
gf16v_generate_multabs_avx2 ==
  /\ fn = "gf16v_generate_multabs_avx2"
  /\ LET n == IF todo >= 2 * Xmm THEN 2 * Xmm ELSE todo
     IN n > 0 /\ Tabulated(Split(gf16v_generate_multab_16_avx2, n), n)
gf256v_generate_multabs_sse ==
  /\ fn = "gf256v_generate_multabs_sse"
  /\ LET n == IF todo >= Xmm THEN Xmm ELSE todo
     IN n > 0 /\ Tabulated(gf256v_generate_multab_16_sse(dest, cp, ap, n), n)
gf256v_generate_multabs_avx2 ==
  /\ fn = "gf256v_generate_multabs_avx2"
  /\ LET n == IF todo >= Xmm THEN Xmm ELSE todo
     IN n > 0 /\ Tabulated(gf256v_generate_multab_16_avx2(dest, cp, ap, n), n)
(* one byte of v at a time *)
gf16v_generate_multabs_neon ==
  /\ fn = "gf16v_generate_multabs_neon"
  /\ LET n == IF todo >= 2 THEN 2 ELSE todo IN n > 0 /\ Tabulated(Entries(dest, cp, 2 * ap, n), n)
gf16v_generate_multabs_gfni ==
  /\ fn = "gf16v_generate_multabs_gfni"
  /\ LET n == IF todo >= 2 THEN 2 ELSE todo IN n > 0 /\ Tabulated(Entries(dest, cp, 2 * ap, n), n)
gf256v_generate_multabs_neon ==
  fn = "gf256v_generate_multabs_neon" /\ todo > 0 /\ Tabulated(Entries(dest, cp, ap, 1), 1)

-----------------------------------------------------------------------------
Init ==
  /\ fn \in Vectors \cup Tables16 \cup Tables256 /\ len \in 0 .. MaxLen
  /\ aligned \in BOOLEAN /\ (aligned => fn \in U64Adds)
  /\ ap = 0 /\ cp = 0 /\ todo = len
  /\ dest = [k \in 0 .. len - 1 |-> << >>]
  /\ reach = <<0, 0>>

Words ==
  \/ gf256v_add_u32 \/ gf256v_conditional_add_u32 \/ gf16v_mul_scalar_u32
  \/ gf256v_mul_scalar_u32 \/ gf16v_madd_u32 \/ gf256v_madd_u32
  \/ gf256v_add_u64 \/ gf256v_conditional_add_u64 \/ gf16v_mul_scalar_u64
  \/ gf256v_mul_scalar_u64 \/ gf16v_madd_u64 \/ gf256v_madd_u64
X86 ==
  \/ linearmap_8x8_sse \/ linearmap_8x8_accu_sse \/ gf256v_add_sse
  \/ linearmap_8x8_ymm \/ linearmap_8x8_accu_ymm \/ gf256v_add_avx2
  \/ gf16v_madd_multab_gfni \/ gf16v_madd_gfni \/ gf16v_mul_scalar_gfni
  \/ gf256v_mul_scalar_avx2_gfni \/ gf256v_madd_avx2_gfni
Neon ==
  \/ gf256v_add_neon \/ gf256v_conditional_add_neon \/ gf256v_set_zero_neon
  \/ gf16v_mul_scalar_neon \/ gf16v_madd_neon \/ gf16v_madd_multab_neon
  \/ gf256v_mul_scalar_neon \/ gf256v_madd_neon
Multabs ==
  \/ gf16v_generate_multabs_sse \/ gf16v_generate_multabs_avx2
  \/ gf256v_generate_multabs_sse \/ gf256v_generate_multabs_avx2
  \/ gf16v_generate_multabs_neon \/ gf16v_generate_multabs_gfni
  \/ gf256v_generate_multabs_neon

Next == Words \/ X86 \/ Neon \/ Multabs

Spec == Init /\ [][Next]_vars

-----------------------------------------------------------------------------
(* Whatever the length, every function applies its operation once to each  *)
(* byte and with the operand of the same index, every table entry belongs  *)
(* to the element of its index, and nothing beyond the vectors is touched, *)
(* although most loads are whole registers.                                *)
OnceEach ==
  /\ todo = 0 => \A k \in 0 .. len - 1 : dest[k] = << k >>
  /\ reach[1] <= Bytes(len) /\ reach[2] <= len

=============================================================================

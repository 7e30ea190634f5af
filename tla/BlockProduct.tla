----------------------------- MODULE BlockProduct -----------------------------
(***************************************************************************)
(* The matrix-vector products of the back ends: blas_matrix_sse.c,         *)
(* blas_matrix_neon.c, blas_matrix_avx2.c and blas_matrix_avx2_gfni.c.     *)
(* The matrix is col-major without padding, so a load that is too long     *)
(* reads the next column, or past the matrix in the last one; a kernel     *)
(* walks the columns in tiles, a tile in blocks of registers, and keeps a  *)
(* rest that is not a whole register for the end or for the beginning.     *)
(*                                                                         *)
(* A byte of the result is the set of the terms <<j, a>> that are added in *)
(* it, the product of element j of b and the byte at address a of the      *)
(* matrix; sums of bytes are symmetric differences.  What a product of two *)
(* elements is (a table, a carry-less multiplication, an affine map) does  *)
(* not matter to the walk.                                                 *)
(***************************************************************************)
EXTENDS Integers, Sequences, ProductContract

CONSTANTS
  W,          (* bytes of a vector register: 16 (SSE, NEON) or 32 (AVX2, GFNI) *)
  Tile,       (* columns of a tile: 16; the tiles of 32 columns have 2 * Tile  *)
  VCols,      (* the macro _V: columns the GF(16) tables of AVX2 have room for *)
  Kernels,    (* the functions to call, by name *)
  MaxBytes,   (* bound: bytes of a column  *)
  MaxCols,    (* bound: number of columns  *)
  Contracted  (* whether callers keep to Contract *)

VARIABLES
  kernel, vec_byte, n_vec,  (* the call: which function, matA_vec_byte, matA_n_vec *)
  phase,                    (* "call", "table", "tile", "block" or "done" *)
  c,                        (* the result: the terms added in each byte *)
  first, left,              (* outer loop: column matA points to, columns to go *)
  tab,                      (* the element of b each table entry belongs to *)
  tcol, tleft, tbase,       (* inner loop: its matA and matA_n_vec, multabs *)
  n_ele, to_go,             (* columns of the tile, vec_len_to_go *)
  reads, wrote              (* one past the highest address read and written *)

call == <<kernel, vec_byte, n_vec>>
outer == <<first, left, tab>>
inner == <<tcol, tleft, tbase, n_ele>>
vars == <<call, phase, c, outer, inner, to_go, reads, wrote>>

Least(a, b) == IF a <= b THEN a ELSE b
Most(a, b) == IF a >= b THEN a ELSE b

Gf16 == { "gf16mat_prod_ref", "gf16mat_prod_sse", "gf16mat_prod_avx2", "gf16mat_prod_gfni", "gf16mat_prod_neon" }
Ymm16 == { "gf16mat_prod_multab_avx2", "gf16mat_prod_avx2",
           "gf16mat_prod_multab_gfni", "gf16mat_prod_gfni" }

-----------------------------------------------------------------------------
(* How one register walks over a block: the bytes at offset `at` of every  *)
(* column, `len` of them loaded, `last` of them in the last column, and    *)
(* `put` of them stored.                                                   *)
Reg(at, len, last, put) == [at |-> at, len |-> len, last |-> last, put |-> put]
Full(at) == Reg(at, W, W, W)
Exact(at, n) == Reg(at, n, n, n)
LastExact(at, n) == Reg(at, W, n, n)

FullRegs(at, n) == [j \in 1 .. n |-> Full(at + (j - 1) * W)]
Rem(len) == len % W
Whole(len) == len - Rem(len)
If(some, reg) == IF some THEN << reg >> ELSE << >>

(* The block functions: the registers over `len` bytes from offset st.  *)
gf16mat_blockmat_madd_sse(st, len) ==
  FullRegs(st, len \div W) \o If(Rem(len) # 0, Exact(st + Whole(len), Rem(len)))
gf256mat_blockmat_madd_sse(st, len) ==
  FullRegs(st, len \div W) \o If(Rem(len) # 0, Exact(st + Whole(len), Rem(len)))
gf256mat_blockmat_madd_multab_neon(st, len) ==
  FullRegs(st, len \div W) \o If(Rem(len) # 0, LastExact(st + Whole(len), Rem(len)))
(* the first register lies over the second one, which is stored after it *)
gf16mat_remblockmat_prod_multab_neon(len) ==
  << Full(0) >> \o FullRegs(Rem(len), len \div W)
gf16mat_blockmat_prod_multab_neon(st, len) == FullRegs(st, len \div W)
gf16mat_prod_32x_multab_neon == FullRegs(0, 1)
gf16mat_prod_64x_multab_neon == FullRegs(0, 2)
gf16mat_prod_96x_multab_neon == FullRegs(0, 3)
gf16mat_remblockmat_prod_neon(len) == << Full(0) >> \o FullRegs(Rem(len), len \div W)
gf16mat_blockmat_prod_neon(st, len) == FullRegs(st, len \div W)
gf16mat_prod_32x_neon == FullRegs(0, 1)
gf16mat_prod_64x_neon == FullRegs(0, 2)
gf16mat_prod_96x_neon == FullRegs(0, 3)
gf256mat_block1_prod_lazy(st) == FullRegs(st, 1)
gf256mat_block2_prod_lazy(st) == FullRegs(st, 2)
gf256mat_block3_prod_lazy(st) == FullRegs(st, 3)
(* with a rest, all columns but the last, and the last by gf256v_madd *)
gf256mat_blockmat_prod_lazy(st, len) ==
  CASE Rem(len) # 0 -> FullRegs(st, len \div W) \o << LastExact(st + Whole(len), Rem(len)) >>
    [] len = W -> gf256mat_block1_prod_lazy(st)
    [] len = 2 * W -> gf256mat_block2_prod_lazy(st)
    [] OTHER -> gf256mat_block3_prod_lazy(st)
gf256mat_prod_multab_17_32_whole(len) == << Full(0), Full(W) >>
gf256mat_prod_multab_17_32_neon(len) == << Full(0), LastExact(W, len - W) >>
gf256mat_prod_multab_33_48_neon(len) == << Full(0), Full(W), LastExact(2 * W, len - 2 * W) >>
gf256mat_prod_16_neon(len) == << LastExact(0, len) >>
gf256mat_prod_32_neon(len) == << Full(0), LastExact(W, len - W) >>

gf16mat_prod_multab_64x_avx2 == << Full(0) >>
gf16mat_prod_multab_96x_avx2 == << Full(0), Exact(W, W \div 2) >>
gf16mat_remaining_madd_avx2(rem) == << Exact(0, rem) >>
gf16mat_blockmat_madd_avx2(st, len) == FullRegs(st, len \div W)
gf256mat_blockmat_madd_avx2(st, len) == FullRegs(st, len \div W)
gf256mat_remblockmat_madd_avx2(len) == << Full(0) >> \o FullRegs(Rem(len), len \div W)
gf256mat_prod_multab_1ymm_avx2(len) == << LastExact(0, len) >>
gf256mat_prod_multab_2ymm_avx2(len) == << Full(0), LastExact(W, len - W) >>
gf256mat_prod_multab_3ymm_avx2(len) == << Full(0), Full(W), LastExact(2 * W, len - 2 * W) >>
gf256mat_prod_multab_small_avx2(len) ==
  IF len <= W THEN gf256mat_prod_multab_1ymm_avx2(len)
  ELSE IF len <= 2 * W THEN gf256mat_prod_multab_2ymm_avx2(len)
  ELSE gf256mat_prod_multab_3ymm_avx2(len)

gf16mat_prod_multab_64x_gfni == << Full(0) >>
gf16mat_prod_multab_96x_gfni == << Full(0), Exact(W, W \div 2) >>
gf16mat_remaining_madd_gfni(rem) == << Exact(0, rem) >>
gf16mat_blockmat_madd_gfni(st, len) == FullRegs(st, len \div W)
gf256mat_prod_smaller_than_16(rem) == << Exact(0, rem) >>
gf256mat_prod_smaller(rem) == << LastExact(0, rem) >>
gf256mat_prod_small(rem) == << Reg(0, W, W, rem) >>
gf256mat_prod_32byte(st) == FullRegs(st, 1)
gf256mat_prod_64byte(st) == FullRegs(st, 2)
gf256mat_prod_96byte(st) == FullRegs(st, 3)
gf256mat_prod_128byte(st) == FullRegs(st, 4)

-----------------------------------------------------------------------------
(* The terms a register adds to the byte in its given lane, over n columns.*)
(* The bytes a partial load leaves out hold junk.                          *)
Junk == <<-1, -1>>
Entry(i) == IF tbase + i + 1 \in DOMAIN tab THEN tab[tbase + i + 1] ELSE -1
Addr(i, at) == (tcol + i) * vec_byte + at
Loaded(reg, i, n) == IF i = n - 1 THEN reg.last ELSE reg.len
Terms(reg, lane, n) ==
  { IF lane < Loaded(reg, i, n) THEN <<Entry(i), Addr(i, reg.at + lane)>> ELSE Junk :
    i \in 0 .. n - 1 }
Add(s, t) == IF Junk \in s \cup t THEN {Junk} ELSE (s \ t) \cup (t \ s)

(* One call of a block function: the registers are all loaded, then stored *)
(* one after the other; with `fresh` they start from zero, without it from *)
(* c, or are added to c afterwards.                                        *)
Pass(regs, n, fresh) ==
  /\ LET Over(k) == { r \in DOMAIN regs : k \in regs[r].at .. (regs[r].at + regs[r].put) - 1 }
         Last(k) == CHOOSE r \in Over(k) : \A s \in Over(k) : s <= r
         Sum(k) == Terms(regs[Last(k)], k - regs[Last(k)].at, n)
     IN c' = [k \in DOMAIN c |-> IF Over(k) = {} THEN c[k]
                                 ELSE IF fresh THEN Sum(k) ELSE Add(c[k], Sum(k))]
  /\ LET ends == { Addr(i, regs[r].at + Loaded(regs[r], i, n)) :
                    r \in DOMAIN regs, i \in 0 .. n - 1 }
     IN reads' = CHOOSE e \in ends \cup {reads} : \A f \in ends \cup {reads} : f <= e
  /\ LET ends == { regs[r].at + regs[r].put : r \in DOMAIN regs }
     IN wrote' = CHOOSE e \in ends \cup {wrote} : \A f \in ends \cup {wrote} : f <= e

St == vec_byte - to_go

(* Column lengths (and widths) for which a function has code of its own. *)
HasOwnCode ==
  CASE kernel \in {"gf16mat_prod_multab_neon", "gf16mat_prod_neon"} -> vec_byte \in {W, 2 * W, 3 * W}
    [] kernel = "gf256mat_prod_multab_neon" -> W < vec_byte /\ vec_byte <= 3 * W
    [] kernel = "gf256mat_prod_neon" -> W \div 2 <= vec_byte /\ vec_byte <= 2 * W
    [] kernel \in Ymm16 -> /\ vec_byte \in {W, W + (W \div 2)}
                           /\ kernel \in OwnTab16 => n_vec <= VCols
    [] kernel = "gf256mat_prod_multab_avx2" -> vec_byte <= 3 * W
    [] OTHER -> FALSE

(* Functions that store sums of their own, and never add to what c holds. *)
NeverClears == {"gf16mat_prod_multab_neon", "gf16mat_prod_neon", "gf256mat_prod_avx2_gfni"}

Clear ==
  /\ phase = "call"
  /\ c' = IF kernel \in NeverClears \/ HasOwnCode THEN c ELSE [k \in DOMAIN c |-> {}]
  /\ phase' = "table"
  /\ UNCHANGED <<call, outer, inner, to_go, reads, wrote>>

(* Columns whose elements of b are read or tabulated at a time. *)
TableCols ==
  CASE kernel = "gf16mat_prod_sse" -> 2 * Tile
    [] kernel = "gf256mat_prod_sse" -> Tile
    [] kernel \in OwnTab16 -> VCols
    [] kernel = "gf256mat_prod_avx2" -> 2 * Tile
    [] OTHER -> n_vec

(* A table for the next columns.  b advances by whole bytes, which hold    *)
(* two elements of GF(16).  gf16mat_prod_avx2 and gf16mat_prod_gfni hand   *)
(* all the columns still to go, and not those of the table, to the loop    *)
(* below.                                                                  *)
Generate ==
  /\ phase = "table" /\ left > 0
  /\ LET n == Least(TableCols, left)
         from == IF kernel \in Gf16 THEN 2 * (first \div 2) ELSE first
     IN /\ tab' = [i \in 1 .. n |-> from + i - 1]
        /\ tleft' = IF kernel \in OwnTab16 /\ ~HasOwnCode THEN left ELSE n
  /\ tcol' = first /\ tbase' = 0 /\ n_ele' = 0
  /\ phase' = "tile"
  /\ UNCHANGED <<call, c, first, left, to_go, reads, wrote>>

TileCols ==
  CASE kernel \in {"gf16mat_prod_ref", "gf256mat_prod_ref"} -> 1
    [] kernel = "gf16mat_prod_multab_sse" -> 2 * Tile
    [] kernel = "gf256mat_prod_multab_sse" -> Tile
    [] kernel = "gf256mat_prod_multab_neon" /\ ~HasOwnCode -> Tile
    [] kernel \in {"gf16mat_prod_multab_avx2", "gf16mat_prod_avx2"} /\ ~HasOwnCode -> VCols
    [] OTHER -> tleft

NextTile ==
  /\ phase = "tile" /\ tleft > 0
  /\ n_ele' = Least(TileCols, tleft)
  /\ to_go' = vec_byte
  /\ phase' = "block"
  /\ UNCHANGED <<call, c, outer, tcol, tleft, tbase, reads, wrote>>

EndTileTableKept ==
  /\ phase = "block" /\ to_go = 0
  /\ tcol' = tcol + n_ele
  /\ tleft' = tleft - n_ele
  /\ phase' = "tile"
  /\ UNCHANGED <<call, c, outer, tbase, n_ele, to_go, reads, wrote>>

EndTile ==
  /\ phase = "block" /\ to_go = 0
  /\ tcol' = tcol + n_ele
  /\ tleft' = tleft - n_ele
  /\ tbase' = tbase + n_ele
  /\ phase' = "tile"
  /\ UNCHANGED <<call, c, outer, n_ele, to_go, reads, wrote>>

EndTable ==
  /\ phase = "tile" /\ tleft = 0
  /\ first' = first + Len(tab)
  /\ left' = left - Len(tab)
  /\ phase' = IF left' = 0 THEN "done" ELSE "table"
  /\ UNCHANGED <<call, c, tab, inner, to_go, reads, wrote>>

-----------------------------------------------------------------------------
(* The loop over vec_len_to_go, one action per function. *)
Turn(k) == phase = "block" /\ kernel = k /\ to_go > 0
Block(regs, n, len, fresh) ==
  /\ Pass(regs, n, fresh)
  /\ to_go' = to_go - len
  /\ UNCHANGED <<call, phase, outer, inner>>

gf16mat_prod_ref == Turn("gf16mat_prod_ref") /\ Block(<< Exact(0, vec_byte) >>, n_ele, vec_byte, FALSE)
gf256mat_prod_ref == Turn("gf256mat_prod_ref") /\ Block(<< Exact(0, vec_byte) >>, n_ele, vec_byte, FALSE)

gf16mat_prod_multab_sse ==
  /\ Turn("gf16mat_prod_multab_sse")
  /\ LET len == Least(8 * W, to_go) IN Block(gf16mat_blockmat_madd_sse(St, len), n_ele, len, FALSE)
gf16mat_prod_sse ==
  /\ Turn("gf16mat_prod_sse")
  /\ LET len == Least(8 * W, to_go) IN Block(gf16mat_blockmat_madd_sse(St, len), n_ele, len, FALSE)
gf256mat_prod_multab_sse ==
  /\ Turn("gf256mat_prod_multab_sse")
  /\ LET len == Least(8 * W, to_go) IN Block(gf256mat_blockmat_madd_sse(St, len), n_ele, len, FALSE)
gf256mat_prod_sse ==
  /\ Turn("gf256mat_prod_sse")
  /\ LET len == Least(8 * W, to_go) IN Block(gf256mat_blockmat_madd_sse(St, len), n_ele, len, FALSE)

(* the rest first, under up to three registers, then blocks of four *)
gf16mat_prod_multab_neon ==
  /\ Turn("gf16mat_prod_multab_neon")
  /\ \/ /\ HasOwnCode
        /\ Block(CASE vec_byte = W -> gf16mat_prod_32x_multab_neon
                   [] vec_byte = 2 * W -> gf16mat_prod_64x_multab_neon
                   [] vec_byte = 3 * W -> gf16mat_prod_96x_multab_neon, n_ele, vec_byte, TRUE)
     \/ /\ ~HasOwnCode /\ Rem(to_go) # 0
        /\ LET len == Rem(to_go) + Least(3 * W, Whole(to_go))
           IN Block(gf16mat_remblockmat_prod_multab_neon(len), n_ele, len, TRUE)
     \/ /\ ~HasOwnCode /\ Rem(to_go) = 0
        /\ LET len == Least(4 * W, to_go)
           IN Block(gf16mat_blockmat_prod_multab_neon(St, len), n_ele, len, TRUE)
gf16mat_prod_neon ==
  /\ Turn("gf16mat_prod_neon")
  /\ \/ /\ HasOwnCode
        /\ Block(CASE vec_byte = W -> gf16mat_prod_32x_neon
                   [] vec_byte = 2 * W -> gf16mat_prod_64x_neon
                   [] vec_byte = 3 * W -> gf16mat_prod_96x_neon, n_ele, vec_byte, TRUE)
     \/ /\ ~HasOwnCode /\ Rem(to_go) # 0
        /\ LET len == Rem(to_go) + Least(3 * W, Whole(to_go))
           IN Block(gf16mat_remblockmat_prod_neon(len), n_ele, len, TRUE)
     \/ /\ ~HasOwnCode /\ Rem(to_go) = 0
        /\ LET len == Least(4 * W, to_go)
           IN Block(gf16mat_blockmat_prod_neon(St, len), n_ele, len, TRUE)
gf256mat_prod_multab_neon ==
  /\ Turn("gf256mat_prod_multab_neon")
  /\ \/ /\ HasOwnCode
        /\ Block(IF vec_byte <= 2 * W THEN gf256mat_prod_multab_17_32_neon(vec_byte)
                 ELSE gf256mat_prod_multab_33_48_neon(vec_byte), n_ele, vec_byte, TRUE)
     \/ /\ ~HasOwnCode
        /\ LET len == Least(8 * W, to_go)
           IN Block(gf256mat_blockmat_madd_multab_neon(St, len), n_ele, len, FALSE)
gf256mat_prod_neon ==
  /\ Turn("gf256mat_prod_neon")
  /\ \/ /\ HasOwnCode
        /\ Block(IF vec_byte <= W THEN gf256mat_prod_16_neon(vec_byte)
                 ELSE gf256mat_prod_32_neon(vec_byte), n_ele, vec_byte, TRUE)
     \/ /\ ~HasOwnCode
        /\ LET len == Least(3 * W, to_go)
           IN Block(gf256mat_blockmat_prod_lazy(St, len), n_ele, len, FALSE)

gf16mat_prod_multab_avx2 ==
  /\ Turn("gf16mat_prod_multab_avx2") \/ Turn("gf16mat_prod_avx2")
  /\ HasOwnCode
  /\ Block(IF vec_byte = W THEN gf16mat_prod_multab_64x_avx2 ELSE gf16mat_prod_multab_96x_avx2,
           n_ele, vec_byte, TRUE)
gf16mat_madd_multab_avx2 ==
  /\ Turn("gf16mat_prod_multab_avx2") \/ Turn("gf16mat_prod_avx2")
  /\ ~HasOwnCode
  /\ \/ /\ Rem(to_go) # 0
        /\ Block(gf16mat_remaining_madd_avx2(Rem(to_go)), n_ele, Rem(to_go), FALSE)
     \/ /\ Rem(to_go) = 0
        /\ LET len == Least(8 * W, to_go)
           IN Block(gf16mat_blockmat_madd_avx2(St, len), n_ele, len, FALSE)
gf256mat_prod_multab_avx2 ==
  /\ Turn("gf256mat_prod_multab_avx2")
  /\ HasOwnCode
  /\ Block(gf256mat_prod_multab_small_avx2(vec_byte), n_ele, vec_byte, TRUE)
gf256mat_prod_small_avx2 ==
  /\ Turn("gf256mat_prod_avx2")
  /\ vec_byte <= 3 * W
  /\ Block(gf256mat_prod_multab_small_avx2(vec_byte), n_ele, vec_byte, FALSE)
gf256mat_madd_multab_avx2 ==
  /\ Turn("gf256mat_prod_multab_avx2") \/ Turn("gf256mat_prod_avx2")
  /\ vec_byte > 3 * W
  /\ \/ /\ Rem(to_go) # 0
        /\ LET len == Rem(to_go) + Least(7 * W, Whole(to_go))
           IN Block(gf256mat_remblockmat_madd_avx2(len), n_ele, len, FALSE)
     \/ /\ Rem(to_go) = 0
        /\ LET len == Least(7 * W, to_go)
           IN Block(gf256mat_blockmat_madd_avx2(St, len), n_ele, len, FALSE)

gf16mat_prod_multab_gfni ==
  /\ Turn("gf16mat_prod_multab_gfni") \/ Turn("gf16mat_prod_gfni")
  /\ HasOwnCode
  /\ Block(IF vec_byte = W THEN gf16mat_prod_multab_64x_gfni ELSE gf16mat_prod_multab_96x_gfni,
           n_ele, vec_byte, TRUE)
gf16mat_madd_multab_gfni ==
  /\ Turn("gf16mat_prod_multab_gfni") \/ Turn("gf16mat_prod_gfni")
  /\ ~HasOwnCode
  /\ \/ /\ Rem(to_go) # 0
        /\ Block(gf16mat_remaining_madd_gfni(Rem(to_go)), n_ele, Rem(to_go), FALSE)
     \/ /\ Rem(to_go) = 0
        /\ LET len == Least(8 * W, to_go)
           IN Block(gf16mat_blockmat_madd_gfni(St, len), n_ele, len, FALSE)
(* prod_smaller takes a first and a last column, whatever their number *)
gf256mat_prod_avx2_gfni ==
  /\ Turn("gf256mat_prod_avx2_gfni")
  /\ \/ /\ Rem(to_go) # 0 /\ vec_byte < W \div 2
        /\ Block(gf256mat_prod_smaller_than_16(Rem(to_go)), n_ele, Rem(to_go), TRUE)
     \/ /\ Rem(to_go) # 0 /\ W \div 2 <= vec_byte /\ vec_byte < W
        /\ Block(gf256mat_prod_smaller(Rem(to_go)), Most(n_ele, 2), Rem(to_go), TRUE)
     \/ /\ Rem(to_go) # 0 /\ W < vec_byte
        /\ Block(gf256mat_prod_small(Rem(to_go)), n_ele, Rem(to_go), TRUE)
     \/ Rem(to_go) = 0 /\ to_go >= 4 * W /\ Block(gf256mat_prod_128byte(St), n_ele, 4 * W, TRUE)
     \/ Rem(to_go) = 0 /\ to_go = 3 * W /\ Block(gf256mat_prod_96byte(St), n_ele, 3 * W, TRUE)
     \/ Rem(to_go) = 0 /\ to_go = 2 * W /\ Block(gf256mat_prod_64byte(St), n_ele, 2 * W, TRUE)
     \/ Rem(to_go) = 0 /\ to_go = W /\ Block(gf256mat_prod_32byte(St), n_ele, W, TRUE)

-----------------------------------------------------------------------------
Init ==
  /\ kernel \in Kernels /\ vec_byte \in 1 .. MaxBytes /\ n_vec \in 1 .. MaxCols
  /\ Contracted => Contract(kernel, vec_byte, n_vec, W, VCols)
  /\ phase = "call"
  /\ c = [k \in 0 .. vec_byte - 1 |-> {Junk}]
  /\ first = 0 /\ left = n_vec /\ tab = << >>
  /\ tcol = 0 /\ tleft = 0 /\ tbase = 0 /\ n_ele = 0 /\ to_go = 0
  /\ reads = 0 /\ wrote = 0

Blocks ==
  \/ gf16mat_prod_ref \/ gf256mat_prod_ref
  \/ gf16mat_prod_multab_sse \/ gf16mat_prod_sse
  \/ gf256mat_prod_multab_sse \/ gf256mat_prod_sse
  \/ gf16mat_prod_multab_neon \/ gf16mat_prod_neon
  \/ gf256mat_prod_multab_neon \/ gf256mat_prod_neon
  \/ gf16mat_prod_multab_avx2 \/ gf16mat_madd_multab_avx2
  \/ gf256mat_prod_multab_avx2 \/ gf256mat_prod_small_avx2 \/ gf256mat_madd_multab_avx2
  \/ gf16mat_prod_multab_gfni \/ gf16mat_madd_multab_gfni \/ gf256mat_prod_avx2_gfni

Next == Clear \/ Generate \/ NextTile \/ Blocks \/ EndTile \/ EndTable

Spec == Init /\ [][Next]_vars

-----------------------------------------------------------------------------
(* Every function returns the product: byte k of the result is the sum,    *)
(* over all the columns, of the element of b and byte k of the column,     *)
(* each once, whatever the tiles, blocks and rests it was gathered in.     *)
ProductRight ==
  phase = "done" => c = [k \in 0 .. vec_byte - 1 |-> { <<j, j * vec_byte + k>> : j \in 0 .. n_vec - 1 }]

(* No function reads past the matrix or writes past the result, although   *)
(* all but one load whole registers where a column has fewer bytes left.   *)
StaysInside ==
  /\ reads <= n_vec * vec_byte
  /\ wrote <= vec_byte

=============================================================================

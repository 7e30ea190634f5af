------------------------------ MODULE MCKernels ------------------------------
(***************************************************************************)
(* The kernels of the back ends in one run: the vector operations          *)
(* (VectorOps), the matrix-vector products (BlockProduct), the calls the   *)
(* library makes to them (ProductCalls), and the transposition of a matrix *)
(* over GF(16) (Transpose), one at a time.                                 *)
(***************************************************************************)
EXTENDS VectorOps

CONSTANTS W, Tile, VCols, Kernels, MaxBytes, MaxCols, Contracted,
          BackEnds, Columns, Side, Strides
VARIABLES
  mode,
  kernel, vec_byte, n_vec, phase, c, first, left, tab, tcol, tleft, tbase, n_ele, to_go, reads, wrote,
  set, be, multab, site, row, col, call,
  how, stride, at, matrix

(* The parameter sets of params.h. *)
ParamSets == { [gf |-> 16, o |-> 64, v |-> 96], [gf |-> 256, o |-> 45, v |-> 74],
               [gf |-> 256, o |-> 72, v |-> 121], [gf |-> 256, o |-> 96, v |-> 163] }

(* A register has two halves, a tile and a table have columns; the back    *)
(* ends are those of the makefile.                                         *)
ASSUME SizesAssumption ==
  /\ W \in Nat \ {0} /\ W % 2 = 0 /\ Tile \in Nat \ {0} /\ VCols \in Nat \ {0}
  /\ MaxBytes \in Nat /\ MaxCols \in Nat
ASSUME BuildsAssumption ==
  /\ BackEnds \subseteq {"ref", "u64", "sse", "avx2", "gfni", "neon"}
  /\ Columns \subseteq Nat
(* A row of the square has 32 bytes, and room to lie in the destination. *)
ASSUME SquareAssumption == Side = 64 /\ Strides \subseteq Nat /\ \A s \in Strides : 32 <= s

Products == INSTANCE BlockProduct
Calls == INSTANCE ProductCalls
Transposes == INSTANCE Transpose WITH dest <- matrix

vector == <<fn, len, aligned, ap, cp, todo, dest, reach>>
product == <<kernel, vec_byte, n_vec, phase, c, first, left, tab, tcol, tleft, tbase, n_ele, to_go, reads, wrote>>
calls == <<set, be, multab, site, row, col, call>>
transposes == <<how, stride, at, matrix>>

NoVector ==
  /\ fn = "none" /\ len = 0 /\ aligned = FALSE /\ ap = 0 /\ cp = 0 /\ todo = 0
  /\ dest = << >> /\ reach = <<0, 0>>
NoProduct ==
  /\ kernel = "none" /\ vec_byte = 0 /\ n_vec = 0 /\ phase = "done" /\ c = << >> /\ tab = << >>
  /\ first = 0 /\ left = 0 /\ tcol = 0 /\ tleft = 0 /\ tbase = 0 /\ n_ele = 0
  /\ to_go = 0 /\ reads = 0 /\ wrote = 0
NoCalls ==
  /\ set = [gf |-> 256, o |-> 0, v |-> 0] /\ be = "none" /\ multab = FALSE /\ site = "none"
  /\ row = 0 /\ col = 0 /\ call = [kernel |-> "none"]
NoTranspose == how = "none" /\ stride = 0 /\ at = 0 /\ matrix = << >>

MCInit ==
  \/ mode = "vector" /\ Init /\ NoProduct /\ NoCalls /\ NoTranspose
  \/ mode = "product" /\ NoVector /\ Products!Init /\ NoCalls /\ NoTranspose
  \/ mode = "calls" /\ NoVector /\ NoProduct /\ Calls!Init /\ NoTranspose
  \/ mode = "transpose" /\ NoVector /\ NoProduct /\ NoCalls /\ Transposes!Init

MCNext ==
  \/ mode = "vector" /\ Next /\ UNCHANGED <<mode, product, calls, transposes>>
  \/ mode = "product" /\ Products!Next /\ UNCHANGED <<mode, vector, calls, transposes>>
  \/ mode = "calls" /\ Calls!Next /\ UNCHANGED <<mode, vector, product, transposes>>
  \/ mode = "transpose" /\ Transposes!Next /\ UNCHANGED <<mode, vector, product, calls>>

MCSpec == MCInit /\ [][MCNext]_<<mode, vector, product, calls, transposes>>

(* Products!ProductRight: the sum over all columns, each once.  *)
ProductRight == mode = "product" => Products!ProductRight
(* Products!StaysInside: no access outside matrix and result. *)
StaysInside == mode = "product" => Products!StaysInside
(* Calls!CallsKeepContract: every call meets the demands of its function. *)
CallsKeepContract == mode = "calls" => Calls!CallsKeepContract
(* Calls!OperandsRight: every column meets the element it belongs with. *)
OperandsRight == mode = "calls" => Calls!OperandsRight
(* Transposes!TransposeRight: the transposed matrix, and nothing else written. *)
TransposeRight == mode = "transpose" => Transposes!TransposeRight
=============================================================================

----------------------------- MODULE ProductCalls -----------------------------
(***************************************************************************)
(* Every matrix-vector product the library asks for, in every build: the   *)
(* batched operations of parallel_matrix_op.c with and without tables, and *)
(* the products of ov.c.  blas_matrix.c binds a name to the function of a  *)
(* back end, each with demands of its own; a vector of GF(16) can only be  *)
(* entered at a whole byte, so odd rows read a copy shifted by an element; *)
(* and a table is found by an address the caller computes for the stride   *)
(* of the generator of another file.                                       *)
(*                                                                         *)
(* An element of the vector b is known by the position its value has in    *)
(* the vector the caller was given (O, column by column, or the vinegar).  *)
(***************************************************************************)
EXTENDS Integers, Sequences, ProductContract

CONSTANTS
  ParamSets,  (* records [gf, o, v] of params.h *)
  BackEnds,   (* "ref", "u64", "sse", "avx2", "gfni", "neon" *)
  Columns     (* bound: the columns j of B that are walked, of 0 .. o - 1 *)

VARIABLES
  set, be, multab,  (* the build; whether _MUL_WITH_MULTAB_ is defined *)
  site,             (* the operation being executed *)
  row, col,         (* its counters i and j *)
  call              (* the product just asked for *)

vars == <<set, be, multab, site, row, col, call>>

(* The makefile defines _MUL_WITH_MULTAB_ for some. *)
HasMultab(s, b) == b \in {"sse", "avx2"} \/ (b \in {"neon", "gfni"} /\ s.gf = 16)

PerByte == IF set.gf = 16 THEN 2 ELSE 1
O == set.o
V == set.v
OByte == O \div PerByte
VByte == V \div PerByte
MaxO == IF set.gf = 16 THEN 64 ELSE 96
MaxOByteLevel3 == IF set.gf = 16 THEN 32 ELSE 72
MaxOByte == IF set.gf = 16 THEN 32 ELSE 96
MaxV == IF set.gf = 16 THEN 96 ELSE 163
Register == IF be \in {"avx2", "gfni"} THEN 32 ELSE 16

-----------------------------------------------------------------------------
(* blas_matrix.c: what gf16mat_prod, gf256mat_prod and their _multab forms *)
(* are in this build.                                                      *)
gf16mat_prod_impl == CASE be \in {"ref", "u64"} -> "gf16mat_prod_ref" [] be = "sse" -> "gf16mat_prod_sse"
                       [] be = "avx2" -> "gf16mat_prod_avx2" [] be = "gfni" -> "gf16mat_prod_gfni"
                       [] be = "neon" -> "gf16mat_prod_neon"
gf256mat_prod_impl == CASE be \in {"ref", "u64"} -> "gf256mat_prod_ref" [] be = "sse" -> "gf256mat_prod_sse"
                        [] be = "avx2" -> "gf256mat_prod_avx2" [] be = "gfni" -> "gf256mat_prod_avx2_gfni"
                        [] be = "neon" -> "gf256mat_prod_neon"
gf16mat_prod_multab_impl == CASE be = "sse" -> "gf16mat_prod_multab_sse" [] be = "avx2" -> "gf16mat_prod_multab_avx2"
                              [] be = "gfni" -> "gf16mat_prod_multab_gfni" [] be = "neon" -> "gf16mat_prod_multab_neon"
gf256mat_prod_multab_impl == CASE be = "sse" -> "gf256mat_prod_multab_sse"
                               [] be = "avx2" -> "gf256mat_prod_multab_avx2"
gfmat_prod == IF set.gf = 16 THEN gf16mat_prod_impl ELSE gf256mat_prod_impl
gfmat_prod_multab == IF set.gf = 16 THEN gf16mat_prod_multab_impl ELSE gf256mat_prod_multab_impl

-----------------------------------------------------------------------------
None == [kernel |-> "none"]
Zeros == -1      (* an element of a padding or of memory cleared before *)
Beyond == -2     (* behind the vector *)

(* A product of n columns of vec bytes in a buffer of out bytes, with the  *)
(* elements b(0), ..., b(n - 1).                                           *)
Product(k, vec, n, out, b(_)) ==
  [kernel |-> k, vec |-> vec, n |-> n, out |-> out, b |-> [q \in 0 .. n - 1 |-> b(q)]]

(* The element at a position of the bytes of B, all its columns. *)
InB(width, p) == IF p < width * VByte * PerByte THEN p ELSE Beyond

(* B2, x2: B with every column moved down by one element. *)
Shifted(width, p) ==
  LET column == VByte * PerByte
  IN IF p >= width * column THEN Beyond
     ELSE IF (p % column) = column - 1 THEN Zeros ELSE p + 1

(* The tables of n elements lie one after the other as the generator of    *)
(* the back end writes them; w_multab is what the caller takes for granted.*)
Stride == IF be = "neon" /\ set.gf = 16 THEN 16 ELSE 32
MultabStride32 == 32
MultabStride == IF set.gf = 16 /\ be = "neon" THEN 16 ELSE 32    (* 1 << w_multab *)
Tabulated(n, index, q) ==
  LET at == (index * MultabStride) + (q * Stride)
  IN IF (at % Stride) = 0 /\ at \div Stride < n THEN at \div Stride ELSE Beyond

-----------------------------------------------------------------------------
(* One action per function: the products of row i for one column j of B.   *)
At(s, gf, tables) == site = s /\ row >= 0 /\ set.gf = gf /\ multab = tables
Even == 2 * (row \div 2)

(* the columns from row i on, in the triangle, against those elements of B *)
TrimatTable == call' = Product(gfmat_prod_multab, OByte, V - row, MaxOByte,
                               LAMBDA q : Tabulated(V * O, (col * V) + row, q))
batch_trimat_madd_gf16 ==
  /\ At("trimat", 16, FALSE)
  /\ LET at == 2 * ((col * VByte) + (Even \div 2))
     IN call' = Product(gfmat_prod, OByte, V - row, MaxOByte,
                        LAMBDA q : IF row = Even THEN InB(O, at + q) ELSE Shifted(O, at + q))
batch_trimat_madd_gf256 ==
  /\ At("trimat", 256, FALSE)
  /\ call' = Product(gfmat_prod, OByte, V - row, MaxOByte, LAMBDA q : InB(O, (col * VByte) + row + q))
batch_trimat_madd_multab_gf16 == At("trimat", 16, TRUE) /\ TrimatTable
batch_trimat_madd_multab_gf256 == At("trimat", 256, TRUE) /\ TrimatTable

(* n columns copied to tmp_Arow, against column j of B from its first element on *)
Copied(n) == call' = Product(gfmat_prod, OByte, n, MaxOByte, LAMBDA q : InB(O, (PerByte * col * VByte) + q))
CopiedTable(n) == call' = Product(gfmat_prod_multab, OByte, n, MaxOByte, LAMBDA q : Tabulated(V * O, col * V, q))
batch_trimatTr_madd_gf16 == At("trimatTr", 16, FALSE) /\ Copied(row + 1)
batch_trimatTr_madd_gf256 == At("trimatTr", 256, FALSE) /\ Copied(row + 1)
batch_trimatTr_madd_multab_gf16 == At("trimatTr", 16, TRUE) /\ CopiedTable(row + 1)
batch_trimatTr_madd_multab_gf256 == At("trimatTr", 256, TRUE) /\ CopiedTable(row + 1)
batch_2trimat_madd_gf16 == At("2trimat", 16, FALSE) /\ Copied(V)
batch_2trimat_madd_gf256 == At("2trimat", 256, FALSE) /\ Copied(V)
batch_2trimat_madd_multab_gf16 == At("2trimat", 16, TRUE) /\ CopiedTable(V)
batch_2trimat_madd_multab_gf256 == At("2trimat", 256, TRUE) /\ CopiedTable(V)

(* One product for all the batches of a row of bB. *)
WholeRow == /\ row < O
            /\ call' = Product(gfmat_prod, O * OByte, V, MaxO * MaxOByte,
                               LAMBDA q : InB(O, (PerByte * row * VByte) + q))
WholeRowTable == /\ row < O
                 /\ call' = Product(gfmat_prod_multab, O * OByte, V, MaxO * MaxOByte,
                                    LAMBDA q : Tabulated(V * O, row * V, q))
batch_upper_matTr_x_mat_gf16 == At("upper", 16, FALSE) /\ WholeRow
batch_upper_matTr_x_mat_gf256 == At("upper", 256, FALSE) /\ WholeRow
batch_upper_matTr_x_mat_multab_gf16 == At("upper", 16, TRUE) /\ WholeRowTable
batch_upper_matTr_x_mat_multab_gf256 == At("upper", 256, TRUE) /\ WholeRowTable

(* The quadratic terms of the last 15 rows, gathered one row after the     *)
(* other: entry q as the pair of its elements.                             *)
TailRows == 15
QuadTerms ==
  LET from[r \in 0 .. TailRows] == IF r = 0 THEN << >>
                               ELSE LET i == (V - TailRows) + (r - 1)
                                    IN from[r - 1] \o [t \in 1 .. V - i |-> (i * V) + (i + t - 1)]
  IN from[TailRows]

QuadTable == call' = Product(gfmat_prod_multab, OByte, V - row, 256, LAMBDA q : Tabulated(V, row, q))
batch_quad_trimat_eval_gf16 ==
  /\ At("quad", 16, FALSE)
  /\ call' = Product(gfmat_prod, OByte, V - row, MaxOByte,
                     LAMBDA q : IF row = Even THEN InB(1, Even + q) ELSE Shifted(1, Even + q))
batch_quad_trimat_eval_gf256 ==
  /\ At("quad", 256, FALSE)
  /\ \/ /\ row < V - TailRows
        /\ call' = Product(gfmat_prod, OByte, V - row, 256, LAMBDA q : InB(1, row + q))
     \/ /\ row = V - TailRows
        /\ call' = Product(gfmat_prod, OByte, 120, 256,
                           LAMBDA q : IF q < Len(QuadTerms) THEN QuadTerms[q + 1] ELSE Zeros)
batch_quad_trimat_eval_multab_gf16 == At("quad", 16, TRUE) /\ QuadTable
batch_quad_trimat_eval_multab_gf256 == At("quad", 256, TRUE) /\ QuadTable

(* v^T * P2 or v^T * S, and the oil part of the signature. *)
ov_calc_l1_mat ==
  /\ site = "l1mat" /\ row = 0
  /\ \/ /\ multab
        /\ call' = Product(gfmat_prod_multab, O * OByte, V, O * OByte, LAMBDA q : Tabulated(V, 0, q))
     \/ call' = Product(gfmat_prod, O * OByte, V, O * OByte, LAMBDA q : InB(1, q))
oil_part ==
  /\ site = "oil" /\ row = 0
  /\ call' = Product(gfmat_prod, VByte, O, (V + O) \div PerByte, LAMBDA q : IF q < O THEN q ELSE Beyond)

-----------------------------------------------------------------------------
Sites == {"trimat", "trimatTr", "2trimat", "upper", "quad", "l1mat", "oil"}

Init ==
  /\ set \in ParamSets /\ be \in BackEnds /\ multab = HasMultab(set, be)
  /\ site \in Sites /\ row = 0 /\ col \in Columns /\ col < O
  /\ col > 0 => site \in {"trimat", "trimatTr", "2trimat"}
  /\ call = None

(* The next row, after its product. *)
NextRow ==
  /\ call # None /\ row + 1 < V
  /\ row' = row + 1 /\ call' = None
  /\ UNCHANGED <<set, be, multab, site, col>>

Call ==
  /\ call = None
  /\ \/ batch_trimat_madd_gf16 \/ batch_trimat_madd_gf256
     \/ batch_trimat_madd_multab_gf16 \/ batch_trimat_madd_multab_gf256
     \/ batch_trimatTr_madd_gf16 \/ batch_trimatTr_madd_gf256
     \/ batch_trimatTr_madd_multab_gf16 \/ batch_trimatTr_madd_multab_gf256
     \/ batch_2trimat_madd_gf16 \/ batch_2trimat_madd_gf256
     \/ batch_2trimat_madd_multab_gf16 \/ batch_2trimat_madd_multab_gf256
     \/ batch_upper_matTr_x_mat_gf16 \/ batch_upper_matTr_x_mat_gf256
     \/ batch_upper_matTr_x_mat_multab_gf16 \/ batch_upper_matTr_x_mat_multab_gf256
     \/ batch_quad_trimat_eval_gf16 \/ batch_quad_trimat_eval_gf256
     \/ batch_quad_trimat_eval_multab_gf16 \/ batch_quad_trimat_eval_multab_gf256
     \/ ov_calc_l1_mat \/ oil_part
  /\ UNCHANGED <<set, be, multab, site, row, col>>

Next == Call \/ NextRow

Spec == Init /\ [][Next]_vars

-----------------------------------------------------------------------------
(* Every product the library asks for, with every parameter set and back   *)
(* end, keeps to what the function it is bound to demands, and its result  *)
(* fits the buffer it goes to.                                             *)
CallsKeepContract ==
  call # None =>
    /\ Contract(call.kernel, call.vec, call.n, Register, V)
    /\ call.vec <= call.out
    /\ site \in {"trimatTr", "2trimat"} => call.n * call.vec <= MaxV * MaxOByte  (* tmp_Arow *)
    /\ site = "trimat" => O * VByte <= MaxV * MaxOByte                           (* B2 *)

(* What should meet column q of the block of the matrix at hand: the       *)
(* element of column j (or i) of B that is in its row, or the product of   *)
(* the two elements that the batch at this place of the triangle is for.   *)
Triangle(i) == (i * V) - ((i * (i - 1)) \div 2)
Wanted(q) ==
  CASE site = "trimat" -> (PerByte * col * VByte) + row + q
    [] site \in {"trimatTr", "2trimat"} -> (PerByte * col * VByte) + q
    [] site = "upper" -> (PerByte * row * VByte) + q
    [] site = "quad" /\ call.n = V - row -> row + q
    [] site = "quad" /\ call.n # V - row ->
         LET i == CHOOSE r \in row .. V - 1 : /\ Triangle(r) - Triangle(row) <= q
                                              /\ q < Triangle(r + 1) - Triangle(row)
         IN (i * V) + i + (q - (Triangle(i) - Triangle(row)))
    [] OTHER -> q
OperandsRight == call # None => \A q \in 0 .. call.n - 1 : call.b[q] = Wanted(q)

=============================================================================

--------------------------- MODULE ProductContract ---------------------------
(***************************************************************************)
(* What the matrix-vector products of the back ends ask of their callers,  *)
(* in their comments and by the lengths of their loads: BlockProduct shows *)
(* that it is enough, ProductCalls that the library keeps to it.           *)
(***************************************************************************)
EXTENDS Integers

(* Functions with a table of their own for _V columns, which hand on the   *)
(* number of all the columns.                                              *)
OwnTab16 == { "gf16mat_prod_avx2", "gf16mat_prod_gfni" }

(* k is called on n columns of v bytes; w bytes are a register.  *)
Contract(k, v, n, w, vcols) ==
  CASE k \in {"gf16mat_prod_multab_neon", "gf16mat_prod_neon"} -> v >= w
    [] k \in {"gf256mat_prod_multab_neon", "gf256mat_prod_neon"} -> v >= w \div 2
    [] k \in {"gf256mat_prod_multab_avx2", "gf256mat_prod_avx2"} -> v >= w \div 2
    [] k \in OwnTab16 -> n <= vcols
    [] k = "gf256mat_prod_avx2_gfni" -> n > 1 \/ v < w \div 2 \/ v >= w
    [] OTHER -> TRUE

=============================================================================

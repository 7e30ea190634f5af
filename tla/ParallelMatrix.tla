--------------------------- MODULE ParallelMatrix ---------------------------
(***************************************************************************)
(* The batched matrix operations of parallel_matrix_op.c, on the memory    *)
(* layouts they walk: a batch is the vector of an entry's M coefficients,  *)
(* one per equation; an upper triangular matrix of batches is packed row   *)
(* by row; a rectangular one of batches is row major; the matrix O of      *)
(* field elements is column major.  Pointers are indices of batches.       *)
(***************************************************************************)
EXTENDS Integers

CONSTANTS
  F, Zero,
  Plus(_, _), Times(_, _),   (* the field *)
  V, O,                      (* _V, _O *)
  M,                         (* equations in a batch: _PUB_M *)
  Tail                       (* rows batch_quad_trimat_eval_gf256 takes together: 15 *)

(* What the proofs need of the field: a commutative ring in which every    *)
(* element is its own negative.                                            *)
ASSUME RingAssumption ==
  /\ Zero \in F
  /\ \A a \in F : Plus(a, Zero) = a /\ Plus(a, a) = Zero
  /\ \A a, b \in F :
       /\ Plus(a, b) \in F /\ Times(a, b) \in F
       /\ Plus(a, b) = Plus(b, a) /\ Times(a, b) = Times(b, a)
  /\ \A a, b, c \in F :
       /\ Plus(a, Plus(b, c)) = Plus(Plus(a, b), c)
       /\ Times(a, Times(b, c)) = Times(Times(a, b), c)
       /\ Times(a, Plus(b, c)) = Plus(Times(a, b), Times(a, c))

Batch == [0 .. M - 1 -> F]
ZeroBatch == [e \in 0 .. M - 1 |-> Zero]

(* gf256v_add, gfv_madd on one batch *)
BatchAdd(x, y) == [e \in 0 .. M - 1 |-> Plus(x[e], y[e])]
BatchScale(x, s) == [e \in 0 .. M - 1 |-> Times(x[e], s)]

(* gfmat_prod: the sum of n batches, each times its scalar. *)
Prod(n, A, b) ==
  LET acc[k \in 0 .. n] ==
        IF k = 0 THEN ZeroBatch ELSE BatchAdd(acc[k - 1], BatchScale(A[k - 1], b[k - 1]))
  IN acc[n]

(* The same for elements of the field. *)
Dot(n, x, y) ==
  LET acc[k \in 0 .. n] ==
        IF k = 0 THEN Zero ELSE Plus(acc[k - 1], Times(x[k - 1], y[k - 1]))
  IN acc[n]

Triangle(n) == (n * (n + 1)) \div 2

(* btriA after i rows: each row moves it over its own length. *)
RowStart(dim, i) ==
  LET at[r \in 0 .. dim] == IF r = 0 THEN 0 ELSE at[r - 1] + (dim - (r - 1))
  IN at[i]

(* ptr after j rows, walking down column i of the triangle. *)
ColumnPtr(dim, i, j) ==
  LET at[r \in 0 .. dim] == IF r = 0 THEN i ELSE at[r - 1] + ((dim - (r - 1)) - 1)
  IN at[j]

(* Column j of B, element k. *)
Col(B, j, k) == B[(j * V) + k]

(* batch_trimat_madd: C += triA * B *)
TrimatMadd(C, triA, B) ==
  [n \in 0 .. (V * O) - 1 |->
     LET i == n \div O
         j == n % O
         A == [k \in 0 .. V - i - 1 |-> triA[RowStart(V, i) + k]]
         b == [k \in 0 .. V - i - 1 |-> Col(B, j, i + k)]
     IN BatchAdd(C[n], Prod(V - i, A, b))]

(* batch_trimatTr_madd: C += triA^T * B *)
TrimatTrMadd(C, triA, B) ==
  [n \in 0 .. (V * O) - 1 |->
     LET i == n \div O
         j == n % O
         A == [k \in 0 .. i |-> triA[ColumnPtr(V, i, k)]]
         b == [k \in 0 .. i |-> Col(B, j, k)]
     IN BatchAdd(C[n], Prod(i + 1, A, b))]

(* tmp_Arow of batch_2trimat_madd: row i of triA + triA^T, whose diagonal  *)
(* cancels.                                                                *)
SymmetricRowDiagonal(triA, i, k) ==
  IF k < i THEN triA[ColumnPtr(V, i, k)] ELSE triA[ColumnPtr(V, i, i) + (k - i)]
SymmetricRow(triA, i, k) ==
  IF k < i THEN triA[ColumnPtr(V, i, k)]
  ELSE IF k = i THEN ZeroBatch
  ELSE triA[(ColumnPtr(V, i, i) + 1) + (k - (i + 1))]

(* batch_2trimat_madd: C += (triA + triA^T) * B, B of width columns *)
TwoTrimatMadd(C, triA, B, width) ==
  [n \in 0 .. (V * width) - 1 |->
     LET i == n \div width
         j == n % width
         A == [k \in 0 .. V - 1 |-> SymmetricRow(triA, i, k)]
         b == [k \in 0 .. V - 1 |-> Col(B, j, k)]
     IN BatchAdd(C[n], Prod(V, A, b))]

(* gf256v_add of an entry left of the diagonal to the one it mirrors *)
FoldOverwriting(entry, mirrored) == mirrored
Fold(entry, mirrored) == BatchAdd(entry, mirrored)

(* batch_upper_matTr_x_mat: the upper form of A^T * bB, row after row.     *)
(* Row i adds what is left of its diagonal to the rows above, which are    *)
(* complete, and writes the rest.                                          *)
UpperMatTrXMat(C, A, bB) ==
  LET row(i, j) ==
        LET S == [k \in 0 .. V - 1 |-> bB[(k * O) + j]]
            a == [k \in 0 .. V - 1 |-> Col(A, i, k)]
        IN Prod(V, S, a)
      withRow(c, i) ==
        [n \in 0 .. Triangle(O) - 1 |->
           LET at(j) == ColumnPtr(O, i, j)
           IN IF \E j \in 0 .. i - 1 : at(j) = n
              THEN LET j == CHOOSE k \in 0 .. i - 1 : at(k) = n
                   IN Fold(c[n], row(i, j))
              ELSE IF n \in at(i) .. at(i) + (O - i) - 1
              THEN row(i, i + (n - at(i)))
              ELSE c[n]]
      rows[i \in 0 .. O] == IF i = 0 THEN C ELSE withRow(rows[i - 1], i - 1)
  IN rows[O]

(* The rows batch_quad_trimat_eval_gf256 takes one by one. *)
LongRows(dim) == dim - Tail

(* batch_quad_trimat_eval: x^T * tri * x.  Over GF(256) the last Tail rows *)
(* are one product with the packed products of their variables.            *)
QuadTrimatEval(tri, x, dim) ==
  LET long(i) ==
        LET A == [k \in 0 .. dim - i - 1 |-> tri[RowStart(dim, i) + k]]
            b == [k \in 0 .. dim - i - 1 |-> x[i + k]]
        IN Prod(dim - i, A, b)
      y[i \in 0 .. LongRows(dim)] ==
        IF i = 0 THEN ZeroBatch ELSE BatchAdd(y[i - 1], BatchScale(long(i - 1), x[i - 1]))
      first == RowStart(dim, dim - Tail)
      quad_terms ==
        [t \in 0 .. Triangle(Tail) - 1 |->
           LET p == CHOOSE q \in (0 .. Tail - 1) \X (0 .. Tail - 1) :
                      q[1] <= q[2] /\ RowStart(Tail, q[1]) + (q[2] - q[1]) = t
           IN Times(x[(dim - Tail) + p[1]], x[(dim - Tail) + p[2]])]
      A == [t \in 0 .. Triangle(Tail) - 1 |-> tri[first + t]]
  IN BatchAdd(y[LongRows(dim)], Prod(Triangle(Tail), A, quad_terms))

(* gfmat_prod(y, O, _V_BYTE, _O, x): O times a vector of the oil space. *)
OilProd(B, x) ==
  [k \in 0 .. V - 1 |->
     Dot(O, [j \in 0 .. O - 1 |-> Col(B, j, k)], x)]
=============================================================================

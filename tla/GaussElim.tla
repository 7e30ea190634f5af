------------------------------ MODULE GaussElim ------------------------------
(***************************************************************************)
(* The linear system of a signing attempt, as gaussian_elim_ref and        *)
(* back_substitute_ref of ref/blas_matrix_ref.c solve it: constant time,   *)
(* so a zero pivot is repaired by adding the rows below whether they help  *)
(* or not, and a system is found singular only by the flag r8 at the end.  *)
(* Rows are padded to a whole number of Unit elements with the data at the *)
(* tail, and every row operation starts at the unit holding the pivot.     *)
(* An element is a byte over GF(256) and half a byte over GF(16), where    *)
(* Unit is twice _BLAS_UNIT_LEN_ and the constant has a byte of its own.   *)
(* The field is a parameter, of characteristic 2: subtracting is adding.   *)
(***************************************************************************)
EXTENDS Integers

CONSTANTS
  F,            (* the field's elements *)
  Zero, One,
  Plus(_, _), Times(_, _),
  Inv(_),       (* gf16_inv, gf256_inv: x^14, x^254, so 0 for 0 *)
  L,            (* len: _O *)
  Unit,         (* elements per _BLAS_UNIT_LEN_ *)
  StepBounds,   (* _GE_EARLY_STOP_STEPS_*; L or more: no early stop *)
  Systems       (* bound: the systems to solve, records [a, c] *)

ASSUME SizeAssumption ==
  L \in Nat \ {0} /\ Unit \in Nat \ {0} /\ StepBounds \subseteq Nat \ {0}
ASSUME SystemsAssumption == Systems \subseteq [a : [0 .. (L * L) - 1 -> F], c : [0 .. L - 1 -> F]]
ASSUME FieldClosed ==
  /\ Zero \in F /\ One \in F /\ Zero # One
  /\ \A x, y \in F : Plus(x, y) \in F /\ Times(x, y) \in F
  /\ \A x \in F : Inv(x) \in F
ASSUME FieldLaws ==
  /\ \A x \in F : /\ Plus(x, Zero) = x /\ Plus(Zero, x) = x /\ Plus(x, x) = Zero
                  /\ Times(x, Zero) = Zero /\ Times(Zero, x) = Zero
                  /\ Times(x, One) = x /\ Times(One, x) = x
  /\ \A x \in F \ {Zero} : Times(x, Inv(x)) = One
  /\ Inv(Zero) = Zero
ASSUME FieldRing ==
  \A x, y, z \in F :
    /\ Plus(x, y) = Plus(y, x) /\ Plus(Plus(x, y), z) = Plus(x, Plus(y, z))
    /\ Times(x, y) = Times(y, x) /\ Times(Times(x, y), z) = Times(x, Times(y, z))
    /\ Times(Plus(x, y), z) = Plus(Times(x, z), Times(y, z))

VARIABLES
  pc,
  steps,   (* the early-stop bound of the build *)
  perByte, (* elements of a byte *)
  transposed,  (* _GF16_TRANSPOSE_: back_substitute transposes the matrix first *)
  a, c,    (* sqmat_a, constant: the caller's buffers *)
  mat,     (* the padded rows *)
  i, j,    (* the loop counters *)
  r8,      (* every pivot so far was nonzero *)
  column,  (* back_substitute's column buffer *)
  temp,    (* back_substitute's accumulator *)
  a0, c0   (* the system of the call, as the caller gave it *)

vars == <<pc, steps, perByte, transposed, a, c, mat, i, j, r8, column, temp, a0, c0>>

Rows == 0 .. L - 1
RoundUp(n) == ((n + Unit - 1) \div Unit) * Unit

(* width, offset *)
Width == RoundUp(L + perByte)
Offset == Width - (L + perByte)
Cols == 0 .. Width - 1

(* idx, i_start, stop *)
Idx(r) == Offset + r
IStart(r) == Idx(r) - (Idx(r) % Unit)
Stop(r) == IF r + steps < L THEN r + steps ELSE L

ZeroBuf == [k \in 0 .. (L + Unit) - 1 |-> Zero]
ZeroMat == [r \in Rows |-> [k \in Cols |-> Zero]]

-----------------------------------------------------------------------------
Init ==
  /\ pc = "idle"
  /\ steps \in StepBounds
  /\ perByte \in {1, 2} /\ transposed \in BOOLEAN /\ (transposed => perByte = 2)
  /\ a = [k \in 0 .. (L * L) - 1 |-> Zero] /\ c = [r \in Rows |-> Zero]
  /\ mat = ZeroMat
  /\ i = 0 /\ j = 0
  /\ r8 = 1
  /\ column = ZeroBuf /\ temp = ZeroBuf
  /\ a0 = a /\ c0 = c

(* An attempt of ov_sign_core has built some system. *)
Call ==
  /\ pc = "idle"
  /\ \E s \in Systems : a' = s.a /\ c' = s.c
  /\ a0' = a' /\ c0' = c'
  /\ pc' = "load"
  /\ UNCHANGED <<steps, perByte, transposed, mat, i, j, r8, column, temp>>

(* The matrix comes column by column and is laid out row by row, the       *)
(* constant behind it, zeros in front.                                     *)
Entry(r, k) == a[(k * L) + r]

Load ==
  /\ pc = "load"
  /\ mat' = [r \in Rows |->
               [k \in Cols |->
                  IF k < Offset THEN Zero
                  ELSE IF k < Offset + L THEN Entry(r, k - Offset)
                  ELSE IF k = Offset + L THEN c[r]
                  ELSE Zero]]
  /\ pc' = "pivot" /\ i' = 0 /\ j' = 1
  /\ r8' = 1
  /\ UNCHANGED <<steps, perByte, transposed, a, c, column, temp, a0, c0>>

(* gfv_add, gfv_mul_scalar, gfv_madd from i_start to the end of the row *)
AddRow(x, y, from) ==
  [k \in Cols |-> IF k >= from THEN Plus(x[k], y[k]) ELSE x[k]]
ScaleRow(x, s, from) ==
  [k \in Cols |-> IF k >= from THEN Times(x[k], s) ELSE x[k]]
MaddRow(x, y, s, from) ==
  [k \in Cols |-> IF k >= from THEN Plus(x[k], Times(y[k], s)) ELSE x[k]]

(* The pivot is looked at again for every row below. *)
RepairsFirst == mat[i][Idx(i)] = Zero /\ j = i + 1
Repairs == mat[i][Idx(i)] = Zero

CondAdd ==
  /\ pc = "pivot" /\ j < Stop(i)
  /\ mat' = IF Repairs
            THEN [mat EXCEPT ![i] = AddRow(mat[i], mat[j], IStart(i))]
            ELSE mat
  /\ j' = j + 1
  /\ UNCHANGED <<pc, steps, perByte, transposed, a, c, i, r8, column, temp, a0, c0>>

(* r8 &= is_nonzero(pivot) *)
Flag(pivot) == IF pivot = Zero THEN 0 ELSE r8

(* pivot = inv( pivot ) *)
Normaliser(pivot) == Inv(pivot)

(* The pivot row normalised, and the rows below freed of its column. *)
Reduce ==
  LET pivot == mat[i][Idx(i)]
      prow == ScaleRow(mat[i], Normaliser(pivot), IStart(i))
  IN
    /\ pc = "pivot" /\ ~ (j < Stop(i))
    /\ r8' = Flag(pivot)
    /\ mat' = [r \in Rows |->
                 IF r < i THEN mat[r]
                 ELSE IF r = i THEN prow
                 ELSE MaddRow(mat[r], prow, mat[r][Idx(i)], IStart(i))]
    /\ \/ i < L - 1 /\ i' = i + 1 /\ j' = i + 2 /\ UNCHANGED pc
       \/ i = L - 1 /\ pc' = "store" /\ UNCHANGED <<i, j>>
    /\ UNCHANGED <<steps, perByte, transposed, a, c, column, temp, a0, c0>>

(* The echelon form goes back row by row; a singular system is given up by *)
(* the caller.                                                             *)
Store ==
  /\ pc = "store"
  /\ a' = [k \in 0 .. (L * L) - 1 |-> mat[k \div L][Offset + (k % L)]]
  /\ c' = [r \in Rows |-> mat[r][Offset + L]]
  /\ pc' = IF r8 = 1 THEN "back" ELSE "singular"
  /\ UNCHANGED <<steps, perByte, transposed, mat, i, j, r8, column, temp, a0, c0>>

(* memcpy( temp, constant, len ) *)
BackLoad ==
  /\ pc = "back"
  /\ temp' = [k \in DOMAIN ZeroBuf |-> IF k < L THEN c[k] ELSE Zero]
  /\ column' = ZeroBuf
  /\ i' = L - 1
  /\ pc' = "substitute"
  /\ UNCHANGED <<steps, perByte, transposed, a, c, mat, j, r8, a0, c0>>

(* len2: whole units *)
AddedLen(n) == RoundUp(n)

(* Column n above the diagonal, the diagonal entry cleared: the addition   *)
(* works on whole units and would reach it and what is behind, which is    *)
(* what earlier columns left, or the column's lower part if transposed.    *)
ColumnOf(n) ==
  [k \in DOMAIN ZeroBuf |->
     IF k < n THEN a[(k * L) + n]
     ELSE IF k = n THEN Zero
     ELSE IF transposed THEN IF k < L THEN a[(k * L) + n] ELSE Zero
     ELSE column[k]]

Substitute ==
  /\ pc = "substitute" /\ i > 0
  /\ column' = ColumnOf(i)
  /\ temp' = [k \in DOMAIN ZeroBuf |->
                IF k < AddedLen(i) THEN Plus(temp[k], Times(column'[k], temp[i]))
                ELSE temp[k]]
  /\ i' = i - 1
  /\ UNCHANGED <<pc, steps, perByte, transposed, a, c, mat, j, r8, a0, c0>>

(* memcpy( constant, temp, len ) *)
BackStore ==
  /\ pc = "substitute" /\ i = 0
  /\ c' = [r \in Rows |-> temp[r]]
  /\ pc' = "solved"
  /\ UNCHANGED <<steps, perByte, transposed, a, mat, i, j, r8, column, temp, a0, c0>>

(* The next attempt's buffers are its own. *)
Return ==
  /\ pc \in {"solved", "singular"}
  /\ pc' = "idle"
  /\ a' = [k \in 0 .. (L * L) - 1 |-> Zero] /\ c' = [r \in Rows |-> Zero]
  /\ a0' = a' /\ c0' = c'
  /\ mat' = ZeroMat
  /\ i' = 0 /\ j' = 0 /\ r8' = 1
  /\ column' = ZeroBuf /\ temp' = ZeroBuf
  /\ UNCHANGED <<steps, perByte, transposed>>

Next ==
  \/ Call \/ Load \/ CondAdd \/ Reduce \/ Store
  \/ BackLoad \/ Substitute \/ BackStore
  \/ Return

Spec == Init /\ [][Next]_vars

-----------------------------------------------------------------------------
(* The buffers hold field elements, and the loops stay inside them.        *)
TypeOK ==
  /\ pc \in {"idle", "load", "pivot", "store", "back", "substitute", "solved", "singular"}
  /\ steps \in StepBounds
  /\ perByte \in {1, 2} /\ transposed \in BOOLEAN
  /\ a \in [0 .. (L * L) - 1 -> F] /\ a0 \in [0 .. (L * L) - 1 -> F]
  /\ c \in [Rows -> F] /\ c0 \in [Rows -> F]
  /\ mat \in [Rows -> [Cols -> F]]
  /\ i \in Rows /\ j \in 0 .. L
  /\ r8 \in {0, 1}
  /\ column \in [0 .. (L + Unit) - 1 -> F]
  /\ temp \in [0 .. (L + Unit) - 1 -> F]

(* The pivots dealt with, during the elimination and after it. *)
Reduced == IF pc = "pivot" THEN 0 .. i - 1 ELSE Rows

(* The reference functions, on their own; EchelonKept and SolvedStay of    *)
(* SimdElim say what holds on every back end.                              *)
(* As long as every pivot was nonzero, the columns dealt with are those of *)
(* an upper triangular matrix with ones on the diagonal, and the padding   *)
(* in front is zero: the operations from i_start on, left of the pivot,    *)
(* have changed nothing.                                                   *)
Echelon ==
  pc \in {"pivot", "store"} /\ r8 = 1 =>
    \A r \in Rows :
      /\ \A k \in 0 .. Offset - 1 : mat[r][k] = Zero
      /\ \A p \in Reduced : p = r => mat[r][Idx(p)] = One
      /\ \A p \in Reduced : p < r => mat[r][Idx(p)] = Zero

(* What the additions of back_substitute reach beyond the elements above   *)
(* the diagonal is zero: nothing is added to temp[i], which is final, nor  *)
(* to what is behind.                                                      *)
OnlyAddsZeros ==
  pc = "substitute" =>
    /\ \A k \in DOMAIN ZeroBuf : k > i => column[k] = Zero
    /\ \A k \in DOMAIN ZeroBuf : k >= L => temp[k] = Zero

-----------------------------------------------------------------------------
(* The sum of row[k] * x[k] over k < L. *)
Dot(row, x) ==
  LET sum[k \in 0 .. L] ==
        IF k = 0 THEN Zero ELSE Plus(sum[k - 1], Times(row[k - 1], x[k - 1]))
  IN sum[L]

(* The solutions of the system the caller gave, a0 column by column. *)
Solutions ==
  { x \in [Rows -> F] :
      \A r \in Rows : Dot([k \in Rows |-> a0[(k * L) + r]], x) = c0[r] }

(* What a call that succeeds leaves in constant solves the system it was   *)
(* given, and nothing else does: the layouts of the two functions agree    *)
(* and the over-long additions of back_substitute are harmless, under an   *)
(* early stop too.                                                         *)
Solves == pc = "solved" => Solutions = {c}

(* gaussian_elim returns 0 only for a singular matrix: adding rows below   *)
(* as long as the pivot is zero finds every pivot there is.                *)
Singular ==
  \E x \in [Rows -> F] \ {[r \in Rows |-> Zero]} :
    \A r \in Rows : Dot([k \in Rows |-> a0[(k * L) + r]], x) = Zero
FailsSingular == pc = "singular" /\ steps >= L => Singular

(* The same with the options of config.h, which "do not affect             *)
(* testvectors": "@return 1(true) if success. 0(false) if the matrix is    *)
(* singular" (blas_matrix.h).                                              *)
FailsOnlySingular == pc = "singular" => Singular
=============================================================================

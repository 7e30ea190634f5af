------------------------------- MODULE SimdElim -------------------------------
(***************************************************************************)
(* The linear system of GaussElim as the other back ends solve it, to      *)
(* stand in for gaussian_elim_ref and back_substitute_ref.                 *)
(*   "neon"   blas_matrix_neon.c, GF(16) and GF(256): the column of a      *)
(*            pivot is copied to pivots[] before the pivot is repaired,    *)
(*            and the repair is done to the copy as well.                  *)
(*   "avx2"   blas_matrix_avx2.c, GF(256), and "gfni"                      *)
(*            blas_matrix_avx2_gfni.c: the copy is taken after the repair. *)
(*   "avx2_64" blas_matrix_avx2.c, GF(16), 64 by 64: a row fills a         *)
(*            register, so there is no room for the constants; they are    *)
(*            kept apart until column 0 is known to be 1, 0, ..., 0, and   *)
(*            then take its place.                                         *)
(* The buffers are not cleared: what is in the padding is anything.  That  *)
(* the register code transposes a matrix is the matter of Transpose.       *)
(***************************************************************************)
EXTENDS GaussElim

CONSTANT Junk   (* bound: what memory never written may hold *)
ASSUME JunkAssumption == Junk \subseteq F

VARIABLES
  be,      (* "ref", "neon", "avx2", "gfni" or "avx2_64" *)
  phase,   (* what it is at: "off", "column", "repair", "reduce", "store", "back" or "substitute" *)
  pivots,  (* the copy of the pivot's column *)
  vec,     (* the constants apart from the matrix *)
  junk     (* what was in the buffers before *)

simd == <<be, phase, pivots, vec, junk>>
fixed == <<steps, perByte, transposed, be, junk>>
allvars == <<vars, simd>>

Zeros == [r \in Rows |-> Zero]
CopiesLate == be \in {"avx2", "gfni"}

SimdInit ==
  /\ Init
  /\ be \in {"ref", "neon", "avx2", "gfni", "avx2_64"}
  /\ be # "ref" => ~transposed
  /\ be = "ref" => junk = Zero
  /\ be \in {"avx2", "gfni"} => perByte = 1
  /\ be = "avx2_64" => perByte = 2
  /\ phase = "off"
  /\ pivots = Zeros /\ vec = Zeros
  /\ junk \in Junk

-----------------------------------------------------------------------------
(* Where a row operation starts: the register of the pivot, or the row. *)
Start(r) == IF be = "avx2_64" THEN 0 ELSE IStart(r)

SimdLoad ==
  /\ be # "ref" /\ pc = "load" /\ phase = "off"
  /\ mat' = [r \in Rows |->
               [k \in Cols |->
                  IF k < Offset THEN IF be = "avx2_64" THEN Zero ELSE junk
                  ELSE IF k < Offset + L THEN Entry(r, k - Offset)
                  ELSE IF k = Offset + L /\ be # "avx2_64" THEN c[r]
                  ELSE Zero]]
  /\ vec' = IF be = "avx2_64" THEN c ELSE vec
  /\ i' = 0 /\ j' = 1 /\ r8' = 1
  /\ phase' = IF CopiesLate THEN "repair" ELSE "column"
  /\ UNCHANGED <<fixed, pc, a, c, column, temp, a0, c0, pivots>>

(* pivots[j] for the rows from i on *)
CopyPadding ==
  /\ phase = "column"
  /\ pivots' = [r \in Rows |-> IF r >= i THEN mat[r][Idx(i) - 1] ELSE pivots[r]]
  /\ phase' = IF CopiesLate THEN "reduce" ELSE "repair"
  /\ UNCHANGED <<vars, be, vec, junk>>
CopyColumn ==
  /\ phase = "column"
  /\ pivots' = [r \in Rows |-> IF r >= i THEN mat[r][Idx(i)] ELSE pivots[r]]
  /\ phase' = IF CopiesLate THEN "reduce" ELSE "repair"
  /\ UNCHANGED <<vars, be, vec, junk>>

(* Row j is added under a mask; the copied pivot must follow its row. *)
PivotSeen == IF CopiesLate THEN mat[i][Idx(i)] ELSE pivots[i]
FollowsNot(p) == pivots
Follows(p) == IF CopiesLate THEN pivots ELSE [pivots EXCEPT ![i] = Plus(@, p)]
Repair ==
  /\ phase = "repair" /\ j < Stop(i)
  /\ \/ /\ PivotSeen = Zero
        /\ mat' = [mat EXCEPT ![i] = AddRow(mat[i], mat[j], Start(i))]
        /\ pivots' = Follows(pivots[j])
        /\ vec' = IF be = "avx2_64" /\ i = 0 THEN [vec EXCEPT ![0] = Plus(@, vec[j])] ELSE vec
     \/ /\ PivotSeen # Zero
        /\ UNCHANGED <<mat, pivots, vec>>
  /\ j' = j + 1
  /\ UNCHANGED <<fixed, phase, pc, a, c, i, r8, column, temp, a0, c0>>
EndRepair ==
  /\ phase = "repair" /\ ~ (j < Stop(i))
  /\ phase' = IF CopiesLate THEN "column" ELSE "reduce"
  /\ UNCHANGED <<vars, be, pivots, vec, junk>>

(* "copy vec to mat": column 0 is 1, 0, ..., 0 if its pivot was not zero.  *)
MergedSquare(m, v) == [r \in Rows |-> [m[r] EXCEPT ![Offset] = Plus(@, v[r])]]
Merged(m, v) ==
  [r \in Rows |->
     [m[r] EXCEPT ![Offset] = Plus(IF r = 0 THEN Plus(m[0][Offset], One) ELSE m[r][Offset], v[r])]]

SimdReduce ==
  LET s == Inv(pivots[i])
      prow == ScaleRow(mat[i], s, Start(i))
      rows == [r \in Rows |->
                 IF r < i THEN mat[r]
                 ELSE IF r = i THEN prow
                 ELSE MaddRow(mat[r], prow, pivots[r], Start(i))]
      pvec == Times(vec[i], s)
      consts == [r \in Rows |-> IF r = 0 THEN pvec ELSE Plus(vec[r], Times(pvec, pivots[r]))]
  IN
    /\ phase = "reduce"
    /\ r8' = Flag(pivots[i])
    /\ pivots' = [pivots EXCEPT ![i] = s]
    /\ IF be = "avx2_64" /\ i = 0
       THEN vec' = consts /\ mat' = Merged(rows, consts)
       ELSE vec' = vec /\ mat' = rows
    /\ \/ i < L - 1 /\ i' = i + 1 /\ j' = i + 2 /\ phase' = IF CopiesLate THEN "repair" ELSE "column"
       \/ i = L - 1 /\ phase' = "store" /\ UNCHANGED <<i, j>>
    /\ UNCHANGED <<fixed, pc, a, c, column, temp, a0, c0>>

(* The 64 by 64 function leaves the constants in column 0 of the matrix. *)
SimdStore ==
  /\ phase = "store"
  /\ a' = [k \in 0 .. (L * L) - 1 |-> mat[k \div L][Offset + (k % L)]]
  /\ c' = IF be = "avx2_64" THEN c ELSE [r \in Rows |-> mat[r][Offset + L]]
  /\ \/ r8 = 1 /\ phase' = "back" /\ UNCHANGED pc
     \/ r8 = 0 /\ phase' = "off" /\ pc' = "singular"
  /\ UNCHANGED <<fixed, mat, i, j, r8, column, temp, a0, c0, pivots, vec>>

-----------------------------------------------------------------------------
(* back_substitute: temp is constant itself for NEON, and for 64 by 64 the *)
(* first row of the transposed matrix, its column 0.                       *)
SimdBackLoad ==
  /\ phase = "back"
  /\ temp' = [k \in DOMAIN ZeroBuf |->
                IF k >= L THEN junk ELSE IF be = "avx2_64" THEN a[k * L] ELSE c[k]]
  /\ column' = ZeroBuf
  /\ i' = L - 1
  /\ phase' = "substitute"
  /\ UNCHANGED <<fixed, pc, a, c, mat, j, r8, a0, c0, pivots, vec>>

(* The elements of temp an addition reaches. *)
SimdAddedLen(n) ==
  CASE CopiesLate -> RoundUp(n)
    [] be = "neon" /\ perByte = 2 -> 2 * ((n + 1) \div 2)
    [] OTHER -> L

(* Column n with its diagonal cleared: built up, or out of the transposed  *)
(* matrix with what the elimination left below.                            *)
SimdColumnUncleared(n) ==
  [k \in DOMAIN ZeroBuf |->
     IF k < n THEN a[(k * L) + n]
     ELSE IF perByte = 2 THEN IF k < L THEN a[(k * L) + n] ELSE Zero
     ELSE column[k]]
SimdColumn(n) ==
  [k \in DOMAIN ZeroBuf |->
     IF k < n THEN a[(k * L) + n]
     ELSE IF k = n THEN Zero
     ELSE IF perByte = 2 THEN IF k < L THEN a[(k * L) + n] ELSE Zero
     ELSE column[k]]

SimdSubstitute ==
  /\ phase = "substitute" /\ i > 0
  /\ column' = SimdColumn(i)
  /\ temp' = [k \in DOMAIN ZeroBuf |->
                IF k < SimdAddedLen(i) THEN Plus(temp[k], Times(column'[k], temp[i])) ELSE temp[k]]
  /\ i' = i - 1
  /\ UNCHANGED <<fixed, phase, pc, a, c, mat, j, r8, a0, c0, pivots, vec>>

SimdBackStore ==
  /\ phase = "substitute" /\ i = 0
  /\ c' = [r \in Rows |-> temp[r]]
  /\ phase' = "off" /\ pc' = "solved"
  /\ UNCHANGED <<fixed, a, mat, i, j, r8, column, temp, a0, c0, pivots, vec>>

-----------------------------------------------------------------------------
(* Which function each step belongs to. *)
RowEchelon(b, n) == be = b /\ perByte = n /\ (CopyColumn \/ Repair \/ EndRepair \/ SimdReduce)
Elim(b, n) == be = b /\ perByte = n /\ (SimdLoad \/ SimdStore)
Back(b, n) == be = b /\ perByte = n /\ (SimdBackLoad \/ SimdSubstitute \/ SimdBackStore)

gf16mat_gauss_elim_row_echolen_neon == RowEchelon("neon", 2)
gf256mat_gauss_elim_row_echolen_neon == RowEchelon("neon", 1)
gf256mat_gauss_elim_row_echelon_avx2 == RowEchelon("avx2", 1)
gf256mat_gauss_elim_row_echelon_avx2_gfni == RowEchelon("gfni", 1)
gf16mat_sol_64x64_avx2 == RowEchelon("avx2_64", 2)

gf16mat_gaussian_elim_neon == Elim("neon", 2)
gf256mat_gaussian_elim_neon == Elim("neon", 1)
gf256mat_gaussian_elim_avx2 == Elim("avx2", 1)
gf256mat_gaussian_elim_avx2_gfni == Elim("gfni", 1)
gf16mat_GE_64x64_avx2 == Elim("avx2_64", 2)

gf16mat_back_substitute_neon == Back("neon", 2)
gf256mat_back_substitute_neon == Back("neon", 1)
gf256mat_back_substitute_avx2 == Back("avx2", 1)
gf256mat_back_substitute_avx2_gfni == Back("gfni", 1)
gf16mat_BS_64x64_avx2 == Back("avx2_64", 2)

SimdNext ==
  \/ gf16mat_gauss_elim_row_echolen_neon \/ gf256mat_gauss_elim_row_echolen_neon
  \/ gf256mat_gauss_elim_row_echelon_avx2 \/ gf256mat_gauss_elim_row_echelon_avx2_gfni
  \/ gf16mat_sol_64x64_avx2
  \/ gf16mat_gaussian_elim_neon \/ gf256mat_gaussian_elim_neon
  \/ gf256mat_gaussian_elim_avx2 \/ gf256mat_gaussian_elim_avx2_gfni
  \/ gf16mat_GE_64x64_avx2
  \/ gf16mat_back_substitute_neon \/ gf256mat_back_substitute_neon
  \/ gf256mat_back_substitute_avx2 \/ gf256mat_back_substitute_avx2_gfni
  \/ gf16mat_BS_64x64_avx2

(* The calls and returns of the signer, and the reference functions. *)
AllNext ==
  \/ Call /\ UNCHANGED simd
  \/ be = "ref" /\ (Load \/ CondAdd \/ Reduce \/ Store \/ BackLoad \/ Substitute \/ BackStore) /\ UNCHANGED simd
  \/ Return /\ pivots' = Zeros /\ vec' = Zeros /\ UNCHANGED <<be, phase, junk>>
  \/ SimdNext

AllSpec == SimdInit /\ [][AllNext]_allvars

-----------------------------------------------------------------------------
(* The system a call holds, whichever function is at work.                 *)
Vector == [Rows -> F]
Sol(A, b) == { x \in Vector : \A r \in Rows : Dot(A[r], x) = b[r] }
Delta(r, k) == IF r = k THEN One ELSE Zero

Forming == phase \in {"column", "repair", "reduce"}
Eliminating == pc = "pivot" \/ Forming
Eliminated == pc = "store" \/ phase = "store"
Substituting == pc = "substitute" \/ phase = "substitute"

(* Its matrix and its constants: for 64 by 64 those are apart until column *)
(* 0 is done, and in its place afterwards.                                 *)
Joined == be = "avx2_64" /\ ~ (Forming /\ i = 0)
CurA ==
  [r \in Rows |-> [k \in Rows |-> IF Joined /\ k = 0 THEN Delta(r, 0) ELSE mat[r][Offset + k]]]
CurB ==
  [r \in Rows |-> IF be # "avx2_64" THEN mat[r][Offset + L]
                  ELSE IF Joined THEN mat[r][Offset] ELSE vec[r]]

(* Ones on the diagonal of the first p columns and zeros below. *)
Front(A, p) ==
  \A r, k \in Rows : k < p => (k = r => A[r][k] = One) /\ (k < r => A[r][k] = Zero)

(* On every back end, as long as no pivot was zero: the columns dealt with *)
(* are upper triangular with ones on the diagonal, although rows are       *)
(* operated on from a register's start; and when all are, the rows have    *)
(* the solutions of the caller's system, whatever the padding held and     *)
(* wherever the constants were kept on the way.                            *)
EchelonKept ==
  r8 = 1 =>
    /\ Eliminating => Front(CurA, i)
    /\ Eliminated => Front(CurA, L) /\ Sol(CurA, CurB) = Solutions

(* On every back end, a step of back substitution changes no coordinate    *)
(* already solved and nothing behind the vector: its additions reach both, *)
(* and the element they are scaled by, and add zeros there.  With Solves,  *)
(* a coordinate is the solution's from the step that solves it.            *)
SolvedStay ==
  [][Substituting /\ i > 0 => \A k \in DOMAIN ZeroBuf : k >= i => temp'[k] = temp[k]]_allvars

(* When the rows below are reduced with the elements copied to pivots[],   *)
(* those are still what the matrix holds in the pivot's column, although   *)
(* the pivot's row has been repaired since or is read before: no element   *)
(* used is stale.                                                          *)
PivotsCurrent ==
  phase = "reduce" => \A r \in i .. L - 1 : pivots[r] = mat[r][Idx(i)]
=============================================================================

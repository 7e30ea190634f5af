--------------------------- MODULE GaussElimProofs ---------------------------
(***************************************************************************)
(* Proofs about GaussElim and SimdElim for every field of characteristic   *)
(* 2, every size, unit, early stop and back end.  First the buffers are    *)
(* never left, a success means an upper triangular matrix with ones on the *)
(* diagonal, and the over-long additions of back_substitute add zeros      *)
(* only.  Next, what a call computes: sums of products, and what the steps *)
(* of an elimination do to the solutions of a system.  Then, for the       *)
(* functions of blas_matrix_ref.c and those of the four other back ends    *)
(* alike: the copy of the pivots agrees with the matrix, the elimination   *)
(* keeps the caller's solutions, back substitution never writes again what *)
(* it has solved, a success leaves the only solution of the caller's       *)
(* system, and with no early stop a failure means a singular matrix.       *)
(***************************************************************************)
EXTENDS SimdElim, WellFoundedInduction, TLAPS

-----------------------------------------------------------------------------
(* \div and %, which the SMT backend does not reason about by itself.      *)

(* Quotient and remainder are determined by their defining equation. *)
LEMMA DivUnique ==
  ASSUME NEW d \in Nat \ {0}, NEW q \in Int, NEW r \in Int, 0 <= r, r < d
  PROVE  /\ (q * d + r) \div d = q
         /\ (q * d + r) % d = r
<1> DEFINE num == q * d + r
           p == num \div d
           s == num % d
<1>1. num \in Int /\ p \in Int /\ s \in Int /\ num = d * p + s /\ 0 <= s /\ s < d
  OBVIOUS
<1>2. d * (p - q) = r - s
  BY <1>1
<1>3. p - q < 1
  <2>1. SUFFICES ASSUME p - q >= 1 PROVE FALSE
    BY <1>1
  <2>2. d * (p - q) >= d
    BY <2>1, <1>1
  <2> QED BY <2>2, <1>2, <1>1
<1>4. p - q > -1
  <2>1. SUFFICES ASSUME p - q <= -1 PROVE FALSE
    BY <1>1
  <2>2. d * (p - q) <= -d
    BY <2>1, <1>1
  <2> QED BY <2>2, <1>2, <1>1
<1>5. p = q
  BY <1>3, <1>4, <1>1
<1> QED BY <1>5, <1>1

(* Division with remainder, as the SMT backend needs it spelled out. *)
LEMMA DivMod ==
  ASSUME NEW d \in Nat \ {0}, NEW num \in Int
  PROVE  /\ num \div d \in Int
         /\ num % d \in 0 .. d - 1
         /\ num = (num \div d) * d + (num % d)
  OBVIOUS

(* Rounding up to a multiple of d is at least the number and less than d   *)
(* above it.                                                               *)
LEMMA RoundUpBounds ==
  ASSUME NEW d \in Nat \ {0}, NEW n \in Nat
  PROVE  LET m == ((n + d - 1) \div d) * d
         IN  m \in Nat /\ n <= m /\ m < n + d
<1> DEFINE num == (n + d) - 1
           q == num \div d
<1>1. num \in Int /\ num = n + d - 1
  OBVIOUS
<1> HIDE DEF num
<1>2. q \in Int /\ num % d \in 0 .. d - 1 /\ num = q * d + (num % d)
  BY <1>1, DivMod
<1> HIDE DEF q
<1>3. q * d \in Int
  BY <1>2
<1>4. q * d \in Nat /\ n <= q * d /\ q * d < n + d
  BY <1>1, <1>2, <1>3
<1> QED BY <1>1, <1>4 DEF q

(* A remainder is at most the number. *)
LEMMA ModAtMost ==
  ASSUME NEW d \in Nat \ {0}, NEW num \in Nat
  PROVE  num % d \in Nat /\ num % d <= num
<1> DEFINE q == num \div d
<1>1. q \in Int /\ num % d \in 0 .. d - 1 /\ num = q * d + (num % d)
  BY DivMod
<1> HIDE DEF q
<1>2. q >= 0
  <2>1. SUFFICES ASSUME q <= -1 PROVE FALSE
    BY <1>1
  <2>2. q * d <= -d
    BY <2>1, <1>1
  <2> QED BY <2>2, <1>1
<1>3. q * d \in Nat
  BY <1>1, <1>2
<1> QED BY <1>1, <1>3

(* Entry k of row r of a flat matrix of rows of length d. *)
LEMMA FlatIndex ==
  ASSUME NEW d \in Nat \ {0}, NEW r \in 0 .. d - 1, NEW k \in 0 .. d - 1
  PROVE  /\ (r * d) + k \in 0 .. (d * d) - 1
         /\ ((r * d) + k) \div d = r
         /\ ((r * d) + k) % d = k
<1>1. r * d \in Nat /\ r * d <= (d - 1) * d
  OBVIOUS
<1>2. (d - 1) * d = (d * d) - d
  OBVIOUS
<1>3. d * d \in Nat
  OBVIOUS
<1>4. (r * d) + k \in 0 .. (d * d) - 1
  BY <1>1, <1>2, <1>3
<1> QED BY <1>4, DivUnique

(* The row and the column of an entry of a flat matrix. *)
LEMMA FlatParts ==
  ASSUME NEW d \in Nat \ {0}, NEW num \in 0 .. (d * d) - 1
  PROVE  num \div d \in 0 .. d - 1 /\ num % d \in 0 .. d - 1
<1> DEFINE q == num \div d
<1>1. d * d \in Nat
  OBVIOUS
<1>2. q \in Int /\ num % d \in 0 .. d - 1 /\ num = q * d + (num % d) /\ num \in Int
  BY DivMod, <1>1
<1> HIDE DEF q
<1>3. ~ (q >= d)
  <2>1. SUFFICES ASSUME q >= d PROVE FALSE
    OBVIOUS
  <2>2. q * d >= d * d
    BY <2>1, <1>2
  <2> QED BY <2>2, <1>1, <1>2
<1>4. ~ (q <= -1)
  <2>1. SUFFICES ASSUME q <= -1 PROVE FALSE
    OBVIOUS
  <2>2. q * d <= -d
    BY <2>1, <1>2
  <2> QED BY <2>2, <1>2
<1>5. q \in 0 .. d - 1
  BY <1>2, <1>3, <1>4
<1> QED BY <1>2, <1>5 DEF q

(* The library's induction theorems take an operator as a parameter; for   *)
(* the elements of a set, its least-element theorem is enough.             *)
LEMMA NatLess == IsWellFoundedOn({ss \in Nat \X Nat : ss[1] < ss[2]}, Nat)
  BY NatLessThanWellFounded DEF OpToRel

(* Induction over the natural numbers, for a set. *)
LEMMA SetInduction ==
  ASSUME NEW X, 0 \in X, \A n \in Nat : n \in X => n + 1 \in X
  PROVE  \A n \in Nat : n \in X
<1> DEFINE R == {ss \in Nat \X Nat : ss[1] < ss[2]}
           T == Nat \ X
<1>1. SUFFICES ASSUME T # {} PROVE FALSE
  OBVIOUS
<1>2. IsWellFoundedOn(R, Nat) /\ T \subseteq Nat
  BY NatLess
<1>3. PICK n \in T : \A k \in T : ~ (<<k, n>> \in R)
  <2> HIDE DEF R, T
  <2> QED BY <1>1, <1>2, WFMin
<1>4. n \in Nat /\ n \notin X /\ n # 0
  BY <1>3
<1>5. n - 1 \in X
  <2>1. n - 1 \in Nat /\ n - 1 < n
    BY <1>4
  <2>2. <<n - 1, n>> \in R
    BY <1>4, <2>1
  <2> QED BY <1>3, <2>1, <2>2
<1> QED
  <2>1. n - 1 \in Nat /\ (n - 1) + 1 = n
    BY <1>4
  <2> QED BY <1>4, <1>5, <2>1

(* Induction over 0 .. N. *)
LEMMA InductionUpTo ==
  ASSUME NEW N \in Nat, NEW X, 0 \in X, \A n \in 0 .. N - 1 : n \in X => n + 1 \in X
  PROVE  \A n \in 0 .. N : n \in X
<1> DEFINE T == { n \in Nat : n <= N => n \in X }
<1>1. 0 \in T
  OBVIOUS
<1>2. \A n \in Nat : n \in T => n + 1 \in T
  <2>1. TAKE n \in Nat
  <2>2. SUFFICES ASSUME n \in T, n + 1 <= N PROVE n + 1 \in X
    OBVIOUS
  <2>3. n \in 0 .. N - 1 /\ n \in X
    BY <2>2
  <2> QED BY <2>3
<1>3. \A n \in Nat : n \in T
  <2> HIDE DEF T
  <2> QED BY <1>1, <1>2, SetInduction
<1> QED BY <1>3

-----------------------------------------------------------------------------
(* The row added to row i lies below it. *)
Below == pc = "pivot" => i < j

(* The matrix back_substitute is given: nothing left of the diagonal. *)
Stored ==
  pc \in {"back", "substitute"} =>
    \A r, n \in Rows : n < r => a[(r * L) + n] = Zero

IInv == TypeOK /\ Below /\ Echelon /\ Stored /\ OnlyAddsZeros

-----------------------------------------------------------------------------
(* The sizes, and the layout of the padded rows. *)
LEMMA Sizes == L \in Nat \ {0} /\ Unit \in Nat \ {0} /\ StepBounds \subseteq Nat \ {0}
  BY SizeAssumption

LEMMA Layout ==
  ASSUME perByte \in {1, 2}
  PROVE  Width \in Nat /\ Offset \in Nat /\ Width = Offset + (L + perByte)
<1>1. RoundUp(L + perByte) \in Nat /\ L + perByte <= RoundUp(L + perByte)
  <2>1. L + perByte \in Nat
    BY Sizes
  <2> QED BY Sizes, <2>1, RoundUpBounds DEF RoundUp
<1> QED BY Sizes, <1>1 DEF Width, Offset

(* The layout belongs to the build. *)
LEMMA Rigid ==
  ASSUME [Next]_vars
  PROVE  perByte' = perByte /\ Width' = Width /\ Offset' = Offset /\ Cols' = Cols
<1>1. perByte' = perByte
  BY DEF Next, vars, Call, Load, CondAdd, Reduce, Store, BackLoad, Substitute, BackStore, Return
<1> QED BY <1>1 DEF Width, Offset, Cols

(* A row operation of pivot r covers the pivot. *)
LEMMA StartsBefore ==
  ASSUME perByte \in {1, 2}, NEW r \in Rows
  PROVE  /\ Idx(r) \in Cols
         /\ IStart(r) \in Nat /\ IStart(r) <= Idx(r)
<1>1. Idx(r) \in Nat /\ Idx(r) < Width
  BY Sizes, Layout DEF Idx, Rows
<1>2. Idx(r) % Unit \in Nat /\ Idx(r) % Unit <= Idx(r)
  BY <1>1, Sizes, ModAtMost
<1> QED BY <1>1, <1>2, Sizes, Layout DEF IStart, Cols

(* Row operations on rows of the field are rows of the field. *)
LEMMA RowsClosed ==
  ASSUME NEW x \in [Cols -> F], NEW y \in [Cols -> F], NEW s \in F, NEW from \in Nat
  PROVE  /\ AddRow(x, y, from) \in [Cols -> F]
         /\ ScaleRow(x, s, from) \in [Cols -> F]
         /\ MaddRow(x, y, s, from) \in [Cols -> F]
  BY FieldClosed DEF AddRow, ScaleRow, MaddRow

(* The early stop never reaches past the last row. *)
LEMMA StopBound ==
  ASSUME TypeOK
  PROVE  Stop(i) \in 0 .. L
  BY Sizes DEF TypeOK, Stop, Rows

-----------------------------------------------------------------------------
LEMMA InitInvariant == Init => IInv
<1> SUFFICES ASSUME Init PROVE IInv
  OBVIOUS
<1>1. L - 1 \in Nat /\ 0 \in Rows
  BY Sizes DEF Rows
<1>2. TypeOK
  BY <1>1, Sizes, FieldClosed DEF Init, TypeOK, ZeroBuf, ZeroMat, Rows
<1>3. Below /\ Echelon /\ Stored /\ OnlyAddsZeros
  BY DEF Init, Below, Echelon, Stored, OnlyAddsZeros
<1> QED BY <1>2, <1>3 DEF IInv

(* Types are kept, and the loop counters stay in their ranges. *)
LEMMA TypeStep ==
  ASSUME IInv, [Next]_vars
  PROVE  TypeOK' /\ Below'
<1> USE Sizes
<1>0. TypeOK /\ Below
  BY DEF IInv
<1>a. /\ perByte \in {1, 2} /\ Width \in Nat /\ Offset \in Nat
      /\ Width = Offset + (L + perByte)
  BY <1>0, Layout DEF TypeOK
<1>b. perByte' = perByte /\ Width' = Width /\ Offset' = Offset /\ Cols' = Cols
  BY Rigid
<1> USE <1>a, <1>b
<1>1. CASE Call
  BY <1>0, <1>1, SystemsAssumption DEF Call, TypeOK, Below, Rows
<1>2. CASE Load
  <2>1. mat' \in [Rows -> [Cols -> F]]
    <3>1. \A r \in Rows, k \in Cols :
            ~ (k < Offset) /\ k < Offset + L => Entry(r, k - Offset) \in F
      <4>1. TAKE r \in Rows, k \in Cols
      <4>2. HAVE ~ (k < Offset) /\ k < Offset + L
      <4>3. k - Offset \in 0 .. L - 1 /\ r \in 0 .. L - 1
        BY <4>2 DEF Cols, Rows
      <4>4. ((k - Offset) * L) + r \in 0 .. (L * L) - 1
        BY <4>3, FlatIndex
      <4> QED BY <4>4, <1>0 DEF Entry, TypeOK
    <3> QED BY <3>1, <1>0, <1>2, FieldClosed DEF Load, TypeOK
  <2> QED BY <1>0, <1>2, <2>1 DEF Load, TypeOK, Below, Rows
<1>3. CASE CondAdd
  <2>1. Stop(i) \in 0 .. L /\ i \in Rows /\ j \in 0 .. L
    BY <1>0, StopBound DEF TypeOK
  <2>2. j \in Rows
    BY <1>0, <1>3, <2>1 DEF CondAdd, Rows
  <2>3. AddRow(mat[i], mat[j], IStart(i)) \in [Cols -> F]
    BY <1>0, <2>1, <2>2, StartsBefore, RowsClosed DEF TypeOK
  <2>4. mat' \in [Rows -> [Cols -> F]]
    BY <1>0, <1>3, <2>3 DEF CondAdd, TypeOK
  <2> QED BY <1>0, <1>3, <2>1, <2>2, <2>4 DEF CondAdd, TypeOK, Below, Rows
<1>4. CASE Reduce
  <2> DEFINE pivot == mat[i][Idx(i)]
             prow == ScaleRow(mat[i], Normaliser(pivot), IStart(i))
  <2>1. pivot \in F /\ Normaliser(pivot) \in F
    BY <1>0, StartsBefore, FieldClosed DEF TypeOK, Normaliser
  <2>2. prow \in [Cols -> F]
    BY <1>0, <2>1, StartsBefore, RowsClosed DEF TypeOK
  <2> HIDE DEF prow
  <2>3. \A r \in Rows : MaddRow(mat[r], prow, mat[r][Idx(i)], IStart(i)) \in [Cols -> F]
    <3>1. TAKE r \in Rows
    <3>2. i \in Rows /\ Idx(i) \in Cols /\ IStart(i) \in Nat
      BY <1>0, StartsBefore DEF TypeOK
    <3>3. mat[r] \in [Cols -> F] /\ mat[r][Idx(i)] \in F
      BY <1>0, <3>2 DEF TypeOK
    <3> QED BY <2>2, <3>2, <3>3, RowsClosed
  <2>4. mat' \in [Rows -> [Cols -> F]]
    BY <1>0, <1>4, <2>2, <2>3 DEF Reduce, TypeOK, prow
  <2>5. r8' \in {0, 1}
    BY <1>0, <1>4 DEF Reduce, Flag, TypeOK
  <2>6. i' \in Rows /\ j' \in 0 .. L /\ (pc' = "pivot" => i' < j') /\ pc' \in {"pivot", "store"}
    BY <1>0, <1>4 DEF Reduce, TypeOK, Rows
  <2> QED BY <1>0, <1>4, <2>4, <2>5, <2>6 DEF Reduce, TypeOK, Below
<1>5. CASE Store
  <2>2. a' \in [0 .. (L * L) - 1 -> F]
    <3>1. \A k \in 0 .. (L * L) - 1 : mat[k \div L][Offset + (k % L)] \in F
      <4>1. TAKE k \in 0 .. (L * L) - 1
      <4>2. k \div L \in 0 .. L - 1 /\ k % L \in 0 .. L - 1
        BY FlatParts
      <4> QED BY <4>2, <1>0 DEF TypeOK, Rows, Cols
    <3> QED BY <3>1, <1>5 DEF Store
  <2>3. c' \in [Rows -> F]
    <3>1. Offset + L \in Cols
      BY DEF Cols
    <3>2. \A r \in Rows : mat[r][Offset + L] \in F
      BY <1>0, <3>1 DEF TypeOK
    <3> QED BY <1>5, <3>2 DEF Store
  <2> QED BY <1>0, <1>5, <2>2, <2>3 DEF Store, TypeOK, Below
<1>6. CASE BackLoad
  BY <1>0, <1>6, FieldClosed DEF BackLoad, TypeOK, Below, Rows, ZeroBuf
<1>7. CASE Substitute
  <2>1. i \in Rows /\ i - 1 \in Rows
    BY <1>0, <1>7 DEF Substitute, TypeOK, Rows
  <2>2. \A k \in Rows : a[(k * L) + i] \in F
    <3>1. TAKE k \in Rows
    <3>2. (k * L) + i \in 0 .. (L * L) - 1
      BY <2>1, FlatIndex DEF Rows
    <3> QED BY <3>2, <1>0 DEF TypeOK
  <2>3. column' \in [0 .. (L + Unit) - 1 -> F]
    <3>1. \A k \in 0 .. (L + Unit) - 1 : column[k] \in F
      BY <1>0 DEF TypeOK
    <3>2. \A k \in 0 .. (L + Unit) - 1 : k < i \/ k < L => a[(k * L) + i] \in F
      <4>1. TAKE k \in 0 .. (L + Unit) - 1
      <4>2. HAVE k < i \/ k < L
      <4>3. k \in Rows
        BY <2>1, <4>2 DEF Rows
      <4> QED BY <4>3, <2>2
    <3>3. ColumnOf(i) = [k \in 0 .. (L + Unit) - 1 |->
             IF k < i THEN a[(k * L) + i]
             ELSE IF k = i THEN Zero
             ELSE IF transposed THEN IF k < L THEN a[(k * L) + i] ELSE Zero
             ELSE column[k]]
      BY DEF ColumnOf, ZeroBuf
    <3>4. column' = ColumnOf(i)
      BY <1>7 DEF Substitute
    <3> QED BY <3>1, <3>2, <3>3, <3>4, FieldClosed
  <2>4. temp' \in [0 .. (L + Unit) - 1 -> F]
    BY <1>0, <1>7, <2>1, <2>3, FieldClosed DEF Substitute, TypeOK, ZeroBuf, Rows
  <2> QED BY <1>0, <1>7, <2>1, <2>3, <2>4 DEF Substitute, TypeOK, Below
<1>8. CASE BackStore
  BY <1>0, <1>8 DEF BackStore, TypeOK, Below, Rows
<1>9. CASE Return
  BY <1>0, <1>9, FieldClosed DEF Return, TypeOK, Below, Rows, ZeroMat, ZeroBuf
<1>10. CASE UNCHANGED vars
  BY <1>0, <1>10 DEF vars, TypeOK, Below
<1> QED BY <1>1, <1>2, <1>3, <1>4, <1>5, <1>6, <1>7, <1>8, <1>9, <1>10 DEF Next

(* The elimination keeps the echelon form of the columns dealt with. *)
LEMMA EchelonStep ==
  ASSUME IInv, [Next]_vars
  PROVE  Echelon'
<1> USE Sizes
<1>0. TypeOK /\ Below /\ Echelon
  BY DEF IInv
<1>a. /\ perByte \in {1, 2} /\ Width \in Nat /\ Offset \in Nat
      /\ Width = Offset + (L + perByte)
  BY <1>0, Layout DEF TypeOK
<1>b. perByte' = perByte /\ Width' = Width /\ Offset' = Offset /\ Cols' = Cols
  BY Rigid
<1> USE <1>a, <1>b
<1>1. CASE Load
  <2>1. \A r \in Rows, k \in Cols : k < Offset => mat'[r][k] = Zero
    BY <1>1 DEF Load
  <2>2. 0 .. Offset - 1 \subseteq Cols
    BY DEF Cols
  <2>3. Reduced' = {}
    BY <1>1 DEF Load, Reduced
  <2> QED BY <2>1, <2>2, <2>3 DEF Echelon
<1>2. CASE CondAdd
  <2>1. i \in Rows /\ j \in Rows /\ i < j
    BY <1>0, <1>2, StopBound DEF CondAdd, TypeOK, Below, Rows
  <2>2. SUFFICES ASSUME pc = "pivot", r8 = 1, NEW r \in Rows,
                        NEW k \in Cols, NEW v \in {Zero, One},
                        mat[r][k] = v,
                        r = i => mat[i][k] = Zero /\ mat[j][k] = Zero
                 PROVE  mat'[r][k] = v
    <3>1. ASSUME pc = "pivot", r8 = 1 PROVE Reduced' = 0 .. i - 1 /\ Reduced = 0 .. i - 1
      BY <1>2, <3>1 DEF CondAdd, Reduced
    <3>2. \A p \in 0 .. i - 1 : p \in Rows /\ Idx(p) \in Cols
      BY <2>1, StartsBefore DEF Rows
    <3>3. 0 .. Offset - 1 \subseteq Cols
      BY DEF Cols
    <3>4. \A p \in 0 .. i - 1 : p < i /\ p < j /\ p # i
      BY <2>1 DEF Rows
    <3> QED BY <1>0, <1>2, <2>1, <2>2, <3>1, <3>2, <3>3, <3>4 DEF CondAdd, Echelon, Idx
  <2>3. CASE r = i /\ Repairs
    <3>1. mat'[r] = AddRow(mat[i], mat[j], IStart(i))
      BY <1>0, <1>2, <2>3 DEF CondAdd, TypeOK
    <3>2. Plus(Zero, Zero) = Zero
      BY FieldClosed, FieldLaws
    <3> QED BY <2>2, <2>3, <3>1, <3>2 DEF AddRow
  <2>4. CASE ~ (r = i /\ Repairs)
    BY <1>0, <1>2, <2>2, <2>4 DEF CondAdd, TypeOK
  <2> QED BY <2>3, <2>4
<1>3. CASE Reduce
  <2> DEFINE pivot == mat[i][Idx(i)]
             prow == ScaleRow(mat[i], Normaliser(pivot), IStart(i))
             madd(r) == MaddRow(mat[r], prow, mat[r][Idx(i)], IStart(i))
  <2>1. i \in Rows /\ Idx(i) \in Cols /\ IStart(i) \in Nat /\ IStart(i) <= Idx(i)
    BY <1>0, StartsBefore DEF TypeOK
  <2>2. pivot \in F /\ Normaliser(pivot) \in F
    BY <1>0, <2>1, FieldClosed DEF TypeOK, Normaliser
  <2>3. SUFFICES ASSUME r8' = 1, NEW r \in Rows
                 PROVE  /\ \A k \in 0 .. Offset - 1 : mat'[r][k] = Zero
                        /\ \A p \in 0 .. i : p = r => mat'[r][Idx(p)] = One
                        /\ \A p \in 0 .. i : p < r => mat'[r][Idx(p)] = Zero
    <3>1. Reduced' = 0 .. i
      BY <1>3, <2>1 DEF Reduce, Reduced, Rows
    <3> QED BY <2>3, <3>1 DEF Echelon, Idx
  <2>4. r8 = 1 /\ pivot # Zero /\ pc = "pivot" /\ Reduced = 0 .. i - 1
    BY <1>3, <2>3 DEF Reduce, Flag, Reduced
  <2>5. \A q \in Rows :
          /\ \A k \in 0 .. Offset - 1 : mat[q][k] = Zero
          /\ \A p \in 0 .. i - 1 : p = q => mat[q][Idx(p)] = One
          /\ \A p \in 0 .. i - 1 : p < q => mat[q][Idx(p)] = Zero
    BY <1>0, <2>4 DEF Echelon
  <2>6. 0 .. Offset - 1 \subseteq Cols /\ \A p \in 0 .. i : p \in Rows /\ Idx(p) \in Cols
    BY <2>1, StartsBefore DEF Cols, Rows
  <2>7. \A k \in Cols : mat[i][k] = Zero => prow[k] = Zero
    BY <2>2, FieldLaws DEF ScaleRow
  <2>8. prow[Idx(i)] = One
    BY <2>1, <2>2, <2>4, FieldLaws DEF ScaleRow, Normaliser
  <2> HIDE DEF prow
  <2>9. CASE r < i
    <3>1. mat'[r] = mat[r]
      BY <1>3, <2>9 DEF Reduce
    <3>2. \A p \in 0 .. i : p <= r => p \in 0 .. i - 1
      BY <2>1, <2>9 DEF Rows
    <3> QED BY <2>5, <3>1, <3>2, <2>1 DEF Rows
  <2>10. CASE r = i
    <3>1. mat'[r] = prow
      BY <1>3, <2>1, <2>10 DEF Reduce, prow, Rows
    <3>2. \A p \in 0 .. i - 1 : p < i
      BY <2>1 DEF Rows
    <3>3. \A p \in 0 .. i : p < i => p \in 0 .. i - 1
      BY <2>1 DEF Rows
    <3> QED BY <2>5, <2>6, <2>7, <2>8, <2>10, <3>1, <3>2, <3>3
  <2>11. CASE i < r
    <3>1. mat'[r] = madd(r)
      BY <1>3, <2>1, <2>11 DEF Reduce, prow, Rows
    <3>2. mat[r] \in [Cols -> F] /\ mat[r][Idx(i)] \in F
      BY <1>0, <2>1 DEF TypeOK
    <3>3. \A k \in Cols : mat[r][k] = Zero /\ mat[i][k] = Zero => madd(r)[k] = Zero
      <4>1. Times(Zero, mat[r][Idx(i)]) = Zero /\ Plus(Zero, Zero) = Zero
        BY <3>2, FieldClosed, FieldLaws
      <4> QED BY <4>1, <2>7 DEF MaddRow
    <3>4. madd(r)[Idx(i)] = Zero
      <4>1. Times(One, mat[r][Idx(i)]) = mat[r][Idx(i)]
        BY <3>2, FieldLaws
      <4>2. Plus(mat[r][Idx(i)], mat[r][Idx(i)]) = Zero
        BY <3>2, FieldLaws
      <4> QED BY <4>1, <4>2, <2>1, <2>8 DEF MaddRow
    <3>5. \A p \in 0 .. i : p # r /\ (p = i \/ (p \in 0 .. i - 1 /\ p < i /\ p < r))
      BY <2>1, <2>11 DEF Rows
    <3> HIDE DEF madd
    <3> QED BY <2>1, <2>5, <2>6, <3>1, <3>3, <3>4, <3>5
  <2> QED BY <2>1, <2>9, <2>10, <2>11 DEF Rows
<1>4. CASE UNCHANGED vars
  BY <1>0, <1>4 DEF vars, Echelon, Reduced, Idx
<1>5. CASE Call \/ Store \/ BackLoad \/ Substitute \/ BackStore \/ Return
  BY <1>5 DEF Call, Store, BackLoad, Substitute, BackStore, Return, Echelon
<1> QED BY <1>1, <1>2, <1>3, <1>4, <1>5 DEF Next

(* The echelon form reaches back_substitute through the caller's buffer. *)
LEMMA StoredStep ==
  ASSUME IInv, [Next]_vars
  PROVE  Stored'
<1> USE Sizes
<1>0. TypeOK /\ Echelon /\ Stored
  BY DEF IInv
<1>a. /\ perByte \in {1, 2} /\ Width \in Nat /\ Offset \in Nat
      /\ Width = Offset + (L + perByte)
  BY <1>0, Layout DEF TypeOK
<1>b. perByte' = perByte /\ Width' = Width /\ Offset' = Offset /\ Cols' = Cols
  BY Rigid
<1> USE <1>a, <1>b
<1>1. CASE Store
  <2>1. SUFFICES ASSUME pc' = "back", NEW r \in Rows, NEW n \in Rows, n < r
                 PROVE  a'[(r * L) + n] = Zero
    BY <1>1 DEF Store, Stored
  <2>2. pc = "store" /\ r8 = 1
    BY <1>1, <2>1 DEF Store
  <2>3. /\ (r * L) + n \in 0 .. (L * L) - 1
        /\ ((r * L) + n) \div L = r /\ ((r * L) + n) % L = n
    BY <2>1, FlatIndex DEF Rows
  <2>4. a'[(r * L) + n] = mat[r][Idx(n)]
    BY <1>1, <2>3 DEF Store, Idx
  <2>5. mat[r][Idx(n)] = Zero
    BY <1>0, <2>1, <2>2 DEF Echelon, Reduced
  <2> QED BY <2>4, <2>5
<1>2. CASE Call \/ Load \/ CondAdd \/ Reduce
  BY <1>2 DEF Call, Load, CondAdd, Reduce, Stored
<1>3. CASE BackLoad \/ Substitute \/ UNCHANGED vars
  BY <1>0, <1>3 DEF BackLoad, Substitute, vars, Stored
<1>4. CASE BackStore \/ Return
  BY <1>4 DEF BackStore, Return, Stored
<1> QED BY <1>1, <1>2, <1>3, <1>4 DEF Next

(* Substituting column i leaves zeros from i on for the next addition. *)
LEMMA OnlyAddsZerosStep ==
  ASSUME IInv, [Next]_vars
  PROVE  OnlyAddsZeros'
<1> USE Sizes
<1>0. TypeOK /\ Stored /\ OnlyAddsZeros
  BY DEF IInv
<1>a. /\ perByte \in {1, 2} /\ Width \in Nat /\ Offset \in Nat
      /\ Width = Offset + (L + perByte)
  BY <1>0, Layout DEF TypeOK
<1>b. perByte' = perByte /\ Width' = Width /\ Offset' = Offset /\ Cols' = Cols
  BY Rigid
<1> USE <1>a, <1>b
<1>1. CASE BackLoad
  BY <1>1 DEF BackLoad, OnlyAddsZeros, ZeroBuf
<1>2. CASE Substitute
  <2>1. i \in Rows /\ i > 0 /\ i' = i - 1 /\ pc = "substitute"
    BY <1>0, <1>2 DEF Substitute, TypeOK
  <2>2. \A k \in DOMAIN ZeroBuf : k > i' => column'[k] = Zero
    <3>1. SUFFICES ASSUME NEW k \in DOMAIN ZeroBuf, k > i'
                   PROVE  column'[k] = Zero
      OBVIOUS
    <3>2. k \in Int /\ (k = i \/ i < k)
      BY <2>1, <3>1 DEF ZeroBuf, Rows
    <3>3. column' = ColumnOf(i)
      BY <1>2 DEF Substitute
    <3>4. CASE k = i
      BY <2>1, <3>3, <3>4 DEF ColumnOf, Rows
    <3>5. CASE i < k
      <4>1. column[k] = Zero
        BY <1>0, <2>1, <3>5 DEF OnlyAddsZeros
      <4>2. k < L => a[(k * L) + i] = Zero
        <5>1. k < L => k \in Rows
          BY <3>2, <3>5, <2>1 DEF Rows
        <5> QED BY <1>0, <2>1, <3>5, <5>1 DEF Stored
      <4>3. ~ (k < i) /\ k # i
        BY <2>1, <3>2, <3>5 DEF Rows
      <4>4. column'[k] = IF transposed THEN IF k < L THEN a[(k * L) + i] ELSE Zero
                         ELSE column[k]
        BY <3>1, <3>3, <4>3 DEF ColumnOf
      <4> QED BY <4>1, <4>2, <4>4
    <3> QED BY <3>2, <3>4, <3>5
  <2>3. \A k \in DOMAIN ZeroBuf : k >= L => temp'[k] = Zero
    <3>1. SUFFICES ASSUME NEW k \in DOMAIN ZeroBuf, k >= L
                   PROVE  temp'[k] = Zero
      OBVIOUS
    <3>2. k > i'
      BY <2>1, <3>1 DEF ZeroBuf, Rows
    <3>3. column'[k] = Zero /\ temp[k] = Zero
      BY <1>0, <2>1, <2>2, <3>1, <3>2 DEF OnlyAddsZeros
    <3>4. temp[i] \in F
      BY <1>0, <2>1 DEF TypeOK, Rows
    <3>5. Plus(temp[k], Times(column'[k], temp[i])) = Zero
      BY <3>3, <3>4, FieldClosed, FieldLaws
    <3> QED BY <1>2, <3>1, <3>3, <3>5 DEF Substitute
  <2> QED BY <2>2, <2>3 DEF OnlyAddsZeros
<1>3. CASE Call \/ Load \/ CondAdd \/ Reduce \/ Store
  BY <1>3 DEF Call, Load, CondAdd, Reduce, Store, OnlyAddsZeros
<1>4. CASE BackStore \/ Return
  BY <1>4 DEF BackStore, Return, OnlyAddsZeros
<1>5. CASE UNCHANGED vars
  BY <1>0, <1>5 DEF vars, OnlyAddsZeros, ZeroBuf
<1> QED BY <1>1, <1>2, <1>3, <1>4, <1>5 DEF Next

-----------------------------------------------------------------------------
THEOREM Invariant == Spec => []IInv
<1>1. Init => IInv
  BY InitInvariant
<1>2. IInv /\ [Next]_vars => IInv'
  BY TypeStep, EchelonStep, StoredStep, OnlyAddsZerosStep DEF IInv
<1> QED BY <1>1, <1>2, PTL DEF Spec

(* The loops of both functions stay inside their buffers, which hold field *)
(* elements, whatever the size and the padding (TypeOK, blas_matrix_ref.c).*)
THEOREM TypeCorrect == Spec => []TypeOK
<1>1. IInv => TypeOK
  BY DEF IInv
<1> QED BY <1>1, Invariant, PTL

(* gauss_elim_row_echolen returns 1 only for an upper triangular matrix    *)
(* with ones on the diagonal: row operations from i_start on, left of the  *)
(* pivot, and repaired pivots never disturb the columns dealt with.        *)
THEOREM EliminationEchelon == Spec => []Echelon
<1>1. IInv => Echelon
  BY DEF IInv
<1> QED BY <1>1, Invariant, PTL

(* "rounding the length up to the blas unit only adds zeros"               *)
(* (back_substitute_ref), with the column built afresh and transposed.     *)
THEOREM PaddingHarmless == Spec => []OnlyAddsZeros
<1>1. IInv => OnlyAddsZeros
  BY DEF IInv
<1> QED BY <1>1, Invariant, PTL
-----------------------------------------------------------------------------
(* Sums of products.  Dot is defined by a recursive function: there is     *)
(* one, by induction on the set of bounds, and it is the one that grows by *)
(* a product at a time.                                                    *)
IsSum(f, u, x) ==
  /\ f \in [0 .. L -> F]
  /\ f[0] = Zero
  /\ \A k \in Rows : f[k + 1] = Plus(f[k], Times(u[k], x[k]))

LEMMA SumExists ==
  ASSUME NEW u \in Vector, NEW x \in Vector
  PROVE  \E f : IsSum(f, u, x)
<1> DEFINE Good(n, f) ==
             /\ f \in [0 .. n -> F]
             /\ f[0] = Zero
             /\ \A k \in 0 .. n - 1 : f[k + 1] = Plus(f[k], Times(u[k], x[k]))
           S == { n \in Nat : \E f \in [0 .. n -> F] : Good(n, f) }
<1>1. 0 \in S
  <2>1. Good(0, [k \in 0 .. 0 |-> Zero])
    BY FieldClosed
  <2> QED BY <2>1
<1>2. \A n \in 0 .. L - 1 : n \in S => n + 1 \in S
  <2>1. SUFFICES ASSUME NEW n \in 0 .. L - 1, n \in S PROVE n + 1 \in S
    OBVIOUS
  <2>2. PICK f \in [0 .. n -> F] : Good(n, f)
    BY <2>1
  <2> DEFINE v == Plus(f[n], Times(u[n], x[n]))
             g == [k \in 0 .. n + 1 |-> IF k <= n THEN f[k] ELSE v]
  <2>3. n \in Nat /\ n \in Rows
    BY DEF Rows
  <2>4. v \in F
    BY <2>2, <2>3, FieldClosed DEF Vector
  <2> HIDE DEF v
  <2>5. g \in [0 .. n + 1 -> F] /\ g[0] = Zero
    BY <2>2, <2>3, <2>4
  <2>6. \A k \in 0 .. (n + 1) - 1 : g[k + 1] = Plus(g[k], Times(u[k], x[k]))
    <3>1. TAKE k \in 0 .. (n + 1) - 1
    <3>2. CASE k = n
      BY <2>3, <3>2 DEF v
    <3>3. CASE k # n
      <4>1. k \in 0 .. n - 1 /\ k <= n /\ k + 1 <= n /\ k \in 0 .. n + 1 /\ k + 1 \in 0 .. n + 1
        BY <2>3, <3>3
      <4> QED BY <2>2, <4>1
    <3> QED BY <3>2, <3>3
  <2> HIDE DEF g
  <2>7. Good(n + 1, g)
    BY <2>5, <2>6
  <2> QED BY <2>3, <2>5, <2>7
<1>3. L \in S
  <2> HIDE DEF S
  <2>1. \A n \in 0 .. L : n \in S
    BY <1>1, <1>2, SizeAssumption, InductionUpTo
  <2> QED BY <2>1, SizeAssumption
<1> QED BY <1>3 DEF IsSum, Rows

LEMMA DotSum ==
  ASSUME NEW u \in Vector, NEW x \in Vector
  PROVE  \E f : IsSum(f, u, x) /\ Dot(u, x) = f[L]
<1> DEFINE Rec(f) == [k \in 0 .. L |-> IF k = 0 THEN Zero ELSE Plus(f[k - 1], Times(u[k - 1], x[k - 1]))]
           sum == CHOOSE f : f = Rec(f)
<1>1. PICK f : IsSum(f, u, x)
  BY SumExists
<1>2. f = Rec(f)
  <2>1. f \in [0 .. L -> F]
    BY <1>1 DEF IsSum
  <2>2. ASSUME NEW k \in 0 .. L PROVE f[k] = Rec(f)[k]
    <3>1. CASE k = 0
      BY <1>1, <3>1 DEF IsSum
    <3>2. CASE k # 0
      <4>1. k - 1 \in Rows /\ (k - 1) + 1 = k
        BY <3>2, SizeAssumption DEF Rows
      <4> QED BY <1>1, <3>2, <4>1 DEF IsSum
    <3> QED BY <3>1, <3>2
  <2> QED BY <2>1, <2>2
<1>3. sum = Rec(sum)
  <2> HIDE DEF Rec
  <2> QED BY <1>2
<1>4. Dot(u, x) = sum[L]
  BY DEF Dot
<1> HIDE DEF sum
<1>5. sum = f
  <2> DEFINE S == { k \in 0 .. L : sum[k] = f[k] }
  <2>1. 0 \in S
    BY <1>1, <1>3, SizeAssumption DEF IsSum
  <2>2. \A n \in 0 .. L - 1 : n \in S => n + 1 \in S
    <3>1. SUFFICES ASSUME NEW n \in 0 .. L - 1, n \in S PROVE n + 1 \in S
      OBVIOUS
    <3>2. n \in Rows /\ n + 1 \in 0 .. L /\ n + 1 # 0 /\ (n + 1) - 1 = n
      BY SizeAssumption DEF Rows
    <3>3. sum[n + 1] = Plus(sum[n], Times(u[n], x[n]))
      BY <1>3, <3>2
    <3> QED BY <1>1, <3>1, <3>2, <3>3 DEF IsSum
  <2>3. \A n \in 0 .. L : n \in S
    <3> HIDE DEF S
    <3> QED BY <2>1, <2>2, SizeAssumption, InductionUpTo
  <2>4. sum = [k \in 0 .. L |-> sum[k]]
    BY <1>3
  <2> QED BY <1>1, <2>3, <2>4 DEF IsSum
<1> QED BY <1>1, <1>4, <1>5

LEMMA DotInF == ASSUME NEW u \in Vector, NEW x \in Vector PROVE Dot(u, x) \in F
<1>1. PICK f : IsSum(f, u, x) /\ Dot(u, x) = f[L]
  BY DotSum
<1> QED BY <1>1, SizeAssumption DEF IsSum

LEMMA Distribute ==
  ASSUME NEW p \in F, NEW q \in F, NEW s \in F
  PROVE  Times(Plus(p, q), s) = Plus(Times(p, s), Times(q, s))
  BY FieldRing

LEMMA Closed ==
  ASSUME NEW p \in F, NEW q \in F
  PROVE  Plus(p, q) \in F /\ Times(p, q) \in F
  BY FieldClosed

LEMMA Interchange ==
  ASSUME NEW p \in F, NEW q \in F, NEW s \in F, NEW t \in F
  PROVE  Plus(Plus(p, q), Plus(s, t)) = Plus(Plus(p, s), Plus(q, t))
<1>1. Plus(Plus(p, q), Plus(s, t)) = Plus(p, Plus(q, Plus(s, t)))
  BY FieldClosed, FieldRing
<1>2. Plus(q, Plus(s, t)) = Plus(s, Plus(q, t))
  <2>1. Plus(q, Plus(s, t)) = Plus(Plus(q, s), t)
    BY FieldRing
  <2>2. Plus(q, s) = Plus(s, q)
    BY FieldRing
  <2>3. Plus(Plus(s, q), t) = Plus(s, Plus(q, t))
    BY FieldRing
  <2> QED BY <2>1, <2>2, <2>3
<1>3. Plus(p, Plus(s, Plus(q, t))) = Plus(Plus(p, s), Plus(q, t))
  BY FieldClosed, FieldRing
<1> QED BY <1>1, <1>2, <1>3

(* The sums of products are linear in the row, symmetric, ... *)
LEMMA DotPlus ==
  ASSUME NEW u \in Vector, NEW v \in Vector, NEW x \in Vector
  PROVE  Dot([k \in Rows |-> Plus(u[k], v[k])], x) = Plus(Dot(u, x), Dot(v, x))
<1> DEFINE w == [k \in Rows |-> Plus(u[k], v[k])]
<1>1. w \in Vector
  BY FieldClosed DEF Vector
<1>2. PICK f : IsSum(f, u, x) /\ Dot(u, x) = f[L]
  BY DotSum
<1>3. PICK g : IsSum(g, v, x) /\ Dot(v, x) = g[L]
  BY DotSum
<1>4. PICK h : IsSum(h, w, x) /\ Dot(w, x) = h[L]
  BY <1>1, DotSum
<1> DEFINE S == { n \in 0 .. L : h[n] = Plus(f[n], g[n]) }
<1>5. 0 \in S
  BY <1>2, <1>3, <1>4, SizeAssumption, FieldClosed, FieldLaws DEF IsSum
<1>6. \A n \in 0 .. L - 1 : n \in S => n + 1 \in S
  <2>1. SUFFICES ASSUME NEW n \in 0 .. L - 1, n \in S PROVE n + 1 \in S
    OBVIOUS
  <2>2. n \in Rows /\ n \in 0 .. L /\ n + 1 \in 0 .. L
    BY SizeAssumption DEF Rows
  <2>3. f[n] \in F /\ g[n] \in F /\ u[n] \in F /\ v[n] \in F /\ x[n] \in F
    BY <1>2, <1>3, <2>2 DEF IsSum, Vector
  <2>4. h[n + 1] = Plus(Plus(f[n], g[n]), Times(Plus(u[n], v[n]), x[n]))
    BY <1>4, <2>1, <2>2 DEF IsSum
  <2>5. Times(Plus(u[n], v[n]), x[n]) = Plus(Times(u[n], x[n]), Times(v[n], x[n]))
    BY <2>3, FieldRing
  <2>6. h[n + 1] = Plus(Plus(f[n], Times(u[n], x[n])), Plus(g[n], Times(v[n], x[n])))
    <3> DEFINE p == Times(u[n], x[n])
               q == Times(v[n], x[n])
    <3>1. p \in F /\ q \in F
      BY <2>3, Closed
    <3>2. h[n + 1] = Plus(Plus(f[n], g[n]), Plus(p, q))
      BY <2>4, <2>5
    <3> HIDE DEF p, q
    <3>3. h[n + 1] = Plus(Plus(f[n], p), Plus(g[n], q))
      BY <2>3, <3>1, <3>2, Interchange
    <3> QED BY <3>3 DEF p, q
  <2>7. f[n + 1] = Plus(f[n], Times(u[n], x[n])) /\ g[n + 1] = Plus(g[n], Times(v[n], x[n]))
    BY <1>2, <1>3, <2>2 DEF IsSum
  <2> QED BY <2>2, <2>6, <2>7
<1>7. L \in S
  <2> HIDE DEF S
  <2> QED BY <1>5, <1>6, SizeAssumption, InductionUpTo
<1> QED BY <1>2, <1>3, <1>4, <1>7

LEMMA DotTimes ==
  ASSUME NEW u \in Vector, NEW s \in F, NEW x \in Vector
  PROVE  Dot([k \in Rows |-> Times(u[k], s)], x) = Times(Dot(u, x), s)
<1> DEFINE w == [k \in Rows |-> Times(u[k], s)]
<1>1. w \in Vector
  BY FieldClosed DEF Vector
<1>2. PICK f : IsSum(f, u, x) /\ Dot(u, x) = f[L]
  BY DotSum
<1>3. PICK h : IsSum(h, w, x) /\ Dot(w, x) = h[L]
  BY <1>1, DotSum
<1> DEFINE S == { n \in 0 .. L : h[n] = Times(f[n], s) }
<1>4. 0 \in S
  BY <1>2, <1>3, SizeAssumption, FieldClosed, FieldLaws DEF IsSum
<1>5. \A n \in 0 .. L - 1 : n \in S => n + 1 \in S
  <2>1. SUFFICES ASSUME NEW n \in 0 .. L - 1, n \in S PROVE n + 1 \in S
    OBVIOUS
  <2>2. n \in Rows /\ n \in 0 .. L /\ n + 1 \in 0 .. L
    BY SizeAssumption DEF Rows
  <2>3. f[n] \in F /\ u[n] \in F /\ x[n] \in F
    BY <1>2, <2>2 DEF IsSum, Vector
  <2>4. h[n + 1] = Plus(Times(f[n], s), Times(Times(u[n], s), x[n]))
    BY <1>3, <2>1, <2>2 DEF IsSum
  <2>5. Times(Times(u[n], s), x[n]) = Times(Times(u[n], x[n]), s)
    <3>1. Times(Times(u[n], s), x[n]) = Times(u[n], Times(s, x[n]))
      BY <2>3, FieldRing
    <3>2. Times(s, x[n]) = Times(x[n], s)
      BY <2>3, FieldRing
    <3>3. Times(u[n], Times(x[n], s)) = Times(Times(u[n], x[n]), s)
      BY <2>3, FieldRing
    <3> QED BY <3>1, <3>2, <3>3
  <2>6. Times(Plus(f[n], Times(u[n], x[n])), s) = Plus(Times(f[n], s), Times(Times(u[n], x[n]), s))
    <3>1. Times(u[n], x[n]) \in F
      BY <2>3, Closed
    <3> QED BY <2>3, <3>1, Distribute
  <2>7. f[n + 1] = Plus(f[n], Times(u[n], x[n]))
    BY <1>2, <2>2 DEF IsSum
  <2> QED BY <2>2, <2>4, <2>5, <2>6, <2>7
<1>6. L \in S
  <2> HIDE DEF S
  <2> QED BY <1>4, <1>5, SizeAssumption, InductionUpTo
<1> QED BY <1>2, <1>3, <1>6

LEMMA DotSymmetric ==
  ASSUME NEW u \in Vector, NEW x \in Vector
  PROVE  Dot(u, x) = Dot(x, u)
<1>1. PICK f : IsSum(f, u, x) /\ Dot(u, x) = f[L]
  BY DotSum
<1>2. PICK g : IsSum(g, x, u) /\ Dot(x, u) = g[L]
  BY DotSum
<1> DEFINE S == { n \in 0 .. L : f[n] = g[n] }
<1>3. 0 \in S
  BY <1>1, <1>2, SizeAssumption DEF IsSum
<1>4. \A n \in 0 .. L - 1 : n \in S => n + 1 \in S
  <2>1. SUFFICES ASSUME NEW n \in 0 .. L - 1, n \in S PROVE n + 1 \in S
    OBVIOUS
  <2>2. n \in Rows /\ n + 1 \in 0 .. L
    BY SizeAssumption DEF Rows
  <2>3. Times(u[n], x[n]) = Times(x[n], u[n])
    BY <2>2, FieldRing DEF Vector
  <2> QED BY <1>1, <1>2, <2>1, <2>2, <2>3 DEF IsSum
<1>5. L \in S
  <2> HIDE DEF S
  <2> QED BY <1>3, <1>4, SizeAssumption, InductionUpTo
<1> QED BY <1>1, <1>2, <1>5

(* ... and know where at most one product is not zero. *)
LEMMA DotOne ==
  ASSUME NEW u \in Vector, NEW x \in Vector, NEW r \in Rows,
         \A k \in Rows \ {r} : Times(u[k], x[k]) = Zero
  PROVE  Dot(u, x) = Times(u[r], x[r])
<1>0. \A k \in Rows \ {r} : Times(u[k], x[k]) = Zero
  OBVIOUS
<1>1. PICK f : IsSum(f, u, x) /\ Dot(u, x) = f[L]
  BY DotSum
<1> DEFINE S == { n \in 0 .. L : f[n] = IF n <= r THEN Zero ELSE Times(u[r], x[r]) }
<1>2. 0 \in S
  BY <1>1, SizeAssumption DEF IsSum, Rows
<1>3. \A n \in 0 .. L - 1 : n \in S => n + 1 \in S
  <2>1. SUFFICES ASSUME NEW n \in 0 .. L - 1, n \in S PROVE n + 1 \in S
    OBVIOUS
  <2>2. n \in Rows /\ n \in Int /\ n + 1 \in 0 .. L
    BY SizeAssumption DEF Rows
  <2>3. Times(u[r], x[r]) \in F
    BY FieldClosed DEF Vector
  <2>4. f[n + 1] = Plus(f[n], Times(u[n], x[n]))
    BY <1>1, <2>2 DEF IsSum
  <2>5. CASE n = r
    <3>1. f[n] = Zero
      BY <2>1, <2>2, <2>5
    <3>2. f[n + 1] = Times(u[r], x[r])
      BY <2>3, <2>4, <2>5, <3>1, FieldLaws
    <3>3. ~ (n + 1 <= r)
      BY <2>2, <2>5
    <3> QED BY <2>2, <3>2, <3>3
  <2>6. CASE n # r
    <3>1. f[n + 1] = f[n]
      <4>1. Times(u[n], x[n]) = Zero /\ f[n] \in F
        <5>1. n \in Rows \ {r} /\ n \in 0 .. L
          BY <2>2, <2>6, SizeAssumption DEF Rows
        <5>2. Times(u[n], x[n]) = Zero
          <6> HIDE DEF S
          <6> QED BY <1>0, <5>1, Zenon
        <5>3. f[n] \in F
          BY <1>1, <5>1 DEF IsSum
        <5> QED BY <5>2, <5>3
      <4> QED BY <2>4, <4>1, FieldLaws
    <3>2. n <= r <=> n + 1 <= r
      BY <2>2, <2>6 DEF Rows
    <3> QED BY <2>1, <2>2, <3>1, <3>2
  <2> QED BY <2>5, <2>6
<1>4. L \in S
  <2> HIDE DEF S
  <2> QED BY <1>2, <1>3, SizeAssumption, InductionUpTo
<1>5. ~ (L <= r)
  BY SizeAssumption DEF Rows
<1> QED BY <1>1, <1>4, <1>5

-----------------------------------------------------------------------------
(* Systems of L equations: the rows A, the constants b. *)
Matrix == [Rows -> Vector]

PlusRow(u, v, s) == [k \in Rows |-> Plus(u[k], Times(v[k], s))]

LEMMA PlusRowClosed ==
  ASSUME NEW u \in Vector, NEW v \in Vector, NEW s \in F
  PROVE  PlusRow(u, v, s) \in Vector
  BY FieldClosed DEF PlusRow, Vector

LEMMA DotPlusRow ==
  ASSUME NEW u \in Vector, NEW v \in Vector, NEW s \in F, NEW x \in Vector
  PROVE  Dot(PlusRow(u, v, s), x) = Plus(Dot(u, x), Times(Dot(v, x), s))
<1> DEFINE w == [k \in Rows |-> Times(v[k], s)]
<1>1. w \in Vector
  BY FieldClosed DEF Vector
<1>2. PlusRow(u, v, s) = [k \in Rows |-> Plus(u[k], w[k])]
  BY DEF PlusRow
<1> HIDE DEF w
<1>3. Dot(PlusRow(u, v, s), x) = Plus(Dot(u, x), Dot(w, x))
  BY <1>1, <1>2, DotPlus
<1> QED BY <1>3, DotTimes DEF w

(* Adding twice is not adding. *)
LEMMA PlusCancels ==
  ASSUME NEW p \in F, NEW q \in F, NEW s \in F
  PROVE  Plus(p, s) = Plus(q, s) <=> p = q
<1>1. ASSUME NEW t \in F PROVE Plus(Plus(t, s), s) = t
  <2>1. Plus(Plus(t, s), s) = Plus(t, Plus(s, s))
    BY FieldRing
  <2> QED BY <2>1, FieldLaws
<1> QED BY <1>1

(* Multiples of row i added to other rows. *)
LEMMA AddMultiples ==
  ASSUME NEW A \in Matrix, NEW b \in Vector, NEW i0 \in Rows, NEW t \in Vector,
         NEW A2 \in Matrix, NEW b2 \in Vector,
         A2[i0] = A[i0] /\ b2[i0] = b[i0],
         \A r \in Rows \ {i0} : A2[r] = PlusRow(A[r], A[i0], t[r]) /\ b2[r] = Plus(b[r], Times(b[i0], t[r]))
  PROVE  Sol(A2, b2) = Sol(A, b)
<1>1. ASSUME NEW x \in Vector, Dot(A[i0], x) = b[i0], NEW r \in Rows \ {i0}
      PROVE  Dot(A2[r], x) = b2[r] <=> Dot(A[r], x) = b[r]
  <2>1. A[r] \in Vector /\ A[i0] \in Vector /\ t[r] \in F /\ b[r] \in F /\ b[i0] \in F
    BY DEF Matrix, Vector
  <2>2. A2[r] = PlusRow(A[r], A[i0], t[r]) /\ b2[r] = Plus(b[r], Times(b[i0], t[r]))
    BY <1>1
  <2>3. Dot(A2[r], x) = Plus(Dot(A[r], x), Times(b[i0], t[r]))
    BY <1>1, <2>1, <2>2, DotPlusRow
  <2>4. Dot(A[r], x) \in F /\ Times(b[i0], t[r]) \in F
    BY <1>1, <2>1, DotInF, Closed
  <2> QED BY <2>1, <2>2, <2>3, <2>4, PlusCancels
<1>2. ASSUME NEW x \in Vector
      PROVE  (\A r \in Rows : Dot(A2[r], x) = b2[r]) <=> (\A r \in Rows : Dot(A[r], x) = b[r])
  <2>1. CASE Dot(A[i0], x) = b[i0]
    BY <1>1, <2>1
  <2>2. CASE Dot(A[i0], x) # b[i0]
    BY <2>2
  <2> QED BY <2>1, <2>2
<1> QED BY <1>2 DEF Sol

(* One row scaled by what is not zero. *)
LEMMA ScaleOne ==
  ASSUME NEW A \in Matrix, NEW b \in Vector, NEW i0 \in Rows, NEW p \in F \ {Zero},
         NEW A2 \in Matrix, NEW b2 \in Vector,
         A2[i0] = [k \in Rows |-> Times(A[i0][k], Inv(p))] /\ b2[i0] = Times(b[i0], Inv(p)),
         \A r \in Rows \ {i0} : A2[r] = A[r] /\ b2[r] = b[r]
  PROVE  Sol(A2, b2) = Sol(A, b)
<1> DEFINE s == Inv(p)
<1>0. s \in F
  BY FieldClosed
<1>1. ASSUME NEW v \in F, NEW w \in F, Times(v, s) = Times(w, s) PROVE v = w
  <2>1. ASSUME NEW y \in F PROVE Times(Times(y, s), p) = y
    <3>1. Times(Times(y, s), p) = Times(y, Times(s, p))
      BY <1>0, FieldRing
    <3>2. Times(s, p) = One
      BY <1>0, FieldRing, FieldLaws
    <3> QED BY <3>1, <3>2, FieldLaws
  <2> QED BY <1>1, <2>1
<1>2. ASSUME NEW x \in Vector PROVE Dot(A2[i0], x) = b2[i0] <=> Dot(A[i0], x) = b[i0]
  <2>1. A[i0] \in Vector /\ b[i0] \in F
    BY DEF Matrix, Vector
  <2>2. Dot(A2[i0], x) = Times(Dot(A[i0], x), s)
    BY <1>0, <2>1, DotTimes
  <2>3. Dot(A[i0], x) \in F
    BY <2>1, DotInF
  <2> HIDE DEF s
  <2>4. b2[i0] = Times(b[i0], s)
    BY DEF s
  <2> QED BY <1>1, <2>1, <2>2, <2>3, <2>4
<1>3. ASSUME NEW x \in Vector
      PROVE  (\A r \in Rows : Dot(A2[r], x) = b2[r]) <=> (\A r \in Rows : Dot(A[r], x) = b[r])
  BY <1>2
<1> QED BY <1>3 DEF Sol

(* The only solution of the unit matrix. *)
LEMMA UnitSolution ==
  ASSUME NEW A \in Matrix, NEW b \in Vector,
         \A r, k \in Rows : A[r][k] = IF r = k THEN One ELSE Zero
  PROVE  Sol(A, b) = {b}
<1>1. ASSUME NEW x \in Vector, NEW r \in Rows PROVE Dot(A[r], x) = x[r]
  <2>1. A[r] \in Vector /\ x[r] \in F
    BY DEF Matrix, Vector
  <2>2. \A k \in Rows \ {r} : Times(A[r][k], x[k]) = Zero
    BY FieldLaws DEF Vector
  <2>3. Dot(A[r], x) = Times(A[r][r], x[r])
    BY <2>1, <2>2, DotOne
  <2> QED BY <2>1, <2>3, FieldLaws
<1>2. ASSUME NEW x \in Vector PROVE x \in Sol(A, b) <=> x = b
  <2>1. x \in Sol(A, b) <=> \A r \in Rows : x[r] = b[r]
    BY <1>1 DEF Sol
  <2> QED BY <2>1 DEF Vector
<1> QED BY <1>2 DEF Sol

-----------------------------------------------------------------------------
NoConstants == [r \in Rows |-> Zero]

(* Ones on the diagonal of the first p rows with zeros in front of them,   *)
(* and the other rows zero up to column p: there is a solution other than  *)
(* zero, built from x[p] = 1 upwards.                                      *)
LEMMA KernelOf ==
  ASSUME NEW A \in Matrix, NEW p \in Rows,
         \A r, k \in Rows : k < r /\ k < p => A[r][k] = Zero,
         \A r \in Rows : r < p => A[r][r] = One,
         \A r \in Rows : r >= p => A[r][p] = Zero
  PROVE  \E x \in Vector : x # NoConstants /\ x \in Sol(A, NoConstants)
<1> DEFINE Good(n, x) ==
             /\ x[p] = One
             /\ \A k \in Rows : k > p \/ k < p - n => x[k] = Zero
             /\ \A r \in Rows : r >= p - n => Dot(A[r], x) = Zero
           S == { n \in Nat : n <= p => \E x \in Vector : Good(n, x) }
<1>0. p \in Nat /\ p < L /\ L \in Nat
  BY SizeAssumption DEF Rows
<1>1. 0 \in S
  <2> DEFINE x == [k \in Rows |-> IF k = p THEN One ELSE Zero]
  <2>1. x \in Vector /\ x[p] = One /\ \A k \in Rows \ {p} : x[k] = Zero
    BY FieldClosed DEF Vector
  <2> HIDE DEF x
  <2>2. ASSUME NEW r \in Rows, r >= p PROVE Dot(A[r], x) = Zero
    <3>1. A[r] \in Vector /\ \A k \in Rows : A[r][k] \in F
      BY DEF Matrix, Vector
    <3>2. \A k \in Rows \ {p} : Times(A[r][k], x[k]) = Zero
      BY <2>1, <3>1, FieldLaws
    <3>3. Dot(A[r], x) = Times(A[r][p], x[p])
      BY <2>1, <3>1, <3>2, DotOne
    <3>4. A[r][p] = Zero
      BY <2>2
    <3> QED BY <2>1, <3>3, <3>4, FieldLaws, FieldClosed
  <2>3. Good(0, x)
    BY <1>0, <2>1, <2>2 DEF Rows
  <2> QED BY <2>1, <2>3
<1>2. \A n \in Nat : n \in S => n + 1 \in S
  <2>1. SUFFICES ASSUME NEW n \in Nat, n \in S, n + 1 <= p
                 PROVE  \E x \in Vector : Good(n + 1, x)
    BY DEF S
  <2>2. PICK x \in Vector : Good(n, x)
    <3>1. n <= p
      BY <1>0, <2>1
    <3> HIDE DEF Good
    <3> QED BY <2>1, <3>1
  <2> DEFINE q == p - (n + 1)
             u == A[q]
             v == Dot(u, x)
             e == [k \in Rows |-> IF k = q THEN v ELSE Zero]
             y == [k \in Rows |-> Plus(x[k], e[k])]
  <2>3. q \in Rows /\ q < p /\ q = (p - n) - 1
    BY <1>0, <2>1 DEF Rows
  <2>4. u \in Vector /\ v \in F /\ x[q] = Zero
    BY <1>0, <2>2, <2>3, DotInF DEF Matrix
  <2> HIDE DEF q, u, v
  <2>5. /\ e \in Vector /\ e[q] = v /\ \A k \in Rows \ {q} : e[k] = Zero
        /\ y \in Vector
    BY <2>3, <2>4, FieldClosed DEF Vector
  <2>6. \A k \in Rows \ {q} : y[k] = x[k]
    BY <2>5, FieldLaws DEF Vector
  <2>7. ASSUME NEW w \in Vector PROVE Dot(w, y) = Plus(Dot(w, x), Times(w[q], v))
    <3>1. Dot(w, y) = Dot(y, w) /\ Dot(w, x) = Dot(x, w) /\ Dot(w, e) = Dot(e, w)
      BY <2>5, DotSymmetric
    <3>2. Dot(y, w) = Plus(Dot(x, w), Dot(e, w))
      BY <2>5, DotPlus
    <3>3. \A k \in Rows \ {q} : Times(w[k], e[k]) = Zero
      BY <2>5, FieldLaws DEF Vector
    <3>4. Dot(w, e) = Times(w[q], e[q])
      BY <2>3, <2>5, <3>3, DotOne
    <3> QED BY <2>5, <3>1, <3>2, <3>4
  <2> HIDE DEF e, y
  <2>8. \A k \in Rows : k > p \/ k < q => y[k] = Zero
    <3>1. TAKE k \in Rows
    <3>2. HAVE k > p \/ k < q
    <3>3. k # q /\ (k > p \/ k < p - n)
      BY <1>0, <2>3, <3>2 DEF Rows
    <3> QED BY <2>2, <2>6, <3>3
  <2>9. \A r \in Rows : r >= q => Dot(A[r], y) = Zero
    <3>1. TAKE r \in Rows
    <3>2. HAVE r >= q
    <3>3. A[r] \in Vector /\ A[r][q] \in F
      BY <2>3 DEF Matrix, Vector
    <3>4. CASE r = q
      <4>1. A[r] = u /\ u[q] = One
        BY <2>3, <3>4 DEF u
      <4>2. Dot(A[r], y) = Plus(v, v)
        BY <2>4, <2>7, <4>1, FieldLaws DEF v
      <4> QED BY <2>4, <4>2, FieldLaws
    <3>5. CASE r # q
      <4>1. r >= p - n /\ q < r
        BY <1>0, <2>3, <3>2, <3>5 DEF Rows
      <4>2. Dot(A[r], x) = Zero
        BY <2>2, <4>1
      <4>3. A[r][q] = Zero
        BY <2>3, <4>1
      <4> QED BY <2>4, <2>7, <3>3, <4>2, <4>3, FieldLaws, FieldClosed
    <3> QED BY <3>4, <3>5
  <2>10. Good(n + 1, y)
    <3>1. p # q /\ p \in Rows
      BY <1>0, <2>3
    <3> QED BY <2>2, <2>6, <2>8, <2>9, <3>1 DEF q
  <2> QED BY <2>5, <2>10
<1>3. p \in S
  <2> HIDE DEF S
  <2>1. \A n \in Nat : n \in S
    BY <1>1, <1>2, SetInduction
  <2> QED BY <1>0, <2>1
<1>4. PICK x \in Vector : Good(p, x)
  <2>1. p <= p
    BY <1>0
  <2> HIDE DEF Good
  <2> QED BY <1>3, <2>1
<1>5. x # NoConstants
  BY <1>4, FieldClosed DEF NoConstants
<1>6. x \in Sol(A, NoConstants)
  <2>1. \A r \in Rows : r >= p - p
    BY <1>0 DEF Rows
  <2> QED BY <1>4, <2>1 DEF Sol, NoConstants
<1> QED BY <1>5, <1>6

-----------------------------------------------------------------------------
(* The elimination, on systems: the columns in front of p are those of an  *)
(* upper triangular matrix with ones on the diagonal; the system has the   *)
(* solutions of the one given; rows p to q - 1 cannot repair pivot p.      *)
Given == [r \in Rows |-> [k \in Rows |-> a0[(k * L) + r]]]

Same(A, b) == Sol(A, b) = Solutions /\ Sol(A, NoConstants) = Sol(Given, NoConstants)
Looked(A, p, q) == A[p][p] = Zero => \A r \in Rows : p <= r /\ r < q => A[r][p] = Zero

(* Row q added to row p. *)
RepairOf(A, b, A2, b2, p, q) ==
  /\ A2 \in Matrix /\ b2 \in Vector
  /\ \A r \in Rows :
       /\ b2[r] = IF r = p THEN Plus(b[p], b[q]) ELSE b[r]
       /\ \A k \in Rows : A2[r][k] = IF r = p THEN Plus(A[p][k], A[q][k]) ELSE A[r][k]

(* Row p divided by its pivot, the rows below freed of its column. *)
ReduceOf(A, b, A2, b2, p) ==
  /\ A2 \in Matrix /\ b2 \in Vector
  /\ \A r \in Rows :
       /\ b2[r] = IF r < p THEN b[r]
                  ELSE IF r = p THEN Times(b[p], Inv(A[p][p]))
                  ELSE Plus(b[r], Times(Times(b[p], Inv(A[p][p])), A[r][p]))
       /\ \A k \in Rows :
            A2[r][k] = IF r < p THEN A[r][k]
                       ELSE IF r = p THEN Times(A[p][k], Inv(A[p][p]))
                       ELSE Plus(A[r][k], Times(Times(A[p][k], Inv(A[p][p])), A[r][p]))

LEMMA NoConstantsInF == NoConstants \in Vector
  BY FieldClosed DEF NoConstants, Vector

LEMMA Entries ==
  ASSUME NEW A \in Matrix, NEW b \in Vector, NEW r \in Rows, NEW k \in Rows
  PROVE  A[r] \in Vector /\ A[r][k] \in F /\ b[r] \in F
  BY DEF Matrix, Vector

(* Rows that agree everywhere are the same. *)
LEMMA SameRow ==
  ASSUME NEW u \in Vector, NEW v \in Vector, \A k \in Rows : u[k] = v[k]
  PROVE  u = v
  BY DEF Vector

LEMMA RepairSolutions ==
  ASSUME NEW A \in Matrix, NEW b \in Vector, NEW p \in Rows, NEW q \in Rows, p # q,
         NEW A2, NEW b2, RepairOf(A, b, A2, b2, p, q)
  PROVE  Sol(A2, b2) = Sol(A, b)
<1> DEFINE t == [r \in Rows |-> IF r = p THEN One ELSE Zero]
<1>1. t \in Vector
  BY FieldClosed DEF Vector
<1>2. A2 \in Matrix /\ b2 \in Vector
  BY DEF RepairOf
<1>3. A2[q] = A[q] /\ b2[q] = b[q]
  <2>1. A2[q] \in Vector /\ A[q] \in Vector /\ \A k \in Rows : A2[q][k] = A[q][k]
    BY <1>2, Entries DEF RepairOf
  <2> QED BY <2>1, SameRow DEF RepairOf
<1>4. ASSUME NEW r \in Rows \ {q}
      PROVE  A2[r] = PlusRow(A[r], A[q], t[r]) /\ b2[r] = Plus(b[r], Times(b[q], t[r]))
  <2>1. A2[r] \in Vector /\ A[r] \in Vector /\ A[q] \in Vector /\ b[r] \in F /\ b[q] \in F
    BY <1>2, Entries
  <2>2. PlusRow(A[r], A[q], t[r]) \in Vector
    BY <1>1, <2>1, PlusRowClosed DEF Vector
  <2>3. ASSUME NEW v \in F, NEW w \in F
        PROVE  Plus(v, Times(w, t[r])) = IF r = p THEN Plus(v, w) ELSE v
    BY <2>3, FieldLaws
  <2>4. ASSUME NEW k \in Rows PROVE A2[r][k] = PlusRow(A[r], A[q], t[r])[k]
    <3>1. A[r][k] \in F /\ A[q][k] \in F
      BY Entries
    <3>2. Plus(A[r][k], Times(A[q][k], t[r])) = IF r = p THEN Plus(A[r][k], A[q][k]) ELSE A[r][k]
      BY <2>3, <3>1
    <3> HIDE DEF t
    <3> QED BY <3>2 DEF RepairOf, PlusRow
  <2> HIDE DEF t
  <2>5. A2[r] = PlusRow(A[r], A[q], t[r])
    BY <2>1, <2>2, <2>4, SameRow
  <2>6. b2[r] = IF r = p THEN Plus(b[r], b[q]) ELSE b[r]
    BY DEF RepairOf
  <2> QED BY <2>1, <2>3, <2>5, <2>6
<1> HIDE DEF t
<1> QED BY <1>1, <1>2, <1>3, <1>4, AddMultiples

(* The steps of the elimination work on both right sides alike. *)
LEMMA RepairOfNone ==
  ASSUME NEW A \in Matrix, NEW b \in Vector, NEW p \in Rows, NEW q \in Rows,
         NEW A2, NEW b2, RepairOf(A, b, A2, b2, p, q)
  PROVE  RepairOf(A, NoConstants, A2, NoConstants, p, q)
<1>1. Plus(Zero, Zero) = Zero
  BY FieldClosed, FieldLaws
<1> QED BY <1>1, NoConstantsInF DEF RepairOf, NoConstants

LEMMA RepairKeeps ==
  ASSUME NEW A \in Matrix, NEW b \in Vector, NEW p \in Rows, NEW q \in Rows, p < q,
         NEW A2, NEW b2, RepairOf(A, b, A2, b2, p, q),
         Front(A, p), Same(A, b), Looked(A, p, q), A[p][p] = Zero
  PROVE  Front(A2, p) /\ Same(A2, b2) /\ Looked(A2, p, q + 1)
<1>1. p \in Nat /\ q \in Nat /\ p # q
  BY SizeAssumption DEF Rows
<1>2. Same(A2, b2)
  <2>1. Sol(A2, b2) = Sol(A, b)
    BY <1>1, RepairSolutions
  <2>2. Sol(A2, NoConstants) = Sol(A, NoConstants)
    BY <1>1, RepairOfNone, RepairSolutions, NoConstantsInF
  <2> QED BY <2>1, <2>2 DEF Same
<1>3. Front(A2, p)
  <2>1. SUFFICES ASSUME NEW r \in Rows, NEW k \in Rows, k < p
                 PROVE  (k = r => A2[r][k] = One) /\ (k < r => A2[r][k] = Zero)
    BY DEF Front
  <2>2. CASE r = p
    <3>1. A[p][k] = Zero /\ A[q][k] = Zero /\ k # r
      <4>1. k < q /\ k # p
        BY <1>1, <2>1 DEF Rows
      <4> QED BY <2>1, <2>2, <4>1 DEF Front
    <3>2. Plus(Zero, Zero) = Zero
      BY FieldClosed, FieldLaws
    <3> QED BY <2>2, <3>1, <3>2 DEF RepairOf
  <2>3. CASE r # p
    BY <2>1, <2>3 DEF RepairOf, Front
  <2> QED BY <2>2, <2>3
<1>4. Looked(A2, p, q + 1)
  <2>1. SUFFICES ASSUME A2[p][p] = Zero, NEW r \in Rows, p <= r, r < q + 1
                 PROVE  A2[r][p] = Zero
    BY DEF Looked
  <2>2. A[q][p] = Zero
    <3>1. A[q][p] \in F
      BY Entries
    <3>2. Plus(Zero, A[q][p]) = Zero
      BY <2>1 DEF RepairOf
    <3> QED BY <3>1, <3>2, FieldLaws
  <2>3. r = p \/ r = q \/ r < q
    BY <1>1, <2>1 DEF Rows
  <2>4. r # p => A2[r][p] = A[r][p]
    BY DEF RepairOf
  <2> QED BY <2>1, <2>2, <2>3, <2>4 DEF Looked
<1> QED BY <1>2, <1>3, <1>4

LEMMA ReduceSolutions ==
  ASSUME NEW A \in Matrix, NEW b \in Vector, NEW p \in Rows, A[p][p] # Zero,
         \A r \in Rows : r < p => A[p][r] = Zero,
         NEW A2, NEW b2, ReduceOf(A, b, A2, b2, p)
  PROVE  Sol(A2, b2) = Sol(A, b)
<1> DEFINE s == Inv(A[p][p])
           A1 == [r \in Rows |-> [k \in Rows |-> IF r = p THEN Times(A[p][k], s) ELSE A[r][k]]]
           b1 == [r \in Rows |-> IF r = p THEN Times(b[p], s) ELSE b[r]]
           t == [r \in Rows |-> IF r > p THEN A[r][p] ELSE Zero]
<1>0. A[p][p] \in F \ {Zero} /\ s \in F
  BY Entries, FieldClosed
<1>1. A2 \in Matrix /\ b2 \in Vector
  BY DEF ReduceOf
<1>2. A1 \in Matrix /\ b1 \in Vector /\ t \in Vector
  <2>1. \A r, k \in Rows : A[r][k] \in F /\ b[r] \in F
    BY Entries
  <2>2. \A r, k \in Rows : Times(A[r][k], s) \in F /\ Times(b[r], s) \in F
    BY <1>0, <2>1, Closed
  <2> QED BY <2>1, <2>2, FieldClosed DEF Matrix, Vector
<1>3. Sol(A1, b1) = Sol(A, b)
  <2>1. A1[p] = [k \in Rows |-> Times(A[p][k], s)] /\ b1[p] = Times(b[p], s)
    OBVIOUS
  <2>2. \A r \in Rows \ {p} : A1[r] = A[r] /\ b1[r] = b[r]
    <3>1. TAKE r \in Rows \ {p}
    <3>2. A1[r] \in Vector /\ A[r] \in Vector /\ \A k \in Rows : A1[r][k] = A[r][k]
      <4>1. A1[r] \in Vector /\ A[r] \in Vector
        BY <1>2, Entries
      <4> QED BY <4>1
    <3>3. A1[r] = A[r]
      <4> HIDE DEF A1
      <4> QED BY <3>2, SameRow
    <3> QED BY <3>3
  <2> HIDE DEF A1, b1
  <2> QED BY <1>0, <1>2, <2>1, <2>2, ScaleOne
<1>4. \A r, k \in Rows : A1[r][k] = IF r = p THEN Times(A[p][k], s) ELSE A[r][k]
  OBVIOUS
<1>5. \A r \in Rows : b1[r] = IF r = p THEN Times(b[p], s) ELSE b[r]
  OBVIOUS
<1>6. \A r \in Rows : t[r] = IF r > p THEN A[r][p] ELSE Zero
  OBVIOUS
<1> HIDE DEF A1, b1, t
<1>7. A2[p] = A1[p] /\ b2[p] = b1[p]
  <2>0. ~ (p < p)
    BY SizeAssumption DEF Rows
  <2>1. A2[p] \in Vector /\ A1[p] \in Vector
    BY <1>1, <1>2, Entries
  <2>2. \A k \in Rows : A2[p][k] = A1[p][k]
    BY <1>4, <2>0 DEF ReduceOf
  <2>3. b2[p] = b1[p]
    BY <1>5, <2>0 DEF ReduceOf
  <2> QED BY <2>1, <2>2, <2>3, SameRow
<1>8. ASSUME NEW r \in Rows \ {p}
      PROVE  A2[r] = PlusRow(A1[r], A1[p], t[r]) /\ b2[r] = Plus(b1[r], Times(b1[p], t[r]))
  <2>1. A2[r] \in Vector /\ A1[r] \in Vector /\ A1[p] \in Vector /\ b1[r] \in F /\ b1[p] \in F /\ t[r] \in F
    BY <1>1, <1>2, Entries DEF Vector
  <2>2. PlusRow(A1[r], A1[p], t[r]) \in Vector
    BY <2>1, PlusRowClosed
  <2>3. ASSUME NEW v \in F, NEW w \in F, r < p PROVE Plus(v, Times(w, t[r])) = v
    <3>1. t[r] = Zero
      BY <1>6, <2>3, SizeAssumption DEF Rows
    <3> QED BY <2>3, <3>1, FieldLaws
  <2>4. r > p => t[r] = A[r][p]
    BY <1>6
  <2>5. (r < p \/ r > p) /\ ~ (r < p /\ r > p) /\ r # p
    BY SizeAssumption DEF Rows
  <2>6. ASSUME NEW k \in Rows PROVE A2[r][k] = PlusRow(A1[r], A1[p], t[r])[k]
    <3>1. A1[r][k] \in F /\ A1[p][k] \in F
      BY <1>2, Entries
    <3>2. PlusRow(A1[r], A1[p], t[r])[k] = Plus(A1[r][k], Times(A1[p][k], t[r]))
      BY DEF PlusRow
    <3>3. A1[r][k] = A[r][k] /\ A1[p][k] = Times(A[p][k], s)
      BY <1>4, <2>5
    <3> QED BY <2>3, <2>4, <2>5, <3>1, <3>2, <3>3 DEF ReduceOf
  <2>7. A2[r] = PlusRow(A1[r], A1[p], t[r])
    BY <2>1, <2>2, <2>6, SameRow
  <2>8. b1[r] = b[r] /\ b1[p] = Times(b[p], s)
    BY <1>5, <2>5
  <2>9. b2[r] = Plus(b1[r], Times(b1[p], t[r]))
    BY <2>1, <2>3, <2>4, <2>5, <2>8 DEF ReduceOf
  <2> QED BY <2>7, <2>9
<1>9. Sol(A2, b2) = Sol(A1, b1)
  BY <1>1, <1>2, <1>7, <1>8, AddMultiples
<1> QED BY <1>3, <1>9

LEMMA ReduceOfNone ==
  ASSUME NEW A \in Matrix, NEW b \in Vector, NEW p \in Rows,
         NEW A2, NEW b2, ReduceOf(A, b, A2, b2, p)
  PROVE  ReduceOf(A, NoConstants, A2, NoConstants, p)
<1>1. \A r \in Rows : A[r][p] \in F /\ Inv(A[r][p]) \in F
  BY Entries, FieldClosed
<1>2. Times(Zero, Inv(A[p][p])) = Zero
  BY <1>1, FieldLaws
<1>3. \A r \in Rows : Plus(Zero, Times(Zero, A[r][p])) = Zero
  BY <1>1, FieldClosed, FieldLaws
<1>4. \A r \in Rows : NoConstants[r] = Zero
  BY DEF NoConstants
<1> QED BY <1>2, <1>3, <1>4, NoConstantsInF DEF ReduceOf

LEMMA ReduceKeeps ==
  ASSUME NEW A \in Matrix, NEW b \in Vector, NEW p \in Rows,
         NEW A2, NEW b2, ReduceOf(A, b, A2, b2, p),
         Front(A, p), Same(A, b), A[p][p] # Zero
  PROVE  Front(A2, p + 1) /\ Same(A2, b2)
<1>0. p \in Nat /\ \A r \in Rows : r \in Nat
  BY SizeAssumption DEF Rows
<1>1. \A r \in Rows : r < p => A[p][r] = Zero
  BY DEF Front
<1>2. Same(A2, b2)
  <2>1. Sol(A2, b2) = Sol(A, b)
    BY <1>1, ReduceSolutions
  <2>2. Sol(A2, NoConstants) = Sol(A, NoConstants)
    BY <1>1, ReduceOfNone, ReduceSolutions, NoConstantsInF
  <2> QED BY <2>1, <2>2 DEF Same
<1>3. Front(A2, p + 1)
  <2>1. SUFFICES ASSUME NEW r \in Rows, NEW k \in Rows, k < p + 1
                 PROVE  (k = r => A2[r][k] = One) /\ (k < r => A2[r][k] = Zero)
    BY DEF Front
  <2>2. A[p][p] \in F /\ A[r][p] \in F /\ Inv(A[p][p]) \in F /\ A[r][k] \in F
    BY Entries, FieldClosed
  <2>3. CASE r < p
    <3>1. A2[r][k] = A[r][k]
      BY <2>3 DEF ReduceOf
    <3>2. k = r \/ k < r => k < p
      BY <1>0, <2>1, <2>3
    <3>3. k < p => (k = r => A[r][k] = One) /\ (k < r => A[r][k] = Zero)
      BY DEF Front
    <3>4. k = r => A2[r][k] = One
      BY <3>1, <3>2, <3>3
    <3>5. k < r => A2[r][k] = Zero
      BY <3>1, <3>2, <3>3
    <3> QED BY <3>4, <3>5
  <2>4. CASE r = p
    <3>1. A2[r][k] = Times(A[p][k], Inv(A[p][p]))
      BY <1>0, <2>4 DEF ReduceOf
    <3>2. k = r => A2[r][k] = One
      BY <2>2, <2>4, <3>1, FieldLaws
    <3>3. k < r => A2[r][k] = Zero
      <4>1. k < r => A[p][k] = Zero
        BY <2>4 DEF Front
      <4> QED BY <2>2, <3>1, <4>1, FieldLaws
    <3> QED BY <3>2, <3>3
  <2>5. CASE r > p
    <3>1. A2[r][k] = Plus(A[r][k], Times(Times(A[p][k], Inv(A[p][p])), A[r][p]))
      BY <1>0, <2>5 DEF ReduceOf
    <3>2. CASE k = p
      <4>1. Times(A[p][p], Inv(A[p][p])) = One
        BY <2>2, FieldLaws
      <4>2. A2[r][k] = Plus(A[r][p], A[r][p])
        BY <2>2, <3>1, <3>2, <4>1, FieldLaws
      <4> QED BY <1>0, <2>2, <2>5, <3>2, <4>2, FieldLaws
    <3>3. CASE k # p
      <4>1. k < p
        BY <1>0, <2>1, <3>3
      <4>2. A[p][k] = Zero /\ A[r][k] = Zero /\ k # r
        BY <1>0, <2>5, <4>1 DEF Front
      <4>3. Times(Times(Zero, Inv(A[p][p])), A[r][p]) = Zero /\ Plus(Zero, Zero) = Zero
        BY <2>2, FieldClosed, FieldLaws
      <4> QED BY <3>1, <4>2, <4>3
    <3> QED BY <3>2, <3>3
  <2>6. r < p \/ r = p \/ r > p
    BY <1>0
  <2> QED BY <2>3, <2>4, <2>5, <2>6
<1> QED BY <1>2, <1>3

LEMMA GivenInF == ASSUME a0 \in [0 .. (L * L) - 1 -> F] PROVE Given \in Matrix
<1>1. ASSUME NEW r \in Rows, NEW k \in Rows PROVE a0[(k * L) + r] \in F
  <2>1. (k * L) + r \in 0 .. (L * L) - 1
    BY SizeAssumption, FlatIndex DEF Rows
  <2> QED BY <2>1
<1> QED BY <1>1 DEF Given, Matrix, Vector

(* A pivot no row repairs: the matrix given is singular. *)
LEMMA StuckSingular ==
  ASSUME NEW A \in Matrix, NEW b \in Vector, NEW p \in Rows,
         Front(A, p), Same(A, b), Looked(A, p, L), A[p][p] = Zero
  PROVE  Singular
<1>0. L \in Nat /\ p \in Nat /\ \A r \in Rows : r \in Nat /\ r < L
  BY SizeAssumption DEF Rows
<1>1. \A r, k \in Rows : k < r /\ k < p => A[r][k] = Zero
  BY DEF Front
<1>2. \A r \in Rows : r < p => A[r][r] = One
  BY DEF Front
<1>3. \A r \in Rows : r >= p => A[r][p] = Zero
  BY <1>0 DEF Looked
<1>4. PICK x \in Vector : x # NoConstants /\ x \in Sol(A, NoConstants)
  BY <1>1, <1>2, <1>3, KernelOf
<1>5. x \in Sol(Given, NoConstants)
  BY <1>4 DEF Same
<1>6. \A r \in Rows : Dot([k \in Rows |-> a0[(k * L) + r]], x) = Zero
  BY <1>5 DEF Sol, Given, NoConstants
<1> QED BY <1>4, <1>6 DEF Singular, NoConstants, Vector

LEMMA GivenSolutions == Sol(Given, c0) = Solutions
  BY DEF Sol, Given, Solutions, Vector

(* Unknown p known: its column goes to the right side. *)
SubstituteOf(A, b, A2, b2, p) ==
  /\ A2 \in Matrix /\ b2 \in Vector
  /\ \A r \in Rows :
       /\ b2[r] = IF r < p THEN Plus(b[r], Times(A[r][p], b[p])) ELSE b[r]
       /\ \A k \in Rows : A2[r][k] = IF k = p THEN Delta(r, p) ELSE A[r][k]

LEMMA SubstituteSolutions ==
  ASSUME NEW A \in Matrix, NEW b \in Vector, NEW p \in Rows,
         \A k \in Rows : A[p][k] = Delta(p, k),
         \A r \in Rows : r > p => A[r][p] = Zero,
         NEW A2, NEW b2, SubstituteOf(A, b, A2, b2, p)
  PROVE  Sol(A2, b2) = Sol(A, b)
<1> DEFINE t == [r \in Rows |-> IF r < p THEN A[r][p] ELSE Zero]
<1>0. ~ (p < p) /\ \A r \in Rows : r < p \/ r = p \/ r > p
  BY SizeAssumption DEF Rows
<1>1. A2 \in Matrix /\ b2 \in Vector /\ t \in Vector
  <2>1. \A r \in Rows : A[r][p] \in F
    BY Entries
  <2> QED BY <2>1, FieldClosed DEF SubstituteOf, Vector
<1>2. \A r \in Rows : t[r] = IF r < p THEN A[r][p] ELSE Zero
  OBVIOUS
<1> HIDE DEF t
<1>3. A2[p] = A[p] /\ b2[p] = b[p]
  <2>1. A2[p] \in Vector /\ A[p] \in Vector
    BY <1>1, Entries
  <2>2. \A k \in Rows : A2[p][k] = A[p][k]
    BY DEF SubstituteOf, Delta
  <2>3. b2[p] = b[p]
    BY <1>0 DEF SubstituteOf
  <2> QED BY <2>1, <2>2, <2>3, SameRow
<1>4. ASSUME NEW r \in Rows \ {p}
      PROVE  A2[r] = PlusRow(A[r], A[p], t[r]) /\ b2[r] = Plus(b[r], Times(b[p], t[r]))
  <2>1. A2[r] \in Vector /\ A[r] \in Vector /\ A[p] \in Vector /\ b[r] \in F /\ b[p] \in F
        /\ t[r] \in F /\ A[r][p] \in F
    BY <1>1, Entries DEF Vector
  <2>2. PlusRow(A[r], A[p], t[r]) \in Vector
    BY <2>1, PlusRowClosed
  <2>3. ASSUME NEW k \in Rows PROVE A2[r][k] = PlusRow(A[r], A[p], t[r])[k]
    <3>1. PlusRow(A[r], A[p], t[r])[k] = Plus(A[r][k], Times(A[p][k], t[r])) /\ A[r][k] \in F
      BY Entries DEF PlusRow
    <3>2. CASE k = p
      <4>1. Times(A[p][k], t[r]) = t[r]
        BY <2>1, <3>2, FieldLaws DEF Delta
      <4>2. Plus(A[r][p], t[r]) = Zero
        <5>1. CASE r < p
          BY <1>2, <2>1, <5>1, FieldLaws
        <5>2. CASE r > p
          <6>1. A[r][p] = Zero /\ ~ (r < p)
            BY <5>2, SizeAssumption DEF Rows
          <6> QED BY <1>2, <6>1, FieldClosed, FieldLaws
        <5> QED BY <1>0, <5>1, <5>2
      <4>3. A2[r][k] = Zero
        BY <3>2 DEF SubstituteOf, Delta
      <4> QED BY <3>1, <3>2, <4>1, <4>2, <4>3
    <3>3. CASE k # p
      <4>1. Times(A[p][k], t[r]) = Zero
        BY <2>1, <3>3, FieldLaws DEF Delta
      <4>2. A2[r][k] = A[r][k]
        BY <3>3 DEF SubstituteOf
      <4> QED BY <3>1, <4>1, <4>2, FieldLaws
    <3> QED BY <3>2, <3>3
  <2>4. A2[r] = PlusRow(A[r], A[p], t[r])
    BY <2>1, <2>2, <2>3, SameRow
  <2>5. b2[r] = Plus(b[r], Times(b[p], t[r]))
    <3>1. CASE r < p
      <4>1. b2[r] = Plus(b[r], Times(A[r][p], b[p])) /\ t[r] = A[r][p]
        BY <1>2, <3>1 DEF SubstituteOf
      <4>2. Times(A[r][p], b[p]) = Times(b[p], A[r][p])
        BY <2>1, FieldRing
      <4> QED BY <4>1, <4>2
    <3>2. CASE ~ (r < p)
      <4>1. b2[r] = b[r] /\ t[r] = Zero
        BY <1>2, <3>2 DEF SubstituteOf
      <4> QED BY <2>1, <4>1, FieldLaws
    <3> QED BY <3>1, <3>2
  <2> QED BY <2>4, <2>5
<1> QED BY <1>1, <1>3, <1>4, AddMultiples
-----------------------------------------------------------------------------
(* The copy of the pivots of SimdElim: it is taken in front of the repair  *)
(* or behind it, and kept up to date until it is used.                     *)
Copied == phase = "reduce" \/ (phase = "repair" /\ ~CopiesLate)

(* The register code is only at work inside a call to a back end. *)
Busy == phase # "off" => pc = "load" /\ be # "ref"

Loops ==
  /\ perByte \in {1, 2} /\ steps \in Nat
  /\ DOMAIN pivots = Rows
  /\ Forming => i \in Rows /\ j \in Nat /\ j > i /\ DOMAIN mat = Rows

Current == Copied => \A r \in i .. L - 1 : pivots[r] = mat[r][Idx(i)]

PInv == Busy /\ Loops /\ Current

-----------------------------------------------------------------------------
LEMMA StartBefore ==
  ASSUME perByte \in {1, 2}, NEW r \in Rows
  PROVE  Idx(r) \in Cols /\ Start(r) <= Idx(r)
<1>1. Idx(r) \in Nat
  BY Sizes, Layout DEF Idx, Rows
<1> QED BY <1>1, StartsBefore DEF Start

LEMMA Disjuncts ==
  ASSUME SimdNext
  PROVE  \/ SimdLoad \/ CopyColumn \/ Repair \/ EndRepair \/ SimdReduce
         \/ SimdStore \/ SimdBackLoad \/ SimdSubstitute \/ SimdBackStore
  BY DEF SimdNext, RowEchelon, Elim, Back,
         gf16mat_gauss_elim_row_echolen_neon, gf256mat_gauss_elim_row_echolen_neon,
         gf256mat_gauss_elim_row_echelon_avx2, gf256mat_gauss_elim_row_echelon_avx2_gfni,
         gf16mat_sol_64x64_avx2,
         gf16mat_gaussian_elim_neon, gf256mat_gaussian_elim_neon,
         gf256mat_gaussian_elim_avx2, gf256mat_gaussian_elim_avx2_gfni,
         gf16mat_GE_64x64_avx2,
         gf16mat_back_substitute_neon, gf256mat_back_substitute_neon,
         gf256mat_back_substitute_avx2, gf256mat_back_substitute_avx2_gfni,
         gf16mat_BS_64x64_avx2

LEMMA PInit == ASSUME SimdInit PROVE PInv
  BY Sizes DEF SimdInit, Init, PInv, Busy, Loops, Current, Forming, Copied, Zeros

(* Steps with no pivot in the making before or after. *)
LEMMA NotForming ==
  ASSUME PInv, ~Forming', perByte' = perByte, steps' = steps, DOMAIN pivots' = Rows, Busy'
  PROVE  PInv'
  BY DEF PInv, Loops, Current, Forming, Copied

LEMMA LoadStep == ASSUME PInv, SimdLoad PROVE PInv'
<1>1. CopiesLate' = CopiesLate
  BY DEF SimdLoad, fixed, CopiesLate
<1>2. Busy'
  BY DEF SimdLoad, fixed, Busy
<1>3. Loops'
  BY Sizes DEF SimdLoad, fixed, PInv, Loops, Rows
<1>4. ~Copied'
  BY <1>1 DEF SimdLoad, Copied
<1> QED BY <1>2, <1>3, <1>4 DEF PInv, Current

LEMMA CopyStep == ASSUME PInv, CopyColumn PROVE PInv'
<1>1. /\ be' = be /\ perByte' = perByte /\ steps' = steps /\ i' = i /\ j' = j /\ mat' = mat /\ pc' = pc
      /\ phase = "column" /\ phase' \in {"repair", "reduce"}
  BY DEF CopyColumn, vars
<1>2. i \in Rows /\ Loops
  BY <1>1 DEF PInv, Loops, Forming
<1>3. Busy'
  BY <1>1 DEF Busy, PInv
<1>4. Loops'
  BY <1>1, <1>2 DEF CopyColumn, Loops, Forming
<1>5. ASSUME NEW r \in i .. L - 1 PROVE pivots'[r] = mat[r][Idx(i)]
  <2>1. r \in Rows /\ r >= i
    BY <1>2, Sizes DEF Rows
  <2> QED BY <2>1 DEF CopyColumn
<1>6. Idx(i)' = Idx(i)
  BY <1>1 DEF Idx, Offset, Width
<1> QED BY <1>1, <1>3, <1>4, <1>5, <1>6 DEF PInv, Current

LEMMA RepairStep == ASSUME PInv, Repair PROVE PInv'
<1>1. /\ be' = be /\ perByte' = perByte /\ steps' = steps /\ i' = i /\ j' = j + 1 /\ pc' = pc
      /\ phase = "repair" /\ phase' = phase /\ j < Stop(i)
  BY DEF Repair, fixed
<1>2. /\ i \in Rows /\ j \in Nat /\ j > i /\ DOMAIN mat = Rows /\ DOMAIN pivots = Rows
      /\ perByte \in {1, 2} /\ steps \in Nat /\ i \in Nat /\ i <= L - 1
  BY <1>1, Sizes DEF PInv, Loops, Forming, Rows
<1>3. j \in Rows /\ j \in i .. L - 1
  <2>1. j < L
    <3>1. CASE i + steps < L
      BY <1>1, <1>2, <3>1, Sizes DEF Stop
    <3>2. CASE ~(i + steps < L)
      BY <1>1, <1>2, <3>2, Sizes DEF Stop
    <3> QED BY <3>1, <3>2
  <2> QED BY <1>2, <2>1, Sizes DEF Rows
<1>4. /\ CopiesLate' = CopiesLate /\ Idx(i)' = Idx(i)
  BY <1>1 DEF CopiesLate, Idx, Offset, Width
<1>5. Idx(i) \in Cols /\ Start(i) <= Idx(i)
  BY <1>2, StartBefore
<1>6. Busy'
  BY <1>1 DEF Busy, PInv
<1>7. Loops'
  BY <1>1, <1>2 DEF Repair, Loops, Forming, Follows
<1>8. ASSUME ~CopiesLate, NEW r \in i .. L - 1
      PROVE  pivots'[r] = mat'[r][Idx(i)]
  <2>1. \A q \in i .. L - 1 : pivots[q] = mat[q][Idx(i)]
    BY <1>1, <1>8 DEF PInv, Current, Copied
  <2>2. CASE mat' = mat /\ pivots' = pivots
    BY <2>1, <2>2
  <2>3. CASE /\ mat' = [mat EXCEPT ![i] = AddRow(mat[i], mat[j], Start(i))]
             /\ pivots' = Follows(pivots[j])
    <3>1. pivots' = [pivots EXCEPT ![i] = Plus(pivots[i], pivots[j])]
      BY <1>8, <2>3 DEF Follows
    <3>2. CASE r = i
      <4>1. pivots'[r] = Plus(pivots[i], pivots[j])
        BY <1>2, <3>1, <3>2
      <4>2. mat'[r] = AddRow(mat[i], mat[j], Start(i))
        BY <1>2, <2>3, <3>2
      <4>3. mat'[r][Idx(i)] = Plus(mat[i][Idx(i)], mat[j][Idx(i)])
        BY <1>5, <4>2 DEF AddRow
      <4>4. i \in i .. L - 1
        BY <1>2, Sizes
      <4> QED BY <1>3, <2>1, <4>1, <4>3, <4>4
    <3>3. CASE r # i
      <4>1. r \in Rows
        BY <1>2, Sizes DEF Rows
      <4> QED BY <1>2, <2>1, <2>3, <3>1, <3>3, <4>1
    <3> QED BY <3>2, <3>3
  <2> QED BY <2>2, <2>3 DEF Repair
<1>9. Current'
  BY <1>1, <1>4, <1>8 DEF Current, Copied
<1> QED BY <1>6, <1>7, <1>9 DEF PInv

LEMMA EndStep == ASSUME PInv, EndRepair PROVE PInv'
<1>1. /\ be' = be /\ perByte' = perByte /\ steps' = steps /\ i' = i /\ j' = j /\ mat' = mat /\ pc' = pc
      /\ pivots' = pivots /\ phase = "repair" /\ phase' = IF CopiesLate THEN "column" ELSE "reduce"
  BY DEF EndRepair, vars
<1>2. CopiesLate' = CopiesLate /\ Idx(i)' = Idx(i) /\ Loops /\ Current /\ Busy
  BY <1>1 DEF CopiesLate, Idx, Offset, Width, PInv
<1>3. Busy' /\ Loops'
  BY <1>1, <1>2 DEF Busy, Loops, Forming
<1>4. Current'
  BY <1>1, <1>2 DEF Current, Copied
<1> QED BY <1>3, <1>4 DEF PInv

LEMMA ReduceStep == ASSUME PInv, SimdReduce PROVE PInv'
<1>1. /\ be' = be /\ perByte' = perByte /\ steps' = steps /\ pc' = pc /\ phase = "reduce"
      /\ DOMAIN mat' = Rows /\ DOMAIN pivots' = DOMAIN pivots
      /\ \/ i < L - 1 /\ i' = i + 1 /\ j' = i + 2 /\ phase' = IF CopiesLate THEN "repair" ELSE "column"
         \/ phase' = "store"
  <2>1. DOMAIN mat' = Rows
    BY DEF SimdReduce, Merged
  <2> QED BY <2>1 DEF SimdReduce, fixed
<1>2. CopiesLate' = CopiesLate /\ Busy
  BY <1>1 DEF CopiesLate, PInv
<1>3. Busy'
  BY <1>1, <1>2 DEF Busy
<1>4. i \in Rows /\ DOMAIN pivots = Rows /\ perByte \in {1, 2} /\ steps \in Nat
  BY <1>1 DEF PInv, Loops, Forming
<1>5. Loops'
  BY <1>1, <1>4, Sizes DEF Loops, Forming, Rows
<1>6. ~Copied'
  BY <1>1, <1>2 DEF Copied
<1> QED BY <1>3, <1>5, <1>6 DEF PInv, Current

LEMMA LaterSteps ==
  ASSUME PInv, SimdStore \/ SimdBackLoad \/ SimdSubstitute \/ SimdBackStore
  PROVE  PInv'
<1>1. /\ perByte' = perByte /\ steps' = steps /\ pivots' = pivots /\ be' = be
      /\ phase' \in {"off", "back", "substitute"}
      /\ phase' # "off" => pc' = pc
      /\ phase # "off"
  BY DEF SimdStore, SimdBackLoad, SimdSubstitute, SimdBackStore, fixed
<1>2. Busy' /\ ~Forming' /\ DOMAIN pivots' = Rows
  BY <1>1 DEF PInv, Busy, Forming, Loops
<1> QED BY <1>1, <1>2, NotForming

(* The steps of GaussElim: the register code is not at work, or the signer *)
(* goes on with something else.                                            *)
LEMMA OtherSteps ==
  ASSUME PInv,
         \/ Call /\ UNCHANGED simd
         \/ be = "ref" /\ (Load \/ CondAdd \/ Reduce \/ Store \/ BackLoad \/ Substitute \/ BackStore) /\ UNCHANGED simd
         \/ Return /\ pivots' = Zeros /\ vec' = Zeros /\ UNCHANGED <<be, phase, junk>>
  PROVE  PInv'
<1>1. phase = "off" /\ phase' = phase
  BY DEF PInv, Busy, Call, Return, simd
<1>2. perByte' = perByte /\ steps' = steps
  BY DEF Call, Load, CondAdd, Reduce, Store, BackLoad, Substitute, BackStore, Return
<1>3. DOMAIN pivots' = Rows
  BY DEF PInv, Loops, simd, Zeros
<1>4. Busy' /\ ~Forming'
  BY <1>1 DEF Busy, Forming
<1> QED BY <1>2, <1>3, <1>4, NotForming

LEMMA PStep == ASSUME PInv, [AllNext]_allvars PROVE PInv'
<1>1. CASE SimdNext
  BY <1>1, Disjuncts, LoadStep, CopyStep, RepairStep, EndStep, ReduceStep, LaterSteps
<1>2. CASE AllNext /\ ~SimdNext
  BY <1>2, OtherSteps DEF AllNext
<1>3. CASE UNCHANGED allvars
  BY <1>3 DEF allvars, vars, simd, PInv, Busy, Loops, Current, Forming, Copied, CopiesLate,
              Idx, Offset, Width
<1> QED BY <1>1, <1>2, <1>3

(* For every field, size and register, and whatever the padding holds: the *)
(* rows below a pivot are reduced with what the matrix holds in the        *)
(* pivot's column, in the functions that copy it before the repair and in  *)
(* those that copy it after.                                               *)
THEOREM PivotsStayCurrent == AllSpec => []PivotsCurrent
<1>1. SimdInit => PInv
  BY PInit
<1>2. PInv /\ [AllNext]_allvars => PInv'
  BY PStep
<1>3. PInv => PivotsCurrent
  BY DEF PInv, Current, Copied, PivotsCurrent
<1> QED BY <1>1, <1>2, <1>3, PTL DEF AllSpec

-----------------------------------------------------------------------------
SimdTypes ==
  /\ be \in {"ref", "neon", "avx2", "gfni", "avx2_64"}
  /\ phase \in {"off", "column", "repair", "reduce", "store", "back", "substitute"}
  /\ be = "avx2_64" => perByte = 2
  /\ be # "ref" => ~transposed
  /\ pivots \in Vector /\ vec \in Vector /\ junk \in F

-----------------------------------------------------------------------------
LEMMA DeltaInF == ASSUME NEW r, NEW k PROVE Delta(r, k) \in F
  BY FieldClosed DEF Delta

LEMMA Positions ==
  ASSUME perByte \in {1, 2}
  PROVE  /\ Offset \in Nat /\ Offset + L \in Cols
         /\ \A k \in Rows : Offset + k \in Cols
         /\ 0 \in Rows /\ Offset + 0 = Offset /\ Offset \in Cols
  BY Sizes, Layout DEF Cols, Rows

LEMMA Reading ==
  ASSUME TypeOK, SimdTypes
  PROVE  CurA \in Matrix /\ CurB \in Vector
<1>1. perByte \in {1, 2} /\ mat \in [Rows -> [Cols -> F]] /\ vec \in Vector
  BY DEF TypeOK, SimdTypes
<1>2. \A r, k \in Rows : mat[r][Offset + k] \in F /\ mat[r][Offset + L] \in F /\ mat[r][Offset] \in F
  BY <1>1, Positions
<1>3. \A r \in Rows : vec[r] \in F
  BY <1>1 DEF Vector
<1>4. CurA \in Matrix
  BY <1>2, DeltaInF DEF CurA, Matrix, Vector
<1>5. CurB \in Vector
  BY <1>2, <1>3 DEF CurB, Vector
<1> QED BY <1>4, <1>5

LEMMA ReadingNext == (TypeOK /\ SimdTypes)' => (CurA \in Matrix /\ CurB \in Vector)'
<1>1. TypeOK /\ SimdTypes => CurA \in Matrix /\ CurB \in Vector
  BY Reading
<1> QED BY <1>1, PTL

(* A row operation that starts where the row added is still zero is one on *)
(* the whole row.                                                          *)
LEMMA RowReads ==
  ASSUME NEW x \in [Cols -> F], NEW y \in [Cols -> F], NEW s \in F, NEW from \in Nat,
         NEW k \in Cols, k < from => y[k] = Zero
  PROVE  /\ AddRow(x, y, from)[k] = Plus(x[k], y[k])
         /\ ScaleRow(y, s, from)[k] = Times(y[k], s)
         /\ MaddRow(x, y, s, from)[k] = Plus(x[k], Times(y[k], s))
<1>1. x[k] \in F /\ y[k] \in F /\ k \in Int
  BY DEF Cols
<1>2. CASE k >= from
  BY <1>2 DEF AddRow, ScaleRow, MaddRow
<1>3. CASE k < from
  <2>1. y[k] = Zero /\ ~ (k >= from)
    BY <1>1, <1>3
  <2>2. Times(Zero, s) = Zero /\ Plus(x[k], Zero) = x[k]
    BY <1>1, FieldLaws
  <2> QED BY <2>1, <2>2 DEF AddRow, ScaleRow, MaddRow
<1> QED BY <1>1, <1>2, <1>3

LEMMA MaddReads ==
  ASSUME NEW x \in [Cols -> F], NEW y \in [Cols -> F], NEW s \in F, NEW from \in Nat,
         NEW k \in Cols, k < from => y[k] = Zero
  PROVE  MaddRow(x, y, s, from)[k] = Plus(x[k], Times(y[k], s))
  BY RowReads

(* Where operations on pivot i start, the rows from i on are zero in front. *)
LEMMA ZeroInFront ==
  ASSUME TypeOK, SimdTypes, Front(CurA, i), NEW r \in Rows, i <= r,
         NEW k \in Cols, Offset <= k, k < Start(i)
  PROVE  mat[r][k] = Zero
<1>1. perByte \in {1, 2} /\ i \in Rows
  BY DEF TypeOK
<1>2. be # "avx2_64" /\ Start(i) = IStart(i) /\ IStart(i) <= Idx(i) /\ IStart(i) \in Nat
  <2>1. be # "avx2_64"
    BY <1>1, Layout, Sizes DEF Start, Cols
  <2> QED BY <1>1, <2>1, StartsBefore DEF Start
<1> DEFINE n == k - Offset
<1>3. n \in Rows /\ n < i /\ n < r /\ k = Offset + n
  BY <1>1, <1>2, Layout, Sizes DEF Cols, Idx, Rows
<1> HIDE DEF n
<1>4. CurA[r][n] = Zero
  BY <1>1, <1>3 DEF Front
<1>5. CurA[r][n] = mat[r][Offset + n]
  BY <1>2, <1>3 DEF CurA, Joined
<1> QED BY <1>3, <1>4, <1>5

LEMMA StartInNat == ASSUME TypeOK PROVE Start(i) \in Nat /\ Idx(i) \in Cols /\ Start(i) <= Idx(i)
  BY StartsBefore DEF TypeOK, Start, Cols

(* Repairing a pivot adds equation j to equation i. *)
RowRepaired ==
  /\ mat' = [mat EXCEPT ![i] = AddRow(mat[i], mat[j], Start(i))]
  /\ vec' = IF be = "avx2_64" /\ i = 0 THEN [vec EXCEPT ![0] = Plus(vec[0], vec[j])] ELSE vec
  /\ be' = be /\ i' = i /\ perByte' = perByte /\ phase' = phase

LEMMA RepairReads ==
  ASSUME TypeOK, SimdTypes, TypeOK', SimdTypes', j \in Rows, i < j, Front(CurA, i), RowRepaired
  PROVE  RepairOf(CurA, CurB, CurA', CurB', i, j)
<1>1. perByte \in {1, 2} /\ i \in Rows /\ mat \in [Rows -> [Cols -> F]] /\ vec \in Vector
  BY DEF TypeOK, SimdTypes
<1>2. CurA' \in Matrix /\ CurB' \in Vector
  BY ReadingNext
<1>3. Offset' = Offset /\ Joined' = Joined /\ be' = be
  BY DEF RowRepaired, Offset, Width, Joined, Forming
<1>4. i \in Nat /\ j \in Nat /\ i # j /\ j # 0 /\ i <= j /\ i <= i
  BY <1>1, Sizes DEF Rows
<1>5. ASSUME NEW r \in Rows, NEW k \in Cols, Offset <= k
      PROVE  mat'[r][k] = IF r = i THEN Plus(mat[i][k], mat[j][k]) ELSE mat[r][k]
  <2>1. CASE r = i
    <3>1. mat'[i] = AddRow(mat[i], mat[j], Start(i))
      BY <1>1 DEF RowRepaired
    <3>2. k < Start(i) => mat[j][k] = Zero
      BY <1>4, <1>5, ZeroInFront
    <3>3. mat[i] \in [Cols -> F] /\ mat[j] \in [Cols -> F] /\ Start(i) \in Nat
      BY <1>1, StartInNat
    <3>4. AddRow(mat[i], mat[j], Start(i))[k] = Plus(mat[i][k], mat[j][k])
      <4>1. Zero \in F
        BY FieldClosed
      <4> QED BY <3>2, <3>3, <4>1, RowReads
    <3> QED BY <2>1, <3>1, <3>4
  <2>2. CASE r # i
    BY <1>1, <2>2 DEF RowRepaired
  <2> QED BY <2>1, <2>2
<1>6. ASSUME NEW r \in Rows, NEW k \in Rows
      PROVE  CurA'[r][k] = IF r = i THEN Plus(CurA[i][k], CurA[j][k]) ELSE CurA[r][k]
  <2>1. CASE Joined /\ k = 0
    <3>1. CurA'[r][k] = Delta(r, 0) /\ CurA[r][k] = Delta(r, 0) /\ CurA[i][k] = Delta(i, 0)
          /\ CurA[j][k] = Delta(j, 0)
      BY <1>1, <1>3, <2>1 DEF CurA
    <3>2. Delta(j, 0) = Zero
      BY <1>4 DEF Delta
    <3>3. Plus(Delta(i, 0), Zero) = Delta(i, 0)
      BY DeltaInF, FieldLaws
    <3> QED BY <3>1, <3>2, <3>3
  <2>2. CASE ~ (Joined /\ k = 0)
    <3>1. Offset + k \in Cols /\ Offset <= Offset + k
      BY <1>1, Positions DEF Rows
    <3>2. CurA'[r][k] = mat'[r][Offset + k] /\ CurA[r][k] = mat[r][Offset + k]
          /\ CurA[i][k] = mat[i][Offset + k] /\ CurA[j][k] = mat[j][Offset + k]
      BY <1>1, <1>3, <2>2 DEF CurA
    <3> QED BY <1>5, <3>1, <3>2
  <2> QED BY <2>1, <2>2
<1>7. ASSUME NEW r \in Rows
      PROVE  CurB'[r] = IF r = i THEN Plus(CurB[i], CurB[j]) ELSE CurB[r]
  <2>1. Offset + L \in Cols /\ Offset \in Cols /\ Offset <= Offset + L /\ Offset <= Offset
    BY <1>1, Positions, Sizes
  <2>2. CASE be # "avx2_64"
    BY <1>1, <1>3, <1>5, <2>1, <2>2 DEF CurB
  <2>3. CASE be = "avx2_64" /\ Joined
    BY <1>1, <1>3, <1>5, <2>1, <2>3 DEF CurB
  <2>4. CASE be = "avx2_64" /\ ~Joined
    <3>1. i = 0
      BY <2>4 DEF Joined
    <3>2. vec' = [vec EXCEPT ![0] = Plus(vec[0], vec[j])]
      BY <2>4, <3>1 DEF RowRepaired
    <3>3. vec'[r] = IF r = 0 THEN Plus(vec[0], vec[j]) ELSE vec[r]
      BY <1>1, <3>1, <3>2 DEF Vector
    <3>4. CurB'[r] = vec'[r] /\ CurB[r] = vec[r] /\ CurB[i] = vec[i] /\ CurB[j] = vec[j]
      BY <1>1, <1>3, <2>4 DEF CurB
    <3> QED BY <3>1, <3>3, <3>4
  <2> QED BY <2>2, <2>3, <2>4
<1> QED BY <1>2, <1>6, <1>7 DEF RepairOf

(* Row i normalised and the rows below freed of its column, with col the   *)
(* copy of the column; the constants follow, in the matrix or apart.       *)
ReducedRows(m, col) ==
  LET prow == ScaleRow(m[i], Inv(col[i]), Start(i))
  IN  [r \in Rows |->
         IF r < i THEN m[r]
         ELSE IF r = i THEN prow
         ELSE MaddRow(m[r], prow, col[r], Start(i))]
ReducedVec(v, col) ==
  LET pvec == Times(v[i], Inv(col[i]))
  IN  [r \in Rows |-> IF r = 0 THEN pvec ELSE Plus(v[r], Times(pvec, col[r]))]

RowsReduced(col) ==
  /\ IF be = "avx2_64" /\ i = 0
     THEN mat' = Merged(ReducedRows(mat, col), ReducedVec(vec, col))
     ELSE mat' = ReducedRows(mat, col)
  /\ be' = be /\ perByte' = perByte
  /\ be = "avx2_64" => Joined'

LEMMA ReducedEntries ==
  ASSUME TypeOK, SimdTypes, Front(CurA, i), NEW col, col[i] \in F,
         \A r \in Rows : i <= r => col[r] \in F,
         NEW r \in Rows, NEW k \in Cols, Offset <= k
  PROVE  LET p == Times(mat[i][k], Inv(col[i]))
         IN  ReducedRows(mat, col)[r][k] =
               IF r < i THEN mat[r][k] ELSE IF r = i THEN p ELSE Plus(mat[r][k], Times(p, col[r]))
<1> DEFINE s == Inv(col[i])
           prow == ScaleRow(mat[i], s, Start(i))
<1>1. i \in Rows /\ i \in Nat /\ i <= i /\ mat[i] \in [Cols -> F] /\ mat[r] \in [Cols -> F] /\ s \in F
      /\ Start(i) \in Nat /\ r \in Nat
  BY Sizes, StartInNat, FieldClosed DEF TypeOK, Rows
<1>2. k < Start(i) => mat[i][k] = Zero
  BY <1>1, ZeroInFront
<1>3. prow[k] = Times(mat[i][k], s)
  BY <1>1, <1>2, RowReads
<1>4. prow \in [Cols -> F]
  BY <1>1, RowsClosed
<1>5. k < Start(i) => prow[k] = Zero
  BY <1>1, <1>2, <1>3, FieldLaws
<1> HIDE DEF prow, s
<1>6. i < r => MaddRow(mat[r], prow, col[r], Start(i))[k] = Plus(mat[r][k], Times(prow[k], col[r]))
  <2>1. ASSUME NEW t \in F
        PROVE  MaddRow(mat[r], prow, t, Start(i))[k] = Plus(mat[r][k], Times(prow[k], t))
    BY <1>1, <1>4, <1>5, MaddReads
  <2>2. i < r => col[r] \in F
    BY <1>1
  <2> QED BY <2>1, <2>2
<1>7. ReducedRows(mat, col)[r] = IF r < i THEN mat[r] ELSE IF r = i THEN prow
                                 ELSE MaddRow(mat[r], prow, col[r], Start(i))
  BY DEF ReducedRows, prow, s
<1>8. r < i \/ r = i \/ i < r
  BY <1>1
<1> QED BY <1>1, <1>3, <1>6, <1>7, <1>8 DEF s

LEMMA ReduceReads ==
  ASSUME TypeOK, SimdTypes, TypeOK', SimdTypes', be = "avx2_64" => Forming, Front(CurA, i),
         NEW col, \A r \in Rows : i <= r => col[r] = mat[r][Idx(i)], mat[i][Idx(i)] # Zero,
         RowsReduced(col)
  PROVE  ReduceOf(CurA, CurB, CurA', CurB', i)
<1>1. perByte \in {1, 2} /\ i \in Rows /\ mat \in [Rows -> [Cols -> F]] /\ vec \in Vector
  BY DEF TypeOK, SimdTypes
<1>2. CurA' \in Matrix /\ CurB' \in Vector /\ CurA \in Matrix /\ CurB \in Vector
  BY Reading, ReadingNext
<1>3. Offset' = Offset /\ be' = be /\ (be = "avx2_64" => Joined') /\ (be # "avx2_64" => ~Joined /\ ~Joined')
  BY DEF RowsReduced, Offset, Width, Joined
<1>4. i \in Nat /\ i <= i /\ ~ (i < i) /\ (\A r \in Rows : r \in Nat) /\ Idx(i) \in Cols
  BY <1>1, Sizes, StartInNat DEF Rows
<1>5. \A r \in Rows : i <= r => CurA[r][i] = col[r] /\ col[r] \in F
  <2>1. ~ (Joined /\ i = 0)
    BY DEF Joined
  <2>2. \A r \in Rows : CurA[r][i] = mat[r][Offset + i]
    BY <1>1, <2>1 DEF CurA
  <2>3. \A r \in Rows : mat[r][Idx(i)] \in F
    BY <1>1, <1>4
  <2> QED BY <2>2, <2>3 DEF Idx
<1>6. col[i] \in F /\ col[i] # Zero /\ Inv(col[i]) \in F /\ col[i] = CurA[i][i]
  BY <1>1, <1>4, <1>5, FieldClosed
<1> DEFINE s == Inv(col[i])
           New(r, x, y) == IF r < i THEN y ELSE IF r = i THEN Times(x, s)
                           ELSE Plus(y, Times(Times(x, s), col[r]))
           rows == ReducedRows(mat, col)
<1>7. ASSUME NEW r \in Rows, NEW k \in Cols, Offset <= k
      PROVE  rows[r][k] = New(r, mat[i][k], mat[r][k])
  BY <1>5, <1>6, <1>7, ReducedEntries
<1>8. \A k \in Rows : Offset + k \in Cols /\ Offset <= Offset + k
  BY <1>1, Positions DEF Rows
<1>9. Offset + L \in Cols /\ Offset \in Cols /\ Offset <= Offset + L /\ Offset <= Offset /\ 0 \in Rows
  BY <1>1, Positions, Sizes
<1> HIDE DEF s, rows
<1>a. \A r \in Rows : rows[r] \in [Cols -> F]
  <2>1. ASSUME NEW r \in Rows PROVE ReducedRows(mat, col)[r] \in [Cols -> F]
    <3>1. mat[i] \in [Cols -> F] /\ mat[r] \in [Cols -> F] /\ Start(i) \in Nat
      BY <1>1, StartInNat
    <3>2. ScaleRow(mat[i], Inv(col[i]), Start(i)) \in [Cols -> F]
      BY <1>6, <3>1, RowsClosed
    <3>3. i <= r => MaddRow(mat[r], ScaleRow(mat[i], Inv(col[i]), Start(i)), col[r], Start(i)) \in [Cols -> F]
      BY <1>5, <3>1, <3>2, RowsClosed
    <3>4. ~ (r < i) => i <= r
      BY <1>4
    <3> QED BY <3>1, <3>2, <3>3, <3>4 DEF ReducedRows
  <2> QED BY <2>1 DEF rows
<1>b. ~ (be = "avx2_64" /\ i = 0) => mat' = rows
  BY DEF RowsReduced, rows
<1>c. ASSUME be = "avx2_64", i = 0
      PROVE  /\ ~Joined /\ Joined'
             /\ \A r \in Rows : mat[r][Offset] = col[r] /\ rows[r][Offset] = Delta(r, 0)
             /\ \A r \in Rows : New(r, col[0], col[r]) = Delta(r, 0)
             /\ \A r \in Rows : mat'[r][Offset] = New(r, vec[0], vec[r])
             /\ \A r \in Rows, k \in Cols : k # Offset => mat'[r][k] = rows[r][k]
  <2>1. ~Joined /\ Joined'
    BY <1>3, <1>c DEF Joined
  <2>2. \A r \in Rows : mat[r][Offset] = col[r]
    <3>1. Idx(i) = Offset /\ \A r \in Rows : i <= r
      BY <1>1, <1>c, Positions, Sizes DEF Idx, Rows
    <3> QED BY <3>1
  <2>3. \A r \in Rows : New(r, col[0], col[r]) = Delta(r, 0)
    <3>1. TAKE r \in Rows
    <3>2. ~ (r < i) /\ col[r] \in F
      BY <1>4, <1>5, <1>c, Sizes DEF Rows
    <3>3. Times(col[0], s) = One
      BY <1>6, <1>c, FieldLaws DEF s
    <3>4. Plus(col[r], Times(One, col[r])) = Zero
      BY <3>2, FieldLaws
    <3> QED BY <1>c, <3>2, <3>3, <3>4 DEF Delta
  <2>4. \A r \in Rows : rows[r][Offset] = Delta(r, 0)
    <3>1. TAKE r \in Rows
    <3>2. rows[r][Offset] = New(r, mat[i][Offset], mat[r][Offset])
      BY <1>7, <1>9
    <3> QED BY <1>1, <1>c, <2>2, <2>3, <3>2
  <2>5. mat' = Merged(rows, ReducedVec(vec, col))
    BY <1>c DEF RowsReduced, rows
  <2>6. \A r \in Rows : ReducedVec(vec, col)[r] = New(r, vec[0], vec[r])
    <3>1. TAKE r \in Rows
    <3>2. ~ (r < i)
      BY <1>4, <1>c, Sizes DEF Rows
    <3> QED BY <1>c, <3>2 DEF ReducedVec, s
  <2>7. \A r \in Rows : New(r, vec[0], vec[r]) \in F
    <3>1. TAKE r \in Rows
    <3>2. ~ (r < i) /\ i <= r
      BY <1>4, <1>c, Sizes DEF Rows
    <3>3. vec[r] \in F /\ vec[0] \in F /\ col[r] \in F /\ s \in F
      BY <1>1, <1>5, <1>6, <1>9, <3>2 DEF Vector, s
    <3>4. Times(vec[0], s) \in F
      BY <3>3, Closed
    <3>5. Times(Times(vec[0], s), col[r]) \in F
      BY <3>3, <3>4, Closed
    <3> QED BY <3>2, <3>3, <3>4, <3>5, Closed
  <2> HIDE DEF New
  <2>8. \A r \in Rows : mat'[r] = [rows[r] EXCEPT ![Offset] =
                          Plus(IF r = 0 THEN Plus(rows[0][Offset], One) ELSE rows[r][Offset], New(r, vec[0], vec[r]))]
    BY <2>5, <2>6 DEF Merged
  <2>9. \A r \in Rows : mat'[r][Offset] = New(r, vec[0], vec[r])
    <3>1. TAKE r \in Rows
    <3>2. mat'[r][Offset] = Plus(IF r = 0 THEN Plus(rows[0][Offset], One) ELSE rows[r][Offset], New(r, vec[0], vec[r]))
      BY <1>9, <1>a, <2>8
    <3>3. (IF r = 0 THEN Plus(rows[0][Offset], One) ELSE rows[r][Offset]) = Zero
      BY <1>9, <2>4, FieldClosed, FieldLaws DEF Delta
    <3> QED BY <2>7, <3>2, <3>3, FieldLaws
  <2>10. \A r \in Rows, k \in Cols : k # Offset => mat'[r][k] = rows[r][k]
    BY <1>a, <2>8
  <2> QED BY <2>1, <2>2, <2>3, <2>4, <2>9, <2>10
<1>10. ASSUME NEW r \in Rows, NEW k \in Rows
       PROVE  CurA'[r][k] = New(r, CurA[i][k], CurA[r][k])
  <2>1. CASE be = "avx2_64" /\ i = 0 /\ k = 0
    <3>1. CurA'[r][k] = Delta(r, 0)
      BY <1>c, <2>1 DEF CurA
    <3>2. CurA[i][k] = col[0] /\ CurA[r][k] = col[r]
      BY <1>4, <1>5, <2>1, Sizes DEF Rows
    <3> HIDE DEF New
    <3> QED BY <1>c, <2>1, <3>1, <3>2
  <2>2. CASE Joined /\ k = 0
    <3>1. CurA'[r][k] = Delta(r, 0) /\ CurA[r][k] = Delta(r, 0) /\ CurA[i][k] = Delta(i, 0)
      BY <1>1, <1>3, <2>2 DEF CurA
    <3>2. i # 0
      BY <2>2 DEF Joined
    <3>3. Delta(i, 0) = Zero /\ Times(Zero, s) = Zero /\ Delta(r, 0) \in F
      BY <1>6, <3>2, DeltaInF, FieldLaws DEF Delta, s
    <3>4. i <= r => Plus(Delta(r, 0), Times(Zero, col[r])) = Delta(r, 0)
      BY <1>5, <3>3, FieldLaws
    <3>5. ~ (r < i) => i <= r
      BY <1>4
    <3> QED BY <3>1, <3>3, <3>4, <3>5
  <2>3. CASE k # 0 \/ be # "avx2_64"
    <3>1. CurA[r][k] = mat[r][Offset + k] /\ CurA[i][k] = mat[i][Offset + k] /\ CurA'[r][k] = mat'[r][Offset + k]
      BY <1>1, <1>3, <2>3 DEF CurA
    <3>2. mat'[r][Offset + k] = rows[r][Offset + k]
      <4>1. CASE be = "avx2_64" /\ i = 0
        <5>1. Offset + k # Offset
          BY <1>1, <1>4, <2>3, <4>1, Positions
        <5> QED BY <1>8, <1>c, <4>1, <5>1
      <4> QED BY <1>b, <4>1
    <3> HIDE DEF New
    <3> QED BY <1>7, <1>8, <3>1, <3>2
  <2> QED BY <2>1, <2>2, <2>3 DEF Joined
<1>11. ASSUME NEW r \in Rows
       PROVE  CurB'[r] = New(r, CurB[i], CurB[r])
  <2> HIDE DEF New
  <2>1. CASE be # "avx2_64"
    <3>1. CurB[r] = mat[r][Offset + L] /\ CurB[i] = mat[i][Offset + L] /\ CurB'[r] = mat'[r][Offset + L]
      BY <1>1, <1>3, <2>1 DEF CurB
    <3> QED BY <1>7, <1>9, <1>b, <2>1, <3>1
  <2>2. CASE be = "avx2_64" /\ i # 0
    <3>1. CurB[r] = mat[r][Offset] /\ CurB[i] = mat[i][Offset] /\ CurB'[r] = mat'[r][Offset]
      BY <1>1, <1>3, <2>2 DEF CurB, Joined
    <3> QED BY <1>7, <1>9, <1>b, <2>2, <3>1
  <2>3. CASE be = "avx2_64" /\ i = 0
    <3>1. CurB[r] = vec[r] /\ CurB[i] = vec[0] /\ CurB'[r] = mat'[r][Offset]
      BY <1>1, <1>3, <1>c, <2>3 DEF CurB
    <3> QED BY <1>c, <2>3, <3>1
  <2> QED BY <2>1, <2>2, <2>3
<1>12. ASSUME NEW r \in Rows, NEW x, NEW y
       PROVE  New(r, x, y) = IF r < i THEN y ELSE IF r = i THEN Times(x, Inv(CurA[i][i]))
                             ELSE Plus(y, Times(Times(x, Inv(CurA[i][i])), CurA[r][i]))
  <2>1. ~ (r < i) => CurA[r][i] = col[r]
    BY <1>4, <1>5
  <2> QED BY <1>6, <2>1 DEF s
<1> HIDE DEF New
<1>13. \A r \in Rows : /\ CurB'[r] = New(r, CurB[i], CurB[r])
                       /\ \A k \in Rows : CurA'[r][k] = New(r, CurA[i][k], CurA[r][k])
  BY <1>10, <1>11
<1> QED
  <2>1. ASSUME NEW r \in Rows
        PROVE  /\ CurB'[r] = IF r < i THEN CurB[r] ELSE IF r = i THEN Times(CurB[i], Inv(CurA[i][i]))
                             ELSE Plus(CurB[r], Times(Times(CurB[i], Inv(CurA[i][i])), CurA[r][i]))
               /\ \A k \in Rows :
                    CurA'[r][k] = IF r < i THEN CurA[r][k] ELSE IF r = i THEN Times(CurA[i][k], Inv(CurA[i][i]))
                             ELSE Plus(CurA[r][k], Times(Times(CurA[i][k], Inv(CurA[i][i])), CurA[r][i]))
    BY <1>12, <1>13
  <2> QED BY <1>2, <2>1 DEF ReduceOf

-----------------------------------------------------------------------------
(* Types, for the steps of the other back ends. *)
LEMMA NoReferenceStep ==
  ASSUME TypeOK', pc' \in {"load", "solved", "singular"}
  PROVE  IInv'
  BY DEF IInv, Below, Echelon, Stored, OnlyAddsZeros

LEMMA VectorIs == Vector = [Rows -> F]
  BY DEF Vector

LEMMA SimdLoadTypes ==
  ASSUME TypeOK, SimdTypes, SimdLoad
  PROVE  TypeOK' /\ SimdTypes'
<1>1. /\ steps' = steps /\ perByte' = perByte /\ transposed' = transposed /\ be' = be /\ junk' = junk
      /\ pc' = pc /\ a' = a /\ c' = c /\ column' = column /\ temp' = temp /\ a0' = a0 /\ c0' = c0
      /\ pivots' = pivots /\ i' = 0 /\ j' = 1 /\ r8' = 1
  BY DEF SimdLoad, fixed
<1>2. Cols' = Cols /\ perByte \in {1, 2} /\ Offset \in Nat
  BY <1>1, Layout DEF Cols, Width, TypeOK
<1>3. mat' \in [Rows -> [Cols -> F]]
  <2>1. ASSUME NEW r \in Rows, NEW k \in Cols, ~ (k < Offset), k < Offset + L
        PROVE  Entry(r, k - Offset) \in F
    <3>1. k - Offset \in 0 .. L - 1 /\ r \in 0 .. L - 1
      BY <1>2, <2>1, Sizes DEF Cols, Rows
    <3>2. ((k - Offset) * L) + r \in 0 .. (L * L) - 1
      BY <3>1, Sizes, FlatIndex
    <3> QED BY <3>2 DEF Entry, TypeOK
  <2>2. Zero \in F /\ junk \in F /\ \A r \in Rows : c[r] \in F
    BY FieldClosed DEF TypeOK, SimdTypes
  <2> QED BY <2>1, <2>2 DEF SimdLoad
<1>4. vec' \in Vector
  BY VectorIs DEF SimdLoad, SimdTypes, TypeOK
<1>5. 0 \in Rows /\ 1 \in 0 .. L
  BY Sizes DEF Rows
<1>6. phase' \in {"repair", "column"}
  BY DEF SimdLoad
<1>7. TypeOK'
  BY <1>1, <1>2, <1>3, <1>5 DEF TypeOK
<1> QED BY <1>1, <1>4, <1>6, <1>7 DEF SimdTypes

LEMMA CopyTypes ==
  ASSUME TypeOK, SimdTypes, CopyColumn
  PROVE  TypeOK' /\ SimdTypes'
<1>1. pivots' \in Vector
  <2>1. \A r \in Rows : mat[r][Idx(i)] \in F /\ pivots[r] \in F
    BY StartInNat, VectorIs DEF TypeOK, SimdTypes
  <2> QED BY <2>1, VectorIs DEF CopyColumn
<1>2. TypeOK'
  BY DEF CopyColumn, vars, TypeOK, Cols, Width
<1> QED BY <1>1, <1>2 DEF CopyColumn, SimdTypes, vars

LEMMA RepairTypes ==
  ASSUME TypeOK, SimdTypes, PInv, Repair
  PROVE  TypeOK' /\ SimdTypes' /\ j \in Rows
<1>1. /\ steps' = steps /\ perByte' = perByte /\ transposed' = transposed /\ be' = be /\ junk' = junk
      /\ pc' = pc /\ a' = a /\ c' = c /\ column' = column /\ temp' = temp /\ a0' = a0 /\ c0' = c0
      /\ i' = i /\ j' = j + 1 /\ r8' = r8 /\ phase' = phase
  BY DEF Repair, fixed
<1>2. Cols' = Cols
  BY <1>1 DEF Cols, Width
<1>3. j \in Rows /\ j' \in 0 .. L /\ i \in Rows /\ 0 \in Rows
  <2>1. Stop(i) \in 0 .. L /\ j < Stop(i) /\ j \in 0 .. L
    BY StopBound DEF Repair, TypeOK
  <2> QED BY <1>1, <2>1, Sizes DEF Rows, TypeOK
<1>4. mat' \in [Rows -> [Cols -> F]]
  <2>1. AddRow(mat[i], mat[j], Start(i)) \in [Cols -> F]
    BY <1>3, StartInNat, RowsClosed, FieldClosed DEF TypeOK
  <2> QED BY <1>3, <2>1 DEF Repair, TypeOK
<1>5. pivots' \in Vector /\ vec' \in Vector
  <2>1. \A r \in Rows : pivots[r] \in F /\ vec[r] \in F
    BY VectorIs DEF SimdTypes
  <2>2. Plus(pivots[i], pivots[j]) \in F /\ Plus(vec[0], vec[j]) \in F
    BY <1>3, <2>1, Closed
  <2> QED BY <1>3, <2>2, VectorIs DEF Repair, Follows, SimdTypes
<1>6. TypeOK'
  BY <1>1, <1>2, <1>3, <1>4 DEF TypeOK
<1> QED BY <1>1, <1>3, <1>5, <1>6 DEF SimdTypes

LEMMA EndTypes ==
  ASSUME TypeOK, SimdTypes, EndRepair
  PROVE  TypeOK' /\ SimdTypes'
  BY DEF EndRepair, vars, TypeOK, SimdTypes, Cols, Width

LEMMA ReduceTypes ==
  ASSUME TypeOK, SimdTypes, PInv, SimdReduce
  PROVE  TypeOK' /\ SimdTypes'
<1> DEFINE s == Inv(pivots[i])
           prow == ScaleRow(mat[i], s, Start(i))
           rows == [r \in Rows |->
                      IF r < i THEN mat[r]
                      ELSE IF r = i THEN prow
                      ELSE MaddRow(mat[r], prow, pivots[r], Start(i))]
           pvec == Times(vec[i], s)
           consts == [r \in Rows |-> IF r = 0 THEN pvec ELSE Plus(vec[r], Times(pvec, pivots[r]))]
<1>1. /\ steps' = steps /\ perByte' = perByte /\ transposed' = transposed /\ be' = be /\ junk' = junk
      /\ pc' = pc /\ a' = a /\ c' = c /\ column' = column /\ temp' = temp /\ a0' = a0 /\ c0' = c0
      /\ pivots' = [pivots EXCEPT ![i] = s] /\ r8' = Flag(pivots[i])
      /\ \/ i < L - 1 /\ i' = i + 1 /\ j' = i + 2 /\ phase' = IF CopiesLate THEN "repair" ELSE "column"
         \/ i = L - 1 /\ phase' = "store" /\ i' = i /\ j' = j
  BY DEF SimdReduce, fixed
<1>2. IF be = "avx2_64" /\ i = 0 THEN vec' = consts /\ mat' = Merged(rows, consts) ELSE vec' = vec /\ mat' = rows
  BY DEF SimdReduce
<1>3. Cols' = Cols /\ perByte \in {1, 2} /\ Offset \in Cols
  BY <1>1, Positions DEF Cols, Width, TypeOK
<1>4. i \in Rows /\ i' \in Rows /\ j' \in 0 .. L
  BY <1>1, Sizes DEF TypeOK, Rows
<1>5. \A r \in Rows : mat[r] \in [Cols -> F] /\ pivots[r] \in F /\ vec[r] \in F
  BY VectorIs DEF TypeOK, SimdTypes
<1>6. s \in F
  BY <1>4, <1>5, FieldClosed
<1>7. rows \in [Rows -> [Cols -> F]]
  <2>1. prow \in [Cols -> F]
    BY <1>4, <1>5, <1>6, StartInNat, RowsClosed
  <2> HIDE DEF prow
  <2>2. \A r \in Rows : MaddRow(mat[r], prow, pivots[r], Start(i)) \in [Cols -> F]
    <3>1. TAKE r \in Rows
    <3>2. Start(i) \in Nat
      BY StartInNat
    <3> QED BY <1>5, <2>1, <3>2, RowsClosed
  <2> QED BY <1>5, <2>1, <2>2
<1>8. consts \in [Rows -> F]
  <2>1. pvec \in F
    BY <1>4, <1>5, <1>6, Closed
  <2> HIDE DEF pvec
  <2>2. \A r \in Rows : Plus(vec[r], Times(pvec, pivots[r])) \in F
    BY <1>5, <2>1, Closed
  <2> QED BY <2>1, <2>2
<1> HIDE DEF rows, consts
<1>9. Merged(rows, consts) \in [Rows -> [Cols -> F]]
  <2>1. \A r \in Rows : Plus(IF r = 0 THEN Plus(rows[0][Offset], One) ELSE rows[r][Offset], consts[r]) \in F
    <3>1. TAKE r \in Rows
    <3>2. 0 \in Rows
      BY Sizes DEF Rows
    <3>3. rows[0][Offset] \in F /\ rows[r][Offset] \in F /\ consts[r] \in F
      BY <1>3, <1>7, <1>8, <3>2
    <3>4. Plus(rows[0][Offset], One) \in F
      BY <3>3, FieldClosed
    <3>5. Plus(Plus(rows[0][Offset], One), consts[r]) \in F /\ Plus(rows[r][Offset], consts[r]) \in F
      BY <3>3, <3>4, Closed
    <3> QED BY <3>5
  <2> QED BY <1>7, <2>1 DEF Merged
<1>10. mat' \in [Rows -> [Cols -> F]] /\ vec' \in Vector
  BY <1>2, <1>7, <1>8, <1>9, VectorIs DEF SimdTypes
<1>11. pivots' \in Vector
  BY <1>1, <1>6, VectorIs DEF SimdTypes
<1>12. r8' \in {0, 1}
  BY <1>1 DEF Flag, TypeOK
<1>13. TypeOK'
  BY <1>1, <1>3, <1>4, <1>10, <1>12 DEF TypeOK
<1>14. phase' \in {"repair", "column", "store"}
  BY <1>1
<1> QED BY <1>1, <1>10, <1>11, <1>13, <1>14 DEF SimdTypes

LEMMA StoreTypes ==
  ASSUME TypeOK, SimdTypes, PInv, SimdStore
  PROVE  TypeOK' /\ SimdTypes' /\ pc' \in {"load", "singular"}
<1>1. /\ steps' = steps /\ perByte' = perByte /\ transposed' = transposed /\ be' = be /\ junk' = junk
      /\ mat' = mat /\ column' = column /\ temp' = temp /\ a0' = a0 /\ c0' = c0
      /\ i' = i /\ j' = j /\ r8' = r8 /\ pivots' = pivots /\ vec' = vec
      /\ phase' \in {"back", "off"} /\ pc' \in {pc, "singular"}
  BY DEF SimdStore, fixed
<1>2. pc = "load"
  BY DEF SimdStore, PInv, Busy
<1>3. Cols' = Cols /\ perByte \in {1, 2}
  BY <1>1 DEF Cols, Width, TypeOK
<1>4. a' \in [0 .. (L * L) - 1 -> F]
  <2>1. ASSUME NEW k \in 0 .. (L * L) - 1 PROVE mat[k \div L][Offset + (k % L)] \in F
    <3>1. k \div L \in Rows /\ k % L \in Rows
      BY Sizes, FlatParts DEF Rows
    <3> QED BY <1>3, <3>1, Positions DEF TypeOK
  <2> QED BY <2>1 DEF SimdStore
<1>5. c' \in [Rows -> F]
  BY <1>3, Positions DEF SimdStore, TypeOK
<1>6. TypeOK'
  BY <1>1, <1>2, <1>3, <1>4, <1>5 DEF TypeOK
<1> QED BY <1>1, <1>2, <1>6 DEF SimdTypes

LEMMA BackTypes ==
  ASSUME TypeOK, SimdTypes, PInv, SimdBackLoad \/ SimdSubstitute \/ SimdBackStore
  PROVE  TypeOK' /\ SimdTypes' /\ pc' \in {"load", "solved"}
<1>0. pc = "load"
  BY DEF SimdBackLoad, SimdSubstitute, SimdBackStore, PInv, Busy
<1>1. DOMAIN ZeroBuf = 0 .. (L + Unit) - 1 /\ Rows \subseteq 0 .. (L + Unit) - 1
  BY Sizes DEF ZeroBuf, Rows
<1>2. ASSUME NEW k \in Rows, NEW n \in Rows PROVE a[(k * L) + n] \in F
  <2>1. (k * L) + n \in 0 .. (L * L) - 1
    BY Sizes, FlatIndex DEF Rows
  <2> QED BY <2>1 DEF TypeOK
<1>3. 0 \in Rows /\ L - 1 \in Rows
  BY Sizes DEF Rows
<1>4. CASE SimdBackLoad
  <2>1. \A k \in Rows : a[k * L] \in F
    <3>1. TAKE k \in Rows
    <3>2. (k * L) + 0 = k * L
      BY Sizes DEF Rows
    <3> QED BY <1>2, <1>3, <3>2
  <2>2. temp' \in [0 .. (L + Unit) - 1 -> F]
    <3>1. \A k \in 0 .. (L + Unit) - 1 : ~ (k >= L) => k \in Rows
      BY Sizes DEF Rows
    <3> QED BY <1>1, <1>4, <2>1, <3>1 DEF SimdBackLoad, TypeOK, SimdTypes
  <2>3. column' \in [0 .. (L + Unit) - 1 -> F]
    BY <1>4, FieldClosed DEF SimdBackLoad, ZeroBuf
  <2> QED BY <1>0, <1>3, <1>4, <2>2, <2>3 DEF SimdBackLoad, fixed, TypeOK, SimdTypes, Cols, Width
<1>5. CASE SimdSubstitute
  <2>1. i \in Rows /\ i - 1 \in Rows
    BY <1>5, Sizes DEF SimdSubstitute, TypeOK, Rows
  <2>2. column' \in [0 .. (L + Unit) - 1 -> F]
    <3>1. ASSUME NEW k \in 0 .. (L + Unit) - 1, k < i \/ k < L PROVE a[(k * L) + i] \in F
      <4>1. k \in Rows
        BY <2>1, <3>1, Sizes DEF Rows
      <4> QED BY <1>2, <2>1, <4>1
    <3>2. SimdColumn(i) \in [0 .. (L + Unit) - 1 -> F]
      BY <1>1, <3>1, FieldClosed DEF SimdColumn, TypeOK
    <3> QED BY <1>5, <3>2 DEF SimdSubstitute
  <2>3. temp' \in [0 .. (L + Unit) - 1 -> F]
    <3>1. \A k \in 0 .. (L + Unit) - 1 : Plus(temp[k], Times(column'[k], temp[i])) \in F /\ temp[k] \in F
      BY <1>1, <2>1, <2>2, FieldClosed DEF TypeOK
    <3> QED BY <1>1, <1>5, <3>1 DEF SimdSubstitute
  <2> QED BY <1>0, <1>5, <2>1, <2>2, <2>3 DEF SimdSubstitute, fixed, TypeOK, SimdTypes, Cols, Width
<1>6. CASE SimdBackStore
  <2>1. c' \in [Rows -> F]
    BY <1>1, <1>6 DEF SimdBackStore, TypeOK
  <2> QED BY <1>6, <2>1 DEF SimdBackStore, fixed, TypeOK, SimdTypes, Cols, Width
<1> QED BY <1>4, <1>5, <1>6

ReferenceSteps ==
  \/ Call /\ UNCHANGED simd
  \/ be = "ref" /\ (Load \/ CondAdd \/ Reduce \/ Store \/ BackLoad \/ Substitute \/ BackStore) /\ UNCHANGED simd
  \/ Return /\ pivots' = Zeros /\ vec' = Zeros /\ UNCHANGED <<be, phase, junk>>

LEMMA AllTypeStep ==
  ASSUME IInv, SimdTypes, PInv, [AllNext]_allvars
  PROVE  IInv' /\ SimdTypes'
<1>0. TypeOK
  BY DEF IInv
<1>1. CASE ReferenceSteps \/ UNCHANGED allvars
  <2>1. [Next]_vars
    BY <1>1 DEF ReferenceSteps, Next, allvars
  <2>2. IInv'
    BY <2>1, TypeStep, EchelonStep, StoredStep, OnlyAddsZerosStep DEF IInv
  <2>3. perByte' = perByte /\ transposed' = transposed
    BY <2>1 DEF Next, vars, Call, Load, CondAdd, Reduce, Store, BackLoad, Substitute, BackStore, Return
  <2>4. Zeros \in Vector
    BY FieldClosed DEF Zeros, Vector
  <2>5. /\ be' = be /\ phase' = phase /\ junk' = junk
        /\ pivots' = pivots \/ pivots' = Zeros
        /\ vec' = vec \/ vec' = Zeros
    BY <1>1 DEF ReferenceSteps, simd, allvars
  <2> QED BY <2>2, <2>3, <2>4, <2>5 DEF SimdTypes
<1>2. CASE SimdLoad \/ CopyColumn \/ Repair \/ EndRepair \/ SimdReduce
  <2>1. TypeOK' /\ SimdTypes'
    BY <1>0, <1>2, SimdLoadTypes, CopyTypes, RepairTypes, EndTypes, ReduceTypes
  <2>2. pc' = "load"
    BY <1>2 DEF PInv, Busy, SimdLoad, CopyColumn, Repair, EndRepair, SimdReduce, vars
  <2> QED BY <2>1, <2>2, NoReferenceStep
<1>3. CASE SimdStore \/ SimdBackLoad \/ SimdSubstitute \/ SimdBackStore
  BY <1>0, <1>3, StoreTypes, BackTypes, NoReferenceStep
<1> QED BY <1>1, <1>2, <1>3, Disjuncts DEF AllNext, ReferenceSteps

-----------------------------------------------------------------------------
(* What is left to solve: the buffers hold the call's system until it is   *)
(* loaded; the rows hold one with its solutions as long as no pivot was    *)
(* zero, and a pivot still zero is zero in every row looked at; with no    *)
(* early stop the flag is only lost to a singular matrix.                  *)
Fresh == pc = "load" /\ phase = "off" => a = a0 /\ c = c0
Tried == phase = "reduce" \/ (CopiesLate /\ phase = "column") => ~ (j < Stop(i))
Mid == r8 = 1 /\ Eliminating => Front(CurA, i) /\ Same(CurA, CurB) /\ Looked(CurA, i, j)
End == r8 = 1 /\ Eliminated => Front(CurA, L) /\ Same(CurA, CurB)
Lost == steps >= L /\ ((r8 = 0 /\ (Eliminating \/ Eliminated)) \/ pc = "singular") => Singular

(* Back substitution: the unknowns after p are known. *)
BackA(p) ==
  [r \in Rows |-> [k \in Rows |->
     IF k > p \/ (be = "avx2_64" /\ k = 0) THEN Delta(r, k) ELSE a[(r * L) + k]]]
BackB == [r \in Rows |-> IF be = "avx2_64" THEN a[r * L] ELSE c[r]]
BackT == [r \in Rows |-> temp[r]]
AtBack == pc = "back" \/ phase = "back"
BackReady == AtBack => Front(BackA(L - 1), L) /\ Sol(BackA(L - 1), BackB) = Solutions
BackRunning ==
  Substituting =>
    /\ Front(BackA(L - 1), L)
    /\ Sol(BackA(i), BackT) = Solutions
    /\ \A k \in Rows : k > i => column[k] = Zero

Solving ==
  Fresh /\ Tried /\ Mid /\ End /\ Lost /\ BackReady /\ BackRunning /\ Solves

LEMMA PivotRead ==
  ASSUME TypeOK, be = "avx2_64" => Forming, NEW r \in Rows
  PROVE  CurA[r][i] = mat[r][Idx(i)]
<1>1. i \in Rows
  BY DEF TypeOK
<1>2. ~ (Joined /\ i = 0)
  BY DEF Joined
<1> QED BY <1>1, <1>2 DEF CurA, Idx

LEMMA RepairMid ==
  ASSUME TypeOK, SimdTypes, TypeOK', SimdTypes', Mid, Eliminating, j \in Rows, i < j,
         a0' = a0, c0' = c0, r8' = r8, pc' = pc, phase' = phase, be' = be, perByte' = perByte,
         i' = i, j' = j + 1,
         \/ CurA[i][i] = Zero /\ RowRepaired
         \/ CurA[i][i] # Zero /\ mat' = mat /\ vec' = vec
  PROVE  Mid'
<1>1. SUFFICES ASSUME r8 = 1
               PROVE  Front(CurA', i) /\ Same(CurA', CurB') /\ Looked(CurA', i, j + 1)
  BY DEF Mid, Same, Solutions, Given
<1>2. Front(CurA, i) /\ Same(CurA, CurB) /\ Looked(CurA, i, j)
  BY <1>1 DEF Mid
<1>3. CurA \in Matrix /\ CurB \in Vector /\ i \in Rows
  BY Reading DEF TypeOK
<1>4. CASE CurA[i][i] = Zero /\ RowRepaired
  <2>1. RepairOf(CurA, CurB, CurA', CurB', i, j)
    BY <1>2, <1>4, RepairReads
  <2> QED BY <1>2, <1>3, <1>4, <2>1, RepairKeeps
<1>5. CASE CurA[i][i] # Zero /\ mat' = mat /\ vec' = vec
  <2>1. CurA' = CurA /\ CurB' = CurB
    BY <1>5 DEF CurA, CurB, Joined, Forming, Offset, Width
  <2> QED BY <1>2, <1>5, <2>1 DEF Looked
<1> QED BY <1>4, <1>5

LEMMA ReduceSolving ==
  ASSUME TypeOK, SimdTypes, TypeOK', SimdTypes', Mid, Lost, Eliminating,
         be = "avx2_64" => Forming, ~ (j < Stop(i)),
         a0' = a0, c0' = c0, steps' = steps,
         NEW col, \A r \in Rows : i <= r => col[r] = mat[r][Idx(i)], RowsReduced(col),
         r8' = Flag(mat[i][Idx(i)]),
         \/ i < L - 1 /\ i' = i + 1 /\ j' = i + 2 /\ ~Eliminated'
         \/ i = L - 1 /\ ~Eliminating',
         pc' # "singular"
  PROVE  Mid' /\ End' /\ Lost'
<1>1. i \in Rows /\ i \in Nat /\ j \in 0 .. L /\ CurA \in Matrix /\ CurB \in Vector
      /\ CurA[i][i] = mat[i][Idx(i)] /\ r8 \in {0, 1} /\ steps \in Nat /\ L \in Nat
  BY Sizes, Reading, PivotRead DEF TypeOK, Rows
<1>2. Singular' <=> Singular
  BY DEF Singular
<1>3. CASE r8 = 0
  <2>1. r8' = 0
    BY <1>3 DEF Flag
  <2>2. Mid' /\ End'
    BY <2>1 DEF Mid, End
  <2> QED BY <1>2, <1>3, <2>1, <2>2 DEF Lost
<1>4. CASE r8 = 1 /\ mat[i][Idx(i)] = Zero
  <2>1. r8' = 0
    BY <1>4 DEF Flag
  <2>2. steps >= L => Singular
    <3>1. SUFFICES ASSUME steps >= L PROVE Singular
      OBVIOUS
    <3>2. j = L
      BY <1>1, <3>1 DEF Stop
    <3>3. Front(CurA, i) /\ Same(CurA, CurB) /\ Looked(CurA, i, L)
      BY <1>4, <3>2 DEF Mid
    <3> QED BY <1>1, <1>4, <3>3, StuckSingular
  <2>3. Mid' /\ End'
    BY <2>1 DEF Mid, End
  <2> QED BY <1>2, <2>1, <2>2, <2>3 DEF Lost
<1>5. CASE r8 = 1 /\ mat[i][Idx(i)] # Zero
  <2>1. r8' = 1
    BY <1>5 DEF Flag
  <2>2. Front(CurA, i) /\ Same(CurA, CurB)
    BY <1>5 DEF Mid
  <2>3. ReduceOf(CurA, CurB, CurA', CurB', i)
    BY <1>5, <2>2, ReduceReads
  <2>4. Front(CurA', i + 1) /\ Same(CurA', CurB')
    BY <1>1, <1>5, <2>2, <2>3, ReduceKeeps
  <2>5. Same(CurA, CurB)'
    BY <2>4 DEF Same, Solutions, Given
  <2>6. CASE i < L - 1 /\ i' = i + 1 /\ j' = i + 2 /\ ~Eliminated'
    <3>1. Looked(CurA', i + 1, i + 2)
      <4>1. \A r \in Rows : i + 1 <= r /\ r < i + 2 => r = i + 1
        BY <1>1 DEF Rows
      <4> QED BY <4>1 DEF Looked
    <3>2. Mid'
      BY <2>4, <2>5, <2>6, <3>1 DEF Mid
    <3>3. End' /\ Lost'
      BY <2>1, <2>6 DEF End, Lost
    <3> QED BY <3>2, <3>3
  <2>7. CASE i = L - 1 /\ ~Eliminating'
    <3>1. i + 1 = L
      BY <1>1, <2>7
    <3>2. End' /\ Mid' /\ Lost'
      BY <2>1, <2>4, <2>5, <2>7, <3>1 DEF End, Mid, Lost
    <3> QED BY <3>2
  <2> QED BY <2>6, <2>7
<1> QED BY <1>1, <1>3, <1>4, <1>5

(* The steps, those of the reference functions and of the others together. *)
LEMMA CallSolving ==
  ASSUME Call /\ UNCHANGED simd, PInv
  PROVE  Solving'
<1>1. phase = "off" /\ phase' = "off" /\ pc' = "load" /\ a0' = a' /\ c0' = c'
  BY DEF Call, simd, PInv, Busy
<1> QED BY <1>1 DEF Solving, Fresh, Tried, Mid, End, Lost, BackReady, BackRunning, Solves,
                    Eliminating, Eliminated, Forming, AtBack, Substituting

LEMMA LoadSolving ==
  ASSUME TypeOK, SimdTypes, PInv, TypeOK', SimdTypes', Solving,
         \/ be = "ref" /\ Load /\ UNCHANGED simd
         \/ SimdLoad
  PROVE  Solving'
<1>1. /\ a' = a /\ c' = c /\ a0' = a0 /\ c0' = c0 /\ be' = be /\ perByte' = perByte
      /\ i' = 0 /\ j' = 1 /\ r8' = 1 /\ a = a0 /\ c = c0
      /\ \/ pc' = "pivot" /\ phase' = "off"
         \/ pc' = "load" /\ phase' = IF CopiesLate THEN "repair" ELSE "column"
  BY DEF Load, SimdLoad, simd, fixed, PInv, Busy, Solving, Fresh
<1>2. perByte \in {1, 2} /\ Offset' = Offset /\ CopiesLate' = CopiesLate /\ ~Joined'
  BY <1>1 DEF TypeOK, Offset, Width, CopiesLate, Joined, Forming, PInv, Busy, Load, SimdLoad, simd
<1>3. CurA' = Given
  <2>1. ASSUME NEW r \in Rows, NEW k \in Rows PROVE mat'[r][Offset + k] = a0[(k * L) + r]
    <3>1. Offset + k \in Cols /\ ~ (Offset + k < Offset) /\ Offset + k < Offset + L /\ (Offset + k) - Offset = k
      BY <1>2, Positions, Sizes DEF Rows
    <3> QED BY <1>1, <3>1 DEF Load, SimdLoad, Entry
  <2> QED BY <1>2, <2>1 DEF CurA, Given
<1>4. CurB' = c0
  <2>1. Offset + L \in Cols /\ ~ (Offset + L < Offset) /\ ~ (Offset + L < Offset + L)
    BY <1>2, Positions, Sizes
  <2>2. be # "avx2_64" => \A r \in Rows : mat'[r][Offset + L] = c[r]
    BY <2>1 DEF Load, SimdLoad
  <2>3. be = "avx2_64" => vec' = c
    BY DEF Load, SimdLoad
  <2>4. c \in [Rows -> F]
    BY DEF TypeOK
  <2> QED BY <1>1, <1>2, <2>2, <2>3, <2>4 DEF CurB
<1>5. Mid'
  <2>1. Front(Given, 0)
    BY Sizes DEF Front, Rows
  <2>2. Same(CurA, CurB)'
    BY <1>1, <1>3, <1>4, GivenSolutions DEF Same, Solutions, Given
  <2>3. Looked(Given, 0, 1)
    <3>1. \A r \in Rows : 0 <= r /\ r < 1 => r = 0
      BY Sizes DEF Rows
    <3> QED BY <3>1 DEF Looked
  <2> QED BY <1>1, <1>3, <2>1, <2>2, <2>3 DEF Mid
<1> QED BY <1>1, <1>2, <1>5 DEF Solving, Fresh, Tried, End, Lost, BackReady, BackRunning, Solves,
                    Eliminating, Eliminated, Forming, AtBack, Substituting, CopiesLate

(* During the elimination the other parts say nothing. *)
LEMMA OnlyMid ==
  ASSUME Eliminating', pc' \in {"pivot", "load"}, PInv', Mid', End', Lost', Tried'
  PROVE  Solving'
<1>1. ~AtBack' /\ ~Substituting' /\ (pc' = "load" => phase' # "off")
  BY DEF PInv, Busy, AtBack, Substituting, Eliminating, Forming
<1> QED BY <1>1 DEF Solving, Fresh, BackReady, BackRunning, Solves

LEMMA RepairSolving ==
  ASSUME TypeOK, SimdTypes, IInv, PInv, TypeOK', SimdTypes', PInv', Solving,
         \/ be = "ref" /\ CondAdd /\ UNCHANGED simd
         \/ Repair /\ be # "ref"
  PROVE  Solving'
<1>1. /\ a0' = a0 /\ c0' = c0 /\ r8' = r8 /\ pc' = pc /\ phase' = phase /\ be' = be /\ perByte' = perByte
      /\ i' = i /\ j' = j + 1 /\ steps' = steps /\ j < Stop(i)
      /\ \/ pc = "pivot" /\ phase = "off" /\ be = "ref"
         \/ pc = "load" /\ phase = "repair" /\ be # "ref"
  BY DEF CondAdd, Repair, simd, fixed, PInv, Busy
<1>2. j \in Rows /\ i < j /\ i \in Rows
  <2>1. Stop(i) \in 0 .. L /\ j \in 0 .. L /\ i \in Rows
    BY StopBound DEF TypeOK
  <2>2. i < j
    BY <1>1 DEF IInv, Below, PInv, Loops, Forming
  <2> QED BY <1>1, <2>1, <2>2, Sizes DEF Rows
<1>3. Eliminating /\ Eliminating' /\ ~Eliminated /\ ~Eliminated' /\ (be = "avx2_64" => Forming)
  BY <1>1 DEF Eliminating, Eliminated, Forming
<1>4. CurA[i][i] = mat[i][Idx(i)]
  BY <1>2, <1>3, PivotRead
<1>5. \/ CurA[i][i] = Zero /\ RowRepaired
      \/ CurA[i][i] # Zero /\ mat' = mat /\ vec' = vec
  <2>1. CASE be = "ref"
    <3>1. Start(i) = IStart(i) /\ vec' = vec
      BY <1>1, <2>1 DEF Start, simd, Repair
    <3> QED BY <1>1, <1>4, <2>1, <3>1 DEF CondAdd, Repairs, RowRepaired, Repair
  <2>2. CASE be # "ref"
    <3>1. PivotSeen = CurA[i][i]
      <4>1. i \in i .. L - 1
        BY <1>2, Sizes DEF Rows
      <4> QED BY <1>1, <1>4, <2>2, <4>1 DEF PivotSeen, PInv, Current, Copied
    <3> QED BY <1>1, <2>2, <3>1 DEF Repair, RowRepaired
  <2> QED BY <2>1, <2>2
<1>6. Mid'
  BY <1>1, <1>2, <1>3, <1>5, RepairMid DEF Solving
<1>7. Lost' /\ End' /\ Tried'
  BY <1>1, <1>3 DEF Solving, Lost, End, Tried, Singular
<1> QED BY <1>1, <1>3, <1>6, <1>7, OnlyMid

LEMMA PhaseSolving ==
  ASSUME TypeOK, SimdTypes, PInv, PInv', Solving, CopyColumn \/ EndRepair
  PROVE  Solving'
<1>1. /\ UNCHANGED vars /\ be' = be /\ vec' = vec /\ pc = "load" /\ Forming /\ Forming'
      /\ (phase = "repair" => ~ (j < Stop(i)))
      /\ (phase = "column" => phase' = IF CopiesLate THEN "reduce" ELSE "repair")
      /\ (phase \in {"column", "repair"})
      /\ (phase = "repair" => phase' = IF CopiesLate THEN "column" ELSE "reduce")
  BY DEF CopyColumn, EndRepair, PInv, Busy, Forming
<1>2. Eliminating /\ Eliminating' /\ ~Eliminated'
  BY <1>1 DEF Eliminating, Eliminated, Forming, vars
<1>3. CurA' = CurA /\ CurB' = CurB
  BY <1>1 DEF CurA, CurB, Joined, vars, Offset, Width
<1>4. Mid' /\ Lost' /\ End'
  <2>1. i' = i /\ j' = j /\ r8' = r8 /\ a0' = a0 /\ c0' = c0 /\ pc' = pc /\ steps' = steps
    BY <1>1 DEF vars
  <2>2. Mid'
    BY <1>2, <1>3, <2>1 DEF Solving, Mid, Same, Solutions, Given
  <2>3. End'
    BY <1>2 DEF End
  <2>4. Lost'
    BY <1>2, <2>1 DEF Solving, Lost, Singular
  <2> QED BY <2>2, <2>3, <2>4
<1>5. Tried'
  BY <1>1 DEF Solving, Tried, CopiesLate, Stop, vars
<1> QED BY <1>1, <1>2, <1>4, <1>5, OnlyMid DEF vars

LEMMA ReduceStepSolving ==
  ASSUME TypeOK, SimdTypes, PInv, TypeOK', SimdTypes', PInv', Solving,
         \/ be = "ref" /\ Reduce /\ UNCHANGED simd
         \/ SimdReduce /\ be # "ref"
  PROVE  Solving'
<1>1. /\ a0' = a0 /\ c0' = c0 /\ be' = be /\ perByte' = perByte /\ steps' = steps
      /\ \/ pc = "pivot" /\ phase = "off" /\ be = "ref"
         \/ pc = "load" /\ phase = "reduce" /\ be # "ref"
      /\ ~ (j < Stop(i))
  BY DEF Reduce, SimdReduce, simd, fixed, PInv, Busy, Solving, Tried
<1>2. i \in Rows /\ i \in Nat /\ L \in Nat
  BY Sizes DEF TypeOK, Rows
<1>3. Eliminating /\ (be = "avx2_64" => Forming)
  BY <1>1 DEF Eliminating, Forming
<1>4. \/ /\ i < L - 1 /\ i' = i + 1 /\ j' = i + 2 /\ Eliminating' /\ ~Eliminated'
         /\ pc' \in {"pivot", "load"}
         /\ phase' # "reduce" /\ (phase' = "column" => ~CopiesLate')
         /\ pc' = "load" => phase' # "off"
      \/ /\ i = L - 1 /\ ~Eliminating' /\ Eliminated' /\ pc' \in {"store", "load"} /\ phase' \in {"off", "store"}
         /\ pc' = "load" => phase' # "off"
  <2>1. CopiesLate' = CopiesLate
    BY <1>1 DEF CopiesLate
  <2>2. CASE be = "ref"
    BY <1>1, <2>2 DEF Reduce, simd, SimdReduce, Eliminating, Eliminated, Forming
  <2>3. CASE be # "ref"
    BY <1>1, <2>1, <2>3 DEF SimdReduce, fixed, Eliminating, Eliminated, Forming
  <2> QED BY <2>2, <2>3
<1>5. be = "avx2_64" => Joined'
  BY <1>1, <1>2, <1>4 DEF Joined, Eliminating
<1> DEFINE col == IF be = "ref" THEN [r \in Rows |-> mat[r][Idx(i)]] ELSE pivots
<1>6. \A r \in Rows : i <= r => col[r] = mat[r][Idx(i)]
  <2>1. be # "ref" => \A r \in i .. L - 1 : pivots[r] = mat[r][Idx(i)]
    BY <1>1 DEF PInv, Current, Copied
  <2>2. \A r \in Rows : i <= r => r \in i .. L - 1
    BY <1>2 DEF Rows
  <2> QED BY <2>1, <2>2
<1>7. RowsReduced(col) /\ r8' = Flag(mat[i][Idx(i)])
  <2>1. CASE be = "ref"
    <3>1. Start(i) = IStart(i) /\ be # "avx2_64" /\ Reduce
      BY <1>1, <2>1 DEF Start, SimdReduce
    <3>2. col[i] = mat[i][Idx(i)] /\ \A r \in Rows : col[r] = mat[r][Idx(i)]
      BY <1>2, <2>1
    <3> HIDE DEF col
    <3>3. mat' = ReducedRows(mat, col)
      BY <3>1, <3>2 DEF Reduce, ReducedRows, Normaliser
    <3> QED BY <1>1, <3>1, <3>3 DEF RowsReduced, Reduce
  <2>2. CASE be # "ref"
    <3>1. col = pivots /\ SimdReduce
      BY <2>2
    <3>2. pivots[i] = mat[i][Idx(i)]
      BY <1>2, <1>6, <3>1
    <3> HIDE DEF col
    <3>3. IF be = "avx2_64" /\ i = 0
          THEN mat' = Merged(ReducedRows(mat, pivots), ReducedVec(vec, pivots))
          ELSE mat' = ReducedRows(mat, pivots)
      BY <3>1 DEF SimdReduce, ReducedRows, ReducedVec
    <3> QED BY <1>1, <1>5, <3>1, <3>2, <3>3 DEF RowsReduced, SimdReduce
  <2> QED BY <2>1, <2>2
<1> HIDE DEF col
<1>8. pc' # "singular" /\ (\/ i < L - 1 /\ i' = i + 1 /\ j' = i + 2 /\ ~Eliminated'
                           \/ i = L - 1 /\ ~Eliminating')
  BY <1>4
<1>9. Mid' /\ End' /\ Lost'
  BY <1>1, <1>3, <1>6, <1>7, <1>8, ReduceSolving DEF Solving
<1>10. Tried'
  BY <1>4 DEF Tried
<1>11. ~AtBack' /\ ~Substituting' /\ pc' # "solved" /\ (pc' = "load" => phase' # "off")
  BY <1>4 DEF AtBack, Substituting, PInv, Busy, Eliminating, Forming
<1> QED BY <1>9, <1>10, <1>11 DEF Solving, Fresh, BackReady, BackRunning, Solves

LEMMA StoreSolving ==
  ASSUME TypeOK, SimdTypes, PInv, PInv', Solving,
         \/ be = "ref" /\ Store /\ UNCHANGED simd
         \/ SimdStore /\ be # "ref"
  PROVE  Solving'
<1>1. /\ a0' = a0 /\ c0' = c0 /\ be' = be /\ steps' = steps /\ r8' = r8 /\ r8 \in {0, 1}
      /\ a' = [k \in 0 .. (L * L) - 1 |-> mat[k \div L][Offset + (k % L)]]
      /\ be # "avx2_64" => c' = [r \in Rows |-> mat[r][Offset + L]]
  BY DEF Store, SimdStore, simd, fixed, TypeOK
<1>2. \/ be = "ref" /\ pc = "store" /\ phase' = "off" /\ pc' = IF r8 = 1 THEN "back" ELSE "singular"
      \/ /\ be # "ref" /\ pc = "load" /\ phase = "store"
         /\ \/ r8 = 1 /\ phase' = "back" /\ pc' = "load"
            \/ r8 = 0 /\ phase' = "off" /\ pc' = "singular"
  BY DEF Store, SimdStore, simd, PInv, Busy
<1>3. Eliminated /\ (be = "avx2_64" <=> Joined)
  BY <1>2 DEF Eliminated, Joined, Forming
<1>4. ~Eliminating' /\ ~Eliminated' /\ ~Substituting' /\ ~ (pc' = "load" /\ phase' = "off") /\ pc' # "solved"
      /\ phase' \in {"off", "back"}
  BY <1>2 DEF Eliminating, Eliminated, Substituting, Forming
<1>5. CASE r8 = 0
  <2>1. pc' = "singular" /\ phase' = "off"
    BY <1>2, <1>5
  <2>2. Lost'
    BY <1>1, <1>3, <1>5 DEF Solving, Lost, Singular
  <2> QED BY <1>1, <1>4, <1>5, <2>1, <2>2
         DEF Solving, Fresh, Tried, Mid, End, BackReady, BackRunning, Solves, AtBack
<1>6. CASE r8 = 1
  <2>1. \A r, k \in Rows : a'[(r * L) + k] = mat[r][Offset + k]
    <3>1. TAKE r, k \in Rows
    <3>2. (r * L) + k \in 0 .. (L * L) - 1 /\ ((r * L) + k) \div L = r /\ ((r * L) + k) % L = k
      BY Sizes, FlatIndex DEF Rows
    <3> QED BY <1>1, <3>2
  <2>2. \A r, k \in Rows : ~ (k > L - 1)
    BY Sizes DEF Rows
  <2>3. BackA(L - 1)' = CurA
    BY <1>1, <1>3, <2>1, <2>2 DEF BackA, CurA, Delta
  <2>4. BackB' = CurB
    <3>1. \A r \in Rows : a'[r * L] = mat[r][Offset]
      <4>1. TAKE r \in Rows
      <4>2. (r * L) + 0 = r * L /\ 0 \in Rows
        BY Sizes DEF Rows
      <4>3. Offset + 0 = Offset
        BY Positions DEF TypeOK
      <4> QED BY <2>1, <4>2, <4>3
    <3> QED BY <1>1, <1>3, <3>1 DEF BackB, CurB
  <2>5. Front(CurA, L) /\ Sol(CurA, CurB) = Solutions
    BY <1>3, <1>6 DEF Solving, End, Same
  <2>6. BackReady'
    <3>1. Solutions' = Solutions
      BY <1>1 DEF Solutions
    <3> QED BY <2>3, <2>4, <2>5, <3>1 DEF BackReady
  <2>7. Lost' /\ Mid' /\ End' /\ Tried'
    BY <1>1, <1>2, <1>4, <1>6 DEF Lost, Mid, End, Tried
  <2> QED BY <1>4, <2>6, <2>7 DEF Solving, Fresh, BackRunning, Solves
<1> QED BY <1>1, <1>5, <1>6

(* Within back substitution only its own parts speak. *)
LEMMA OnlyBack ==
  ASSUME PInv', BackRunning', Substituting',
         (pc' = "substitute" /\ phase' = "off") \/ (pc' = "load" /\ phase' = "substitute")
  PROVE  Solving'
  BY DEF Solving, Fresh, Tried, Mid, End, Lost, BackReady, Solves, Eliminating, Eliminated, AtBack, Forming

LEMMA BackLoadSolving ==
  ASSUME TypeOK, SimdTypes, PInv, PInv', Solving,
         \/ be = "ref" /\ BackLoad /\ UNCHANGED simd
         \/ SimdBackLoad /\ be # "ref"
  PROVE  Solving'
<1>1. /\ a0' = a0 /\ c0' = c0 /\ be' = be /\ a' = a /\ c' = c /\ i' = L - 1 /\ column' = ZeroBuf
      /\ AtBack /\ Substituting'
      /\ ((pc' = "substitute" /\ phase' = "off") \/ (pc' = "load" /\ phase' = "substitute"))
  BY DEF BackLoad, SimdBackLoad, simd, fixed, PInv, Busy, AtBack, Substituting
<1>2. Front(BackA(L - 1), L) /\ Sol(BackA(L - 1), BackB) = Solutions
  BY <1>1 DEF Solving, BackReady
<1>3. BackA(L - 1)' = BackA(L - 1) /\ Solutions' = Solutions
  BY <1>1 DEF BackA, Solutions
<1>4. BackT' = BackB
  <2>1. \A r \in Rows : r \in DOMAIN ZeroBuf /\ r < L /\ ~ (r >= L)
    BY Sizes DEF ZeroBuf, Rows
  <2>2. \A r \in Rows : temp'[r] = IF be = "avx2_64" THEN a[r * L] ELSE c[r]
    BY <2>1 DEF BackLoad, SimdBackLoad
  <2> QED BY <2>2 DEF BackT, BackB
<1>5. \A k \in Rows : column'[k] = Zero
  <2>1. \A k \in Rows : k \in 0 .. (L + Unit) - 1
    BY Sizes DEF Rows
  <2> QED BY <1>1, <2>1 DEF ZeroBuf
<1>6. BackA(i)' = BackA(L - 1)'
  BY <1>1 DEF BackA
<1>7. BackRunning'
  BY <1>2, <1>3, <1>4, <1>5, <1>6 DEF BackRunning
<1> QED BY <1>1, <1>7, OnlyBack

(* What is added to temp from column: at least the elements in front of n. *)
LEMMA AddedEnough ==
  ASSUME TypeOK, SimdTypes, NEW n \in Rows, n > 0
  PROVE  /\ AddedLen(n) \in Int /\ n <= AddedLen(n)
         /\ SimdAddedLen(n) \in Int /\ n <= SimdAddedLen(n)
<1>1. n \in Nat /\ n < L
  BY Sizes DEF Rows
<1>2. RoundUp(n) \in Nat /\ n <= RoundUp(n)
  BY <1>1, Sizes, RoundUpBounds DEF RoundUp
<1>3. 2 * ((n + 1) \div 2) \in Int /\ n <= 2 * ((n + 1) \div 2)
  BY <1>1
<1> QED BY <1>1, <1>2, <1>3, Sizes DEF AddedLen, SimdAddedLen

LEMMA BackReading ==
  TypeOK => /\ \A p \in Int : BackA(p) \in Matrix
            /\ BackT \in Vector
<1>1. ASSUME TypeOK, NEW r \in Rows, NEW k \in Rows PROVE a[(r * L) + k] \in F /\ temp[r] \in F
  <2>1. (r * L) + k \in 0 .. (L * L) - 1 /\ r \in 0 .. (L + Unit) - 1
    BY Sizes, FlatIndex DEF Rows
  <2> QED BY <1>1, <2>1 DEF TypeOK
<1>2. \A r, k \in Rows : Delta(r, k) \in F
  BY DeltaInF
<1> QED BY <1>1, <1>2 DEF BackA, BackT, Matrix, Vector

LEMMA BackReadingNext == TypeOK' => (BackA(i) \in Matrix /\ BackT \in Vector)'
<1>1. TypeOK => BackA(i) \in Matrix /\ BackT \in Vector
  <2>1. TypeOK => i \in Int
    BY Sizes DEF TypeOK, Rows
  <2> QED BY <2>1, BackReading
<1> QED BY <1>1, PTL

LEMMA SubstituteSolving ==
  ASSUME TypeOK, SimdTypes, PInv, TypeOK', SimdTypes', PInv', Solving,
         \/ be = "ref" /\ Substitute /\ UNCHANGED simd
         \/ SimdSubstitute /\ be # "ref"
  PROVE  Solving'
<1>1. /\ a0' = a0 /\ c0' = c0 /\ be' = be /\ a' = a /\ i' = i - 1 /\ i > 0
      /\ Substituting /\ Substituting'
      /\ ((pc' = "substitute" /\ phase' = "off") \/ (pc' = "load" /\ phase' = "substitute"))
  BY DEF Substitute, SimdSubstitute, simd, fixed, PInv, Busy, Substituting
<1>2. i \in Rows /\ i \in Nat /\ i <= L - 1 /\ i # 0 /\ \A r \in Rows : r \in Nat /\ r < L /\ r \in DOMAIN ZeroBuf
  BY <1>1, Sizes DEF TypeOK, Rows, ZeroBuf
<1>3. Front(BackA(L - 1), L) /\ Sol(BackA(i), BackT) = Solutions /\ \A k \in Rows : k > i => column[k] = Zero
  BY <1>1 DEF Solving, BackRunning
<1>4. \A r, k \in Rows : BackA(i)[r][k] = IF k > i \/ (be = "avx2_64" /\ k = 0) THEN Delta(r, k) ELSE a[(r * L) + k]
  BY DEF BackA
<1>5. \A r, k \in Rows : k <= i => BackA(i)[r][k] = BackA(L - 1)[r][k]
  <2>1. \A k \in Rows : k <= i => (k > i <=> k > L - 1)
    BY <1>2, Sizes
  <2> QED BY <2>1 DEF BackA
<1>6. \A r \in Rows : BackA(i)[r][i] = a[(r * L) + i]
  BY <1>2, <1>4
<1>7. \A r \in Rows : r > i => BackA(i)[r][i] = Zero
  <2>1. \A r \in Rows : r > i => BackA(L - 1)[r][i] = Zero
    BY <1>2, <1>3 DEF Front
  <2>2. i <= i
    BY <1>2
  <2> QED BY <1>2, <1>5, <2>1, <2>2
<1>8. \A k \in Rows : BackA(i)[i][k] = Delta(i, k)
  <2>1. TAKE k \in Rows
  <2>2. CASE k > i
    BY <1>2, <1>4, <2>2
  <2>3. CASE k <= i
    <3>1. k < L /\ (k = i \/ k < i)
      BY <1>2, <2>3
    <3>2. BackA(L - 1)[i][k] = Delta(i, k)
      <4>1. (k = i => BackA(L - 1)[i][k] = One) /\ (k < i => BackA(L - 1)[i][k] = Zero)
        BY <1>2, <1>3, <3>1 DEF Front
      <4>2. CASE k = i
        BY <4>1, <4>2 DEF Delta
      <4>3. CASE k < i
        <5>1. k # i
          BY <1>2, <4>3
        <5> QED BY <4>1, <4>3, <5>1 DEF Delta
      <4> QED BY <3>1, <4>2, <4>3
    <3> QED BY <1>2, <1>5, <2>3, <3>2
  <2> QED BY <1>2, <2>2, <2>3
<1>9. ASSUME NEW k \in Rows
      PROVE  column'[k] = IF k < i THEN a[(k * L) + i] ELSE Zero
  <2>1. k < i \/ k = i \/ (k > i /\ ~ (k < i) /\ k # i)
    BY <1>2
  <2>2. k < i => k # i
    BY <1>2
  <2>3. k > i => a[(k * L) + i] = Zero /\ column[k] = Zero /\ k < L
    BY <1>2, <1>3, <1>6, <1>7
  <2>4. \/ column'[k] = ColumnOf(i)[k]
        \/ column'[k] = SimdColumn(i)[k]
    BY DEF Substitute, SimdSubstitute
  <2>5. ~ (i < i)
    BY <1>2
  <2> QED BY <1>2, <2>1, <2>2, <2>3, <2>4, <2>5 DEF ColumnOf, SimdColumn
<1>10. ASSUME NEW r \in Rows
       PROVE  temp'[r] = IF r < i THEN Plus(temp[r], Times(a[(r * L) + i], temp[i])) ELSE temp[r]
  <2>1. temp[r] \in F /\ temp[i] \in F
    BY <1>2 DEF TypeOK, ZeroBuf
  <2>2. PICK n \in Int : i <= n /\ temp'[r] = IF r < n THEN Plus(temp[r], Times(column'[r], temp[i])) ELSE temp[r]
    <3>1. CASE Substitute
      <4>1. AddedLen(i) \in Int /\ i <= AddedLen(i)
        BY <1>1, <1>2, AddedEnough
      <4>2. temp'[r] = IF r < AddedLen(i) THEN Plus(temp[r], Times(column'[r], temp[i])) ELSE temp[r]
        BY <1>2, <3>1 DEF Substitute
      <4> QED BY <4>1, <4>2
    <3>2. CASE SimdSubstitute
      <4>1. SimdAddedLen(i) \in Int /\ i <= SimdAddedLen(i)
        BY <1>1, <1>2, AddedEnough
      <4>2. temp'[r] = IF r < SimdAddedLen(i) THEN Plus(temp[r], Times(column'[r], temp[i])) ELSE temp[r]
        BY <1>2, <3>2 DEF SimdSubstitute
      <4> QED BY <4>1, <4>2
    <3> QED BY <3>1, <3>2
  <2>3. r < i => r < n
    <3>1. r \in Nat /\ i \in Nat
      BY <1>2
    <3> QED BY <2>2, <3>1
  <2>4. ~ (r < i) => Plus(temp[r], Times(column'[r], temp[i])) = temp[r]
    BY <1>9, <2>1, FieldLaws
  <2> QED BY <1>9, <2>2, <2>3, <2>4
<1>11. BackA(i)' \in Matrix /\ BackT' \in Vector /\ BackA(i) \in Matrix /\ BackT \in Vector
  BY <1>2, BackReading, BackReadingNext
<1>12. \A r \in Rows : BackT[r] = temp[r] /\ BackT'[r] = temp'[r]
  BY DEF BackT
<1>13. ASSUME NEW r \in Rows, NEW k \in Rows
       PROVE  BackA(i)'[r][k] = IF k = i THEN Delta(r, i) ELSE BackA(i)[r][k]
  <2>1. BackA(i)'[r][k] = IF k > i - 1 \/ (be = "avx2_64" /\ k = 0) THEN Delta(r, k) ELSE a[(r * L) + k]
    BY <1>1 DEF BackA
  <2>2. k > i - 1 <=> k = i \/ k > i
    BY <1>2
  <2> QED BY <1>4, <2>1, <2>2
<1>14. SubstituteOf(BackA(i), BackT, BackA(i)', BackT', i)
  BY <1>2, <1>6, <1>10, <1>11, <1>12, <1>13 DEF SubstituteOf
<1>15. Sol(BackA(i)', BackT') = Sol(BackA(i), BackT)
  BY <1>2, <1>7, <1>8, <1>11, <1>14, SubstituteSolutions
<1>16. BackA(L - 1)' = BackA(L - 1) /\ Solutions' = Solutions
  BY <1>1 DEF BackA, Solutions
<1>17. \A k \in Rows : k > i' => column'[k] = Zero
  BY <1>1, <1>2, <1>9
<1>18. BackRunning'
  BY <1>3, <1>15, <1>16, <1>17 DEF BackRunning
<1> QED BY <1>1, <1>18, OnlyBack

LEMMA BackStoreSolving ==
  ASSUME TypeOK, SimdTypes, PInv, PInv', Solving,
         \/ be = "ref" /\ BackStore /\ UNCHANGED simd
         \/ SimdBackStore /\ be # "ref"
  PROVE  Solving'
<1>1. /\ a0' = a0 /\ c0' = c0 /\ i = 0 /\ c' = [r \in Rows |-> temp[r]] /\ Substituting
      /\ pc' = "solved" /\ phase' = "off"
  BY DEF BackStore, SimdBackStore, simd, fixed, PInv, Busy, Substituting
<1>2. Front(BackA(L - 1), L) /\ Sol(BackA(0), BackT) = Solutions
  BY <1>1 DEF Solving, BackRunning
<1>3. BackA(0) \in Matrix /\ BackT \in Vector
  BY BackReading
<1>4. ASSUME NEW r \in Rows, NEW k \in Rows PROVE BackA(0)[r][k] = IF r = k THEN One ELSE Zero
  <2>1. r \in Nat /\ k \in Nat /\ k < L /\ ~ (k > L - 1)
    BY Sizes DEF Rows
  <2>2. CASE k > 0
    BY <2>2 DEF BackA, Delta
  <2>3. CASE k = 0
    <3>1. BackA(0)[r][k] = BackA(L - 1)[r][k]
      BY <2>1, <2>3 DEF BackA
    <3>2. (k = r => BackA(L - 1)[r][k] = One) /\ (k < r => BackA(L - 1)[r][k] = Zero)
      BY <1>2, <2>1 DEF Front
    <3>3. k = r \/ k < r
      BY <2>1, <2>3
    <3> QED BY <2>1, <3>1, <3>2, <3>3
  <2> QED BY <2>1, <2>2, <2>3
<1>5. Solutions = {BackT}
  BY <1>2, <1>3, <1>4, UnitSolution
<1>6. Solutions' = Solutions /\ c' = BackT
  BY <1>1 DEF Solutions, BackT
<1> QED BY <1>1, <1>5, <1>6
       DEF Solving, Fresh, Tried, Mid, End, Lost, BackReady, BackRunning, Solves,
           Eliminating, Eliminated, Forming, AtBack, Substituting

LEMMA ReturnSolving ==
  ASSUME Return, UNCHANGED <<be, phase, junk>>, PInv
  PROVE  Solving'
<1>1. phase' = "off" /\ pc' = "idle"
  BY DEF Return, PInv, Busy
<1> QED BY <1>1 DEF Solving, Fresh, Tried, Mid, End, Lost, BackReady, BackRunning, Solves,
                    Eliminating, Eliminated, Forming, AtBack, Substituting

LEMMA StutterSolving ==
  ASSUME UNCHANGED allvars, Solving
  PROVE  Solving'
<1>1. UNCHANGED vars /\ UNCHANGED simd
  BY DEF allvars
<1>2. CurA' = CurA /\ CurB' = CurB /\ Solutions' = Solutions /\ (Singular' <=> Singular) /\ Given' = Given
  BY <1>1 DEF vars, simd, CurA, CurB, Joined, Forming, Offset, Width, Solutions, Singular, Given
<1>3. (Eliminating' <=> Eliminating) /\ (Eliminated' <=> Eliminated) /\ (AtBack' <=> AtBack)
      /\ (Substituting' <=> Substituting)
  BY <1>1 DEF vars, simd, Eliminating, Eliminated, AtBack, Substituting, Forming
<1>4. BackA(L - 1)' = BackA(L - 1) /\ BackA(i)' = BackA(i) /\ BackB' = BackB /\ BackT' = BackT
  BY <1>1 DEF vars, simd, BackA, BackB, BackT
<1>5. Fresh' /\ Tried'
  BY <1>1 DEF vars, simd, Solving, Fresh, Tried, CopiesLate, Stop
<1>6. Mid' /\ End' /\ Lost'
  BY <1>1, <1>2, <1>3 DEF vars, Solving, Mid, End, Lost, Same
<1>7. BackReady' /\ BackRunning' /\ Solves'
  BY <1>1, <1>2, <1>3, <1>4 DEF vars, Solving, BackReady, BackRunning, Solves
<1> QED BY <1>5, <1>6, <1>7 DEF Solving

AInv == IInv /\ PInv /\ SimdTypes /\ Solving

LEMMA AInit == ASSUME SimdInit PROVE AInv
<1>1. IInv /\ PInv
  BY InitInvariant, PInit DEF SimdInit
<1>2. SimdTypes
  BY JunkAssumption, FieldClosed, VectorIs DEF SimdInit, Init, SimdTypes, Zeros
<1>3. Solving
  BY DEF SimdInit, Init, Solving, Fresh, Tried, Mid, End, Lost, BackReady, BackRunning, Solves,
         Eliminating, Eliminated, Forming, AtBack, Substituting
<1> QED BY <1>1, <1>2, <1>3 DEF AInv

LEMMA AStep == ASSUME AInv, [AllNext]_allvars PROVE AInv'
<1>1. IInv /\ PInv /\ SimdTypes /\ Solving /\ TypeOK
  BY DEF AInv, IInv
<1>2. IInv' /\ PInv' /\ SimdTypes' /\ TypeOK'
  BY <1>1, AllTypeStep, PStep DEF IInv
<1>3. ReferenceSteps => Solving'
  BY <1>1, <1>2, CallSolving, LoadSolving, RepairSolving, ReduceStepSolving, StoreSolving,
     BackLoadSolving, SubstituteSolving, BackStoreSolving, ReturnSolving DEF ReferenceSteps
<1>4. ASSUME SimdNext PROVE Solving'
  <2>1. be # "ref"
    BY <1>1, <1>4, Disjuncts
       DEF PInv, Busy, SimdLoad, CopyColumn, Repair, EndRepair, SimdReduce, SimdStore, SimdBackLoad,
           SimdSubstitute, SimdBackStore
  <2> QED BY <1>1, <1>2, <1>4, <2>1, Disjuncts, LoadSolving, RepairSolving, PhaseSolving, ReduceStepSolving,
     StoreSolving, BackLoadSolving, SubstituteSolving, BackStoreSolving
<1>5. UNCHANGED allvars => Solving'
  BY <1>1, StutterSolving
<1> QED BY <1>1, <1>2, <1>3, <1>4, <1>5 DEF AInv, AllNext, ReferenceSteps

(* What is left to solve at each point of gaussian_elim and                *)
(* back_substitute has the solutions of the caller's system.               *)
THEOREM SolverInvariant == AllSpec => []AInv
<1>1. SimdInit => AInv
  BY AInit
<1>2. AInv /\ [AllNext]_allvars => AInv'
  BY AStep
<1> QED BY <1>1, <1>2, PTL DEF AllSpec

(* On every back end a pivot flag still set means that the columns dealt   *)
(* with are upper triangular with ones on the diagonal, and at the end of  *)
(* the elimination that the rows have the solutions of the caller's        *)
(* system: operations from a register's start, padding never cleared and   *)
(* constants kept apart change nothing.                                    *)
THEOREM EliminationKeepsSystem == AllSpec => []EchelonKept
<1>1. AInv => EchelonKept
  BY DEF AInv, Solving, Mid, End, Same, EchelonKept
<1> QED BY <1>1, SolverInvariant, PTL

-----------------------------------------------------------------------------
(* The column buffer behind the vector, which whole units reach.           *)
Behind == Substituting => \A k \in DOMAIN ZeroBuf : k >= L => column[k] = Zero

(* The column of a substitution is zero from its diagonal on, as far as    *)
(* the buffer goes: the elimination left zeros below, and earlier columns  *)
(* were cleared there.                                                     *)
LEMMA ColumnZeros ==
  ASSUME AInv, Behind,
         \/ be = "ref" /\ Substitute
         \/ SimdSubstitute /\ be # "ref"
  PROVE  \A k \in DOMAIN ZeroBuf : k >= i => column'[k] = Zero
<1>1. i > 0 /\ Substituting
  BY DEF Substitute, SimdSubstitute, Substituting
<1>2. i \in Rows /\ i \in Nat /\ i <= L - 1 /\ L \in Nat /\ i # 0 /\ i - 1 \in Int
  BY <1>1, Sizes DEF AInv, IInv, TypeOK, Rows
<1>3. Front(BackA(L - 1), L) /\ \A k \in Rows : k > i => column[k] = Zero
  BY <1>1 DEF AInv, Solving, BackRunning
<1>4. ASSUME NEW k \in Rows, k > i PROVE a[(k * L) + i] = Zero
  <2>1. BackA(L - 1)[k][i] = Zero
    BY <1>2, <1>3, <1>4, Sizes DEF Front, Rows
  <2>2. ~ (i > L - 1) /\ i # 0
    BY <1>2
  <2> QED BY <1>2, <2>1, <2>2 DEF BackA
<1>5. ASSUME NEW k \in DOMAIN ZeroBuf, k >= i PROVE column'[k] = Zero
  <2>1. k \in Nat /\ ~ (k < i) /\ (k = i \/ k > i)
    BY <1>2, <1>5, Sizes DEF ZeroBuf
  <2>2. k > i => column[k] = Zero /\ (k < L => a[(k * L) + i] = Zero)
    <3>1. CASE k < L
      <4>1. k \in Rows
        BY <1>2, <2>1, <3>1 DEF Rows
      <4> QED BY <1>3, <1>4, <4>1
    <3>2. CASE ~ (k < L)
      <4>1. k >= L
        BY <1>2, <2>1, <3>2
      <4> QED BY <1>1, <3>2, <4>1 DEF Behind
    <3> QED BY <3>1, <3>2
  <2>3. k > i => k # i
    BY <1>2, <2>1
  <2>4. \/ column'[k] = ColumnOf(i)[k]
        \/ column'[k] = SimdColumn(i)[k]
    BY DEF Substitute, SimdSubstitute
  <2> QED BY <2>1, <2>2, <2>3, <2>4 DEF ColumnOf, SimdColumn
<1> QED BY <1>5

(* Nothing else writes the column buffer while back substitution is at     *)
(* work, and it starts with zeros.                                         *)
LEMMA BehindStep ==
  ASSUME AInv, Behind, [AllNext]_allvars
  PROVE  Behind'
<1>1. SUFFICES ASSUME Substituting', NEW k \in DOMAIN ZeroBuf, k >= L
               PROVE  column'[k] = Zero
  BY DEF Behind, ZeroBuf
<1>2. (phase # "off" => pc = "load" /\ be # "ref") /\ i \in Rows
  BY DEF AInv, IInv, TypeOK, PInv, Busy
<1>3. CASE be = "ref" /\ Substitute
  <2>1. k >= i
    BY <1>1, <1>2, Sizes DEF Rows, ZeroBuf
  <2> QED BY <1>1, <1>3, <2>1, ColumnZeros
<1>4. CASE SimdSubstitute
  <2>1. k >= i /\ be # "ref"
    BY <1>1, <1>2, <1>4, Sizes DEF Rows, ZeroBuf, SimdSubstitute
  <2> QED BY <1>1, <1>4, <2>1, ColumnZeros
<1>5. CASE (be = "ref" /\ BackLoad) \/ SimdBackLoad
  BY <1>1, <1>5 DEF BackLoad, SimdBackLoad, ZeroBuf
<1>6. CASE \/ Call /\ UNCHANGED simd
           \/ be = "ref" /\ (Load \/ CondAdd \/ Reduce \/ Store \/ BackStore) /\ UNCHANGED simd
           \/ Return /\ UNCHANGED <<be, phase, junk>>
  <2>1. phase' = "off"
    BY <1>2, <1>6 DEF Call, Load, CondAdd, Reduce, Store, BackStore, Return, simd
  <2>2. pc' # "substitute"
    BY <1>6 DEF Call, Load, CondAdd, Reduce, Store, BackStore, Return
  <2> QED BY <1>1, <2>1, <2>2 DEF Substituting
<1>7. CASE SimdLoad \/ CopyColumn \/ Repair \/ EndRepair \/ SimdReduce \/ SimdStore \/ SimdBackStore
  <2>1. phase' # "substitute"
    BY <1>7 DEF SimdLoad, CopyColumn, Repair, EndRepair, SimdReduce, SimdStore, SimdBackStore
  <2>2. pc' # "substitute"
    BY <1>2, <1>7 DEF SimdLoad, CopyColumn, Repair, EndRepair, SimdReduce, SimdStore, SimdBackStore, vars
  <2> QED BY <1>1, <2>1, <2>2 DEF Substituting
<1>8. CASE UNCHANGED allvars
  <2>1. Substituting /\ column' = column
    BY <1>1, <1>8 DEF allvars, vars, simd, Substituting
  <2> QED BY <1>1, <2>1 DEF Behind
<1> QED BY <1>3, <1>4, <1>5, <1>6, <1>7, <1>8, Disjuncts DEF AllNext

LEMMA StayStep ==
  ASSUME AInv, Behind, [AllNext]_allvars, Substituting, i > 0,
         NEW k \in DOMAIN ZeroBuf, k >= i
  PROVE  temp'[k] = temp[k]
<1>1. (phase # "off" => pc = "load" /\ be # "ref") /\ i \in Rows /\ i # 0
      /\ temp \in [0 .. (L + Unit) - 1 -> F]
  BY Sizes DEF AInv, IInv, TypeOK, PInv, Busy, Rows
<1>2. \/ be = "ref" /\ Substitute
      \/ SimdSubstitute /\ be # "ref"
      \/ UNCHANGED allvars
  <2>1. (pc = "substitute" /\ phase = "off") \/ (pc = "load" /\ phase = "substitute" /\ be # "ref")
    BY <1>1 DEF Substituting
  <2>2. ~Call /\ ~Return /\ ~ (be = "ref" /\ (Load \/ CondAdd \/ Reduce \/ Store \/ BackLoad \/ BackStore))
    BY <1>1, <2>1 DEF Call, Return, Load, CondAdd, Reduce, Store, BackLoad, BackStore
  <2>3. /\ ~SimdLoad /\ ~CopyColumn /\ ~Repair /\ ~EndRepair /\ ~SimdReduce
        /\ ~SimdStore /\ ~SimdBackLoad /\ ~SimdBackStore
    BY <1>1, <2>1 DEF SimdLoad, CopyColumn, Repair, EndRepair, SimdReduce, SimdStore, SimdBackLoad, SimdBackStore
  <2>4. SimdSubstitute => be # "ref"
    BY <2>1 DEF SimdSubstitute
  <2> QED BY <2>2, <2>3, <2>4, Disjuncts DEF AllNext
<1>3. CASE UNCHANGED allvars
  BY <1>3 DEF allvars, vars
<1>4. CASE (be = "ref" /\ Substitute) \/ (SimdSubstitute /\ be # "ref")
  <2>1. column'[k] = Zero
    BY <1>4, ColumnZeros
  <2>2. temp[k] \in F /\ temp[i] \in F
    BY <1>1, Sizes DEF ZeroBuf, Rows
  <2>3. temp'[k] = temp[k] \/ temp'[k] = Plus(temp[k], Times(column'[k], temp[i]))
    BY <1>4 DEF Substitute, SimdSubstitute
  <2> QED BY <2>1, <2>2, <2>3, FieldLaws
<1> QED BY <1>2, <1>3, <1>4

(* On every back end, what back substitution has solved it never writes    *)
(* again, nor the memory behind the vector: its over-long additions add    *)
(* zeros there.                                                            *)
THEOREM SolvedCoordinatesStay == AllSpec => SolvedStay
<1>1. SimdInit => Behind
  BY DEF SimdInit, Init, Behind, Substituting
<1>2. AInv /\ Behind /\ [AllNext]_allvars => Behind'
  BY BehindStep
<1>3. /\ AInv /\ Behind /\ [AllNext]_allvars
      => [Substituting /\ i > 0 => \A k \in DOMAIN ZeroBuf : k >= i => temp'[k] = temp[k]]_allvars
  BY StayStep
<1> QED BY <1>1, <1>2, <1>3, SolverInvariant, PTL DEF AllSpec, SolvedStay

(* When gaussian_elim returned 1 and back_substitute is through, the       *)
(* caller's vector is the one solution of the system given, on every back  *)
(* end: no pivot search beyond the rows below, rows operated on from a     *)
(* rounded start, and the constants moved into the matrix change nothing.  *)
THEOREM SuccessIsTheSolution == AllSpec => []Solves
<1>1. AInv => Solves
  BY DEF AInv, Solving
<1> QED BY <1>1, SolverInvariant, PTL

(* With no early stop gaussian_elim returns 0 only for a matrix that maps  *)
(* some vector other than zero to zero.                                    *)
THEOREM FailureIsSingular == AllSpec => []FailsSingular
<1>1. AInv => FailsSingular
  BY DEF AInv, Solving, Lost, FailsSingular
<1> QED BY <1>1, SolverInvariant, PTL
=============================================================================

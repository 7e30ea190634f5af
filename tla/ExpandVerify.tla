---------------------------- MODULE ExpandVerify ----------------------------
(***************************************************************************)
(* The two passes of a verification with a compressed public key over the  *)
(* memory of the expanded one.  First expand_pk, or on NEON and M4F over   *)
(* GF(16) expand_pk_predicate, writes it from the keystream of the public  *)
(* seed, the latter leaving out the rows a zero entry of the signature     *)
(* makes useless.  Then ov_publicmap walks it with a pointer of its own.   *)
(* Neither is told where the other is: both must lay the key out alike.    *)
(* Field elements are abstracted to being zero or not.                     *)
(***************************************************************************)
EXTENDS Integers

CONSTANTS
  V,          (* _V *)
  O,          (* _O *)
  VecLen,     (* _O_BYTE = _PUB_M_BYTE, bytes of one coefficient vector *)
  Unit,       (* bytes a vector addition of the backend works on: 4, 8, 16, 32 *)
  BlockSize,  (* AES128_BLOCKSIZE *)
  CtrMod,     (* the width of the keystream's block counter *)
  Builds,     (* the builds: subset of {"gf16", "gf16_predicate", "gf256"} *)
  Junk        (* a byte of the expanded key nothing has written *)

N == V + O

(* N_TRIANGLE_TERMS, _PK_P1_BYTE, _PK_P2_BYTE, _PK_BYTE *)
Triangle(n) == (n * (n + 1)) \div 2
P1Bytes == VecLen * Triangle(V)
P2Bytes == VecLen * V * O
PkBytes == VecLen * Triangle(N)

ASSUME SizesAssumption ==
  /\ V \in Nat \ {0} /\ O \in Nat \ {0, 1}
  /\ VecLen \in Nat \ {0} /\ Unit \in Nat \ {0}
(* A vector rounded up to the backend's unit is at most two vectors: true  *)
(* of 45, 72 and 96 bytes and units up to 32.                              *)
ASSUME UnitAssumption == ((VecLen + Unit - 1) \div Unit) * Unit <= 2 * VecLen
ASSUME StreamAssumption ==
  /\ BlockSize \in Nat \ {0} /\ CtrMod \in Nat \ {0}
  /\ P1Bytes + P2Bytes <= BlockSize * CtrMod

VARIABLES
  build,  (* which build runs *)
  x,      (* the signature's entries: TRUE where not zero *)
  pc,     (* the loop that runs *)
  row,    (* its counter i *)
  pk,     (* the expanded key *)
  ptr,    (* p1p2 while expanding, trimat while evaluating *)
  pos,    (* the PRNG context, as a position in its keystream *)
  out,    (* what the PRNG returned last *)
  terms,  (* the coefficient vectors accumulated, with their monomials *)
  read    (* the bytes of the key the evaluation has read *)

vars == <<build, x, pc, row, pk, ptr, pos, out, terms, read>>

KS == INSTANCE KeyStream WITH
        Seeds <- {"pk_seed"}, MaxReq <- PkBytes, seed <- "pk_seed"

NothingWritten == [b \in 0 .. PkBytes - 1 |-> Junk]

(* Byte b of the expanded key of expand_pk: the keystream, then cpk->P3. *)
WholeKey(b) ==
  IF b < P1Bytes + P2Bytes THEN KS!Stream("pk_seed", b)
  ELSE [p3 |-> b - (P1Bytes + P2Bytes)]

ASSUME JunkAssumption == \A b \in 0 .. PkBytes - 1 : WholeKey(b) # Junk

(* memcpy of P3 behind P1 and P2 *)
WithP3(key) ==
  [b \in 0 .. PkBytes - 1 |->
     IF b >= P1Bytes + P2Bytes THEN [p3 |-> b - (P1Bytes + P2Bytes)] ELSE key[b]]

(* The bytes of what the PRNG returned, at the pointer. *)
Stored(key, bytes, len) ==
  [b \in 0 .. PkBytes - 1 |->
     IF b \in ptr .. ptr + len - 1 THEN bytes[b - ptr] ELSE key[b]]

-----------------------------------------------------------------------------
(* A call, with a key just allocated: any signature. *)
Init ==
  /\ build \in Builds
  /\ x \in [0 .. N - 1 -> BOOLEAN]
  /\ pc = IF build = "gf16_predicate" THEN "expand_P1" ELSE "expand"
  /\ row = 0
  /\ pk = NothingWritten
  /\ ptr = 0
  /\ pos = 0
  /\ out = KS!NoBytes
  /\ terms = {}
  /\ read = {}

Goto(label, i) == pc' = label /\ row' = i

(* expand_pk *)
ExpandPk ==
  /\ pc = "expand"
  /\ KS!KSGen(P1Bytes + P2Bytes)
  /\ pk' = WithP3(Stored(pk, out', P1Bytes + P2Bytes))
  /\ Goto("eval_P1", 0)
  /\ ptr' = 0
  /\ UNCHANGED <<build, x, terms, read>>

(* p1p2 += len_i, whether the row was skipped or not. *)
PastGenerated(len) == IF x[row] THEN ptr + len ELSE ptr
Past(len) == ptr + len

(* One row of expand_pk_predicate. *)
SkipOrGen(len) ==
  /\ \/ /\ ~ x[row]
        /\ KS!KSSkip(len)
        /\ UNCHANGED pk
     \/ /\ x[row]
        /\ KS!KSGen(len)
        /\ pk' = Stored(pk, out', len)
  /\ ptr' = Past(len)
  /\ UNCHANGED <<build, x, terms, read>>

(* len_i of a row of P1 and of P2 *)
RowLenP1(i) == VecLen * (V - i)
RowLenP2(i) == VecLen * O

ExpandP1Row ==
  /\ pc = "expand_P1"
  /\ SkipOrGen(RowLenP1(row))
  /\ IF row < V - 1 THEN Goto("expand_P1", row + 1) ELSE Goto("expand_P2", 0)

ExpandP2Row ==
  /\ pc = "expand_P2"
  /\ SkipOrGen(RowLenP2(row))
  /\ IF row < V - 1 THEN Goto("expand_P2", row + 1) ELSE Goto("expand_P3", 0)

CopyP3 ==
  /\ pc = "expand_P3"
  /\ pk' = WithP3(pk)
  /\ Goto("eval_P1", 0)
  /\ ptr' = 0
  /\ UNCHANGED <<build, x, pos, out, terms, read>>

-----------------------------------------------------------------------------
(* tmpvec_len: over GF(256) the additions work on whole units.  The last   *)
(* row, of one vector, has nothing behind it and uses vec_len.             *)
Rounded == ((VecLen + Unit - 1) \div Unit) * Unit
AddLenRounded(i) == IF build = "gf256" THEN Rounded ELSE VecLen
AddLen(i) == IF build = "gf256" /\ i < N - 1 THEN Rounded ELSE VecLen

(* Row i is left out when x_i is zero, over GF(16) only. *)
Skips(i) == build # "gf256" /\ ~ x[i]

(* A vector is read when it is added to a bucket.  The portable code over  *)
(* GF(16) does not add to bucket 0; NEON and GF(256) do.                   *)
Adds(i, j) == build = "gf16" => x[i] /\ x[j]

(* trimat past a row of n vectors, whether it is left out or not. *)
PastRowRead(i, n) == IF Skips(i) THEN ptr ELSE ptr + VecLen * n
PastRow(i, n) == ptr + VecLen * n

(* The row of the monomials x_i x_j, j in first .. last, one vector each.  *)
(* A product that is zero goes to bucket 0, which madd_reduce never reads. *)
EvalRow(i, first, last) ==
  LET at(j) == ptr + VecLen * (j - first)
  IN
    /\ ptr' = PastRow(i, (last - first) + 1)
    /\ \/ /\ Skips(i)
          /\ UNCHANGED <<terms, read>>
       \/ /\ ~ Skips(i)
          /\ read' = read \cup UNION { at(j) .. at(j) + AddLen(i) - 1 :
                                         j \in { k \in first .. last : Adds(i, k) } }
          /\ terms' = terms \cup
               { [mono |-> <<i, j>>,
                  coef |-> [b \in 0 .. VecLen - 1 |->
                              IF at(j) + b < PkBytes THEN pk[at(j) + b] ELSE Junk]] :
                   j \in { k \in first .. last : x[i] /\ x[k] } }
    /\ UNCHANGED <<build, x, pk, pos, out>>

EvalP1Row ==
  /\ pc = "eval_P1"
  /\ EvalRow(row, row, V - 1)
  /\ IF row < V - 1 THEN Goto("eval_P1", row + 1) ELSE Goto("eval_P2", 0)

EvalP2Row ==
  /\ pc = "eval_P2"
  /\ EvalRow(row, V, N - 1)
  /\ IF row < V - 1 THEN Goto("eval_P2", row + 1) ELSE Goto("eval_P3", V)

EvalP3Row ==
  /\ pc = "eval_P3"
  /\ EvalRow(row, row, N - 1)
  /\ IF row < N - 1 THEN Goto("eval_P3", row + 1) ELSE Goto("done", 0)

(* The key is freed; the next call allocates its own. *)
Return ==
  /\ pc = "done"
  /\ x' \in [0 .. N - 1 -> BOOLEAN]
  /\ pc' = IF build = "gf16_predicate" THEN "expand_P1" ELSE "expand"
  /\ pk' = NothingWritten
  /\ row' = 0 /\ ptr' = 0 /\ pos' = 0
  /\ out' = KS!NoBytes
  /\ terms' = {} /\ read' = {}
  /\ UNCHANGED build

Next ==
  \/ ExpandPk \/ ExpandP1Row \/ ExpandP2Row \/ CopyP3
  \/ EvalP1Row \/ EvalP2Row \/ EvalP3Row
  \/ Return

Spec == Init /\ [][Next]_vars

-----------------------------------------------------------------------------
(* However rows are skipped, a byte expand_pk_predicate writes is the byte *)
(* expand_pk writes there: the keystream stays in step with the pointer.   *)
SameKey == \A b \in 0 .. PkBytes - 1 : pk[b] = Junk \/ pk[b] = WholeKey(b)

(* The public map reads no byte outside the key and none that the          *)
(* expansion left out: its over-reading additions included.                *)
ReadsWritten == \A b \in read : b \in 0 .. PkBytes - 1 /\ pk[b] # Junk

(* The vector of monomial x_i x_j in the specification's layout: P1 row by *)
(* row in its upper triangle, P2 row by row, P3 as P1.                     *)
VectorOf(i, j) ==
  IF j < V THEN (Triangle(V) - Triangle(V - i)) + (j - i)
  ELSE IF i < V THEN Triangle(V) + (i * O) + (j - V)
  ELSE Triangle(V) + (V * O) + (Triangle(O) - Triangle(N - i)) + (j - i)

(* When the evaluation ends, it has used each monomial that does not       *)
(* vanish once, with the coefficients of the key the seed stands for.      *)
EvaluatesKey ==
  pc = "done" =>
    terms = { [mono |-> m,
               coef |-> [b \in 0 .. VecLen - 1 |->
                           WholeKey((VecLen * VectorOf(m[1], m[2])) + b)]] :
                m \in { p \in (0 .. N - 1) \X (0 .. N - 1) :
                          p[1] <= p[2] /\ x[p[1]] /\ x[p[2]] } }
=============================================================================

------------------------------- MODULE OvKeys -------------------------------
(***************************************************************************)
(* Keys and signatures as matrices: key generation of the three variants   *)
(* (ov_keypair.c, ov_keypair_computation.c) with the buffers it works in   *)
(* place on, the two ways of building a signing attempt's linear system    *)
(* (ov.c), and the public map.  What the seed expands to is chosen, and    *)
(* the system's solution is any vector that solves it (GaussElim).         *)
(***************************************************************************)
EXTENDS ParallelMatrix

CONSTANTS
  Variants,    (* subset of {"classic", "pkc", "pkc_skc"} *)
  Os, P1s, P2s, (* what O, P1 and P2 may be *)
  Vinegars,    (* what the vinegar hash may be *)
  Targets      (* what the digest y may be *)

ASSUME SizeAssumption ==
  V \in Nat \ {0} /\ O \in Nat \ {0} /\ M \in Nat \ {0} /\ Tail \in 0 .. V

ASSUME InputsAssumption ==
  /\ Os \subseteq [0 .. (V * O) - 1 -> F]
  /\ P1s \subseteq [0 .. Triangle(V) - 1 -> Batch]
  /\ P2s \subseteq [0 .. (V * O) - 1 -> Batch]
  /\ Vinegars \subseteq [0 .. V - 1 -> F]
  /\ Targets \subseteq Batch

VARIABLES
  pc,
  variant,
  O_,       (* sk->O *)
  P1,       (* P1, of the public key and of sk *)
  P2,       (* P2 as the seed gives it; in rpk for classic *)
  S,        (* sk->S: P2, then worked on in place *)
  P3,       (* rpk_P3 or cpk->P3 *)
  sk,       (* what sk->S is when signing starts *)
  vinegar, y,
  w         (* the signature without its salt *)

vars == <<pc, variant, O_, P1, P2, S, P3, sk, vinegar, y, w>>

NoBuffer == <<>>
OilVectors == [0 .. O - 1 -> F]

(* Uninitialised memory where P3 goes: batch_upper_matTr_x_mat adds to it. *)
Uninitialised == { [n \in 0 .. Triangle(O) - 1 |-> [e \in 0 .. M - 1 |-> f]] : f \in F }

Init ==
  /\ pc = "generate"
  /\ variant \in Variants
  /\ O_ = NoBuffer /\ P1 = NoBuffer /\ P2 = NoBuffer
  /\ S = NoBuffer /\ sk = NoBuffer
  /\ P3 \in Uninitialised
  /\ vinegar = NoBuffer /\ y = NoBuffer /\ w = NoBuffer

(* generate_keypair generates P1 and P2 into the public key, where P2      *)
(* stays, and calculate_F2_P3 copies P2 to sk->S; generate_keypair_pkc     *)
(* generates P2 into sk->S itself.                                         *)
Generate ==
  /\ pc = "generate"
  /\ O_' \in Os
  /\ P1' \in P1s
  /\ P2' \in P2s
  /\ S' = P2'
  /\ pc' = "F1T1_F2"
  /\ UNCHANGED <<variant, P3, sk, vinegar, y, w>>

(* calculate_F2_P3, S in place: F1 * T1 + F2, *)
CalculateF1T1F2 ==
  /\ pc = "F1T1_F2"
  /\ S' = TrimatMadd(S, P1, O_)
  /\ pc' = "P3"
  /\ UNCHANGED <<variant, O_, P1, P2, P3, sk, vinegar, y, w>>

(* P3 from it, *)
CalculateP3 ==
  /\ pc = "P3"
  /\ P3' = UpperMatTrXMat(P3, O_, S)
  /\ pc' = "F1tr_T1"
  /\ UNCHANGED <<variant, O_, P1, P2, S, sk, vinegar, y, w>>

(* and the other half of S. *)
CalculateF1trT1 ==
  /\ pc = "F1tr_T1"
  /\ S' = TrimatTrMadd(S, P1, O_)
  /\ pc' = "generated"
  /\ UNCHANGED <<variant, O_, P1, P2, P3, sk, vinegar, y, w>>

(* calculate_F2 of expand_sk, in place on P2. *)
ExpandedS == TwoTrimatMadd(P2, P1, O_, O)

(* What a sign call finds in sk->S: S with the secret key of classic and   *)
(* pkc, P2 after expand_sk_implicit_s of pkc_skc, whose key generation     *)
(* threw S away.                                                           *)
Loaded == IF variant = "pkc_skc" THEN P2 ELSE S

Load ==
  /\ pc = "generated"
  /\ sk' = Loaded
  /\ pc' = "attempt"
  /\ UNCHANGED <<variant, O_, P1, P2, S, P3, vinegar, y, w>>

(* l1_mat_from_s: column i of the system's matrix is vinegar^T * S. *)
MatFromS(s, vin, i) ==
  Prod(V, [k \in 0 .. V - 1 |-> s[(k * O) + i]], vin)

(* l1_mat_from_p2: vinegar^T * P2, and vinegar^T * (P1 + P1^T) times O. *)
P1Vinegar(vin) ==
  TwoTrimatMadd([k \in 0 .. V - 1 |-> ZeroBatch], P1, vin, 1)
MatFromP2(s, vin, i) ==
  LET o_col == [j \in 0 .. V - 1 |-> Col(O_, i, j)]
  IN BatchAdd(MatFromS(s, vin, i), Prod(V, P1Vinegar(vin), o_col))

(* ov_calc_l1_mat *)
MatExplicit(s, vin, i) == MatFromS(s, vin, i)
Mat(s, vin, i) == IF variant = "pkc_skc" THEN MatFromP2(s, vin, i) ELSE MatFromS(s, vin, i)

(* The right-hand side: y less what the vinegar variables contribute. *)
Constant(vin, digest) == BatchAdd(QuadTrimatEval(P1, vin, V), digest)

(* The signature of the oil part x: w = (vinegar + O x, x). *)
Signature(vin, x) ==
  [k \in 0 .. (V + O) - 1 |->
     IF k < V THEN Plus(vin[k], OilProd(O_, x)[k]) ELSE x[k - V]]

(* An attempt of ov_sign_core whose system is solved; a singular system is *)
(* retried with another vinegar vector.                                    *)
Attempt ==
  /\ pc = "attempt"
  /\ vinegar' \in Vinegars
  /\ y' \in Targets
  /\ \E x \in OilVectors :
       /\ LET mat == [i \in 0 .. O - 1 |-> Mat(sk, vinegar', i)]
          IN Prod(O, mat, x) = Constant(vinegar', y')
       /\ w' = Signature(vinegar', x)
  /\ pc' = "signed"
  /\ UNCHANGED <<variant, O_, P1, P2, S, P3, sk>>

(* The next call signs another message. *)
Again ==
  /\ pc = "signed"
  /\ pc' = "attempt"
  /\ vinegar' = NoBuffer /\ y' = NoBuffer /\ w' = NoBuffer
  /\ UNCHANGED <<variant, O_, P1, P2, S, P3, sk>>

Next ==
  \/ Generate \/ CalculateF1T1F2 \/ CalculateP3 \/ CalculateF1trT1
  \/ Load \/ Attempt \/ Again

Spec == Init /\ [][Next]_vars

-----------------------------------------------------------------------------
(* ov_publicmap over P1, P2 and P3 in a row: each batch times the product  *)
(* of its variables.                                                       *)
PublicMap(p1, p2, p3, x) ==
  LET xo == [i \in 0 .. O - 1 |-> x[V + i]]
      p2Row(i) == Prod(O, [j \in 0 .. O - 1 |-> p2[(i * O) + j]],
                          [j \in 0 .. O - 1 |-> Times(x[i], xo[j])])
      p2Sum[i \in 0 .. V] == IF i = 0 THEN ZeroBatch ELSE BatchAdd(p2Sum[i - 1], p2Row(i - 1))
      triSum(tri, dim, v) ==
        LET line(i) == Prod(dim - i,
                            [k \in 0 .. dim - i - 1 |-> tri[RowStart(dim, i) + k]],
                            [k \in 0 .. dim - i - 1 |-> Times(v[i], v[i + k])])
            sum[i \in 0 .. dim] ==
              IF i = 0 THEN ZeroBatch ELSE BatchAdd(sum[i - 1], line(i - 1))
        IN sum[dim]
  IN BatchAdd(triSum(p1, V, x), BatchAdd(p2Sum[V], triSum(p3, O, xo)))

Generated == pc \in {"generated", "attempt", "signed"}

(* The public map vanishes on the oil space { (O x, x) }, whatever was in  *)
(* P3's memory: that is what makes the key one the secret O can sign for.  *)
OilSpaceVanishes ==
  Generated =>
    \A x \in OilVectors :
      PublicMap(P1, P2, P3, Signature([k \in 0 .. V - 1 |-> Zero], x)) = ZeroBatch

(* The S that key generation leaves, in two additions around P3, is the S  *)
(* that expand_sk computes in one from the seed.                           *)
SameSecretKey == Generated => S = ExpandedS

(* A solution of the attempt's system, built from S or from P2 and P1, is  *)
(* a preimage of the digest under the public key the verifier has.         *)
SignatureMaps == pc = "signed" => PublicMap(P1, P2, P3, w) = y
=============================================================================

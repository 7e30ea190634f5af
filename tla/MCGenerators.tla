----------------------------- MODULE MCGenerators -----------------------------
(***************************************************************************)
(* The two generators of bytes in one run: the public-input PRNG (Prng),   *)
(* and the DRBG of the known-answer program with that program (Kat), one   *)
(* at a time.                                                              *)
(***************************************************************************)
EXTENDS Prng

CONSTANT Vectors
(* The vectors are numbered from 0. *)
ASSUME VectorsAssumption == Vectors \in Nat
VARIABLES
  mode,
  pc, DRBG_ctx, encrypted, again, req, rsp, pos, count, seed, mlen, m, sk, sm

KAT == INSTANCE Kat
kat == <<pc, DRBG_ctx, encrypted, again, req, rsp, pos, count, seed, mlen, m, sk, sm>>

MCInit == mode \in {"prng", "kat"} /\ Init /\ KAT!Init
MCNext ==
  \/ mode = "prng" /\ Next /\ UNCHANGED <<mode, kat>>
  \/ mode = "kat" /\ KAT!Next /\ UNCHANGED <<mode, vars>>

MCSpec == MCInit /\ [][MCNext]_<<mode, vars, kat>>

(* KAT!AnswersAlone: an answer depends on its vector only. *)
AnswersAlone == KAT!AnswersAlone
(* KAT!BlocksFresh: no block is encrypted twice under a seed. *)
BlocksFresh == KAT!BlocksFresh
=============================================================================

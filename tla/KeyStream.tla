----------------------------- MODULE KeyStream -----------------------------
(***************************************************************************)
(* What the public-input PRNG of utils/utils_prng.c promises its callers,  *)
(* with its buffer and its counter taken away: a seed selects an AES-CTR   *)
(* keystream, and the context is a position in it.  Generating n bytes     *)
(* returns the next n bytes of the keystream, skipping n bytes moves on    *)
(* without returning them, so that gen(a);gen(b) = gen(a+b) and            *)
(* skip(a);gen(b) returns the last b bytes of gen(a+b)                     *)
(* (unit_tests/prng_publicinputs-test.c).                                  *)
(***************************************************************************)
EXTENDS Integers

CONSTANTS
  Seeds,      (* the 16-byte public seeds *)
  BlockSize,  (* AES128_BLOCKSIZE, bytes of one AES block *)
  CtrMod,     (* number of values of the uint32_t block counter *)
  MaxReq      (* bound: the longest request *)

VARIABLES
  seed,   (* the seed the context was last set to *)
  pos,    (* the next keystream byte, modulo the period *)
  out     (* what the last gen returned *)

ksVars == <<seed, pos, out>>

Period == BlockSize * CtrMod

(* Byte number i of AES block number b of the keystream of seed s. *)
Byte(s, b, i) == [seed |-> s, block |-> b, byte |-> i]

(* The keystream: byte number p, the block number wrapping as the counter. *)
Stream(s, p) == Byte(s, (p \div BlockSize) % CtrMod, p % BlockSize)

NoBytes == [i \in {} |-> i]

KSInit ==
  /\ seed \in Seeds
  /\ pos = 0
  /\ out = NoBytes

KSSet(s) ==
  /\ seed' = s
  /\ pos' = 0
  /\ out' = NoBytes

KSGen(n) ==
  /\ out' = [i \in 0 .. n - 1 |-> Stream(seed, pos + i)]
  /\ pos' = (pos + n) % Period
  /\ UNCHANGED seed

KSSkip(n) ==
  /\ pos' = (pos + n) % Period
  /\ out' = NoBytes
  /\ UNCHANGED seed

KSNext ==
  \/ \E s \in Seeds : KSSet(s)
  \/ \E n \in 0 .. MaxReq : KSGen(n) \/ KSSkip(n)

KSSpec == KSInit /\ [][KSNext]_ksVars
=============================================================================

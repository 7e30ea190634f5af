------------------------------- MODULE OvSign -------------------------------
(***************************************************************************)
(* The signing and verifying calls of ov.c: the rejection loop of          *)
(* ov_sign_core over vinegar vectors, the life of its hash contexts (the   *)
(* OpenSSL adapter allocates one in hash_init and hash_ctx_copy and frees  *)
(* it in hash_final_digest), and the allocation of the expanded keys in    *)
(* ov_expand_and_sign and ov_expand_and_verify.                            *)
(*                                                                         *)
(* A digest is its input, hash functions being injective here.  A linear   *)
(* system is the pair of the vinegar vector and the digest it was built    *)
(* from; "solvable" says for which vinegar counters Gaussian elimination   *)
(* succeeds.  One action per call or group of calls that changes state.    *)
(***************************************************************************)
EXTENDS Integers, Sequences, FiniteSets

CONSTANTS
  Msgs,        (* messages *)
  Salts,       (* values of the _SALT_BYTE random bytes *)
  Handles,     (* addresses EVP_MD_CTX_new may return *)
  MaxAttempt,  (* MAX_ATTEMPT_VINEGAR, 256 *)
  CtrVals,     (* values of the uint8_t counter, 256 *)
  ExpandSk,    (* variant PKC_SKC: sk_t is allocated and expanded to sign *)
  ExpandPk,    (* variants PKC, PKC_SKC: pk_t is allocated to verify *)
  None         (* no value: an uninitialised buffer, a null pointer *)

ASSUME AttemptAssumption ==
  MaxAttempt \in Nat \ {0} /\ CtrVals \in Nat /\ MaxAttempt <= CtrVals
ASSUME VariantAssumption == ExpandSk \in BOOLEAN /\ ExpandPk \in BOOLEAN
ASSUME NoneAssumption == None \notin Msgs \cup Salts \cup Handles

(* The hash_ctx variables of ov_sign_core and _ov_verify. *)
Ctxs == {"h_m_salt_secret", "h_vinegar_copy", "h_vinegar", "hctx"}

VARIABLES
  pc,         (* where the call in progress stands *)
  op,         (* the call in progress or last made: "sign", "verify" *)
  msg,        (* its message *)
  ret,        (* its return value *)
  heap,       (* live EVP_MD_CTX allocations *)
  ctx,        (* hash_ctx variables: handle and what was absorbed *)
  skLive,     (* ov_expand_and_sign holds an allocated sk_t *)
  pkLive,     (* ov_expand_and_verify holds an allocated pk_t *)
  salt,
  n_attempt,
  solvable,   (* the vinegar counters whose system Gaussian elimination solves *)
  y,          (* H(M||salt) *)
  vinegar,
  x_o1,       (* what back substitution left: the system it solved *)
  signature,  (* the caller's buffer: w = vinegar and oil part, salt *)
  tried       (* history: the vinegar vectors of this call *)

keyVars == <<skLive, pkLive>>
hashVars == <<heap, ctx>>
sysVars == <<y, vinegar, x_o1>>
vars == <<pc, op, msg, ret, heap, ctx, skLive, pkLive, salt, n_attempt, solvable,
          y, vinegar, x_o1, signature, tried>>

-----------------------------------------------------------------------------
(* Hash contexts (utils_hash.c, OpenSSL adapter). *)

(* hash_init and the updates up to the next call that reads the context. *)
HashInit(c, data) ==
  \E h \in Handles \ heap :
    /\ heap' = heap \cup {h}
    /\ ctx' = [ctx EXCEPT ![c] = [handle |-> h, absorbed |-> data]]

(* hash_ctx_copy allocates; a struct copy would share the handle. *)
HashCopyShared(new, old) ==
  /\ heap' = heap
  /\ ctx' = [ctx EXCEPT ![new] = ctx[old]]
HashCopy(new, old) == HashInit(new, ctx[old].absorbed)

(* hash_update *)
HashUpdate(c, x) ==
  ctx' = [ctx EXCEPT ![c] = [handle |-> ctx[c].handle, absorbed |-> Append(ctx[c].absorbed, x)]]

(* hash_final_digest frees the context; the pointer is left dangling. *)
HashFreeUnlessExhausted(c) ==
  heap' = IF n_attempt >= MaxAttempt THEN heap ELSE heap \ {ctx[c].handle}
HashFree(c) == heap' = heap \ {ctx[c].handle}

Absorbed(c) == ctx[c].absorbed
Live(c) == ctx[c].handle \in heap

-----------------------------------------------------------------------------
(* The public key at w = (vinegar + O x_o1 || x_o1): the digest of the     *)
(* system x_o1 solves when the vinegar part is that system's, and some     *)
(* other value, {}, when it is not.                                        *)
PublicMap(sig) == {o.y : o \in {x \in sig.oil : x.vinegar = sig.vinegar}}

(* A signature of m: what _ov_verify compares. *)
ValidFor(sig) == {m \in Msgs : PublicMap(sig) = {<<m, sig.salt>>}}

-----------------------------------------------------------------------------
(* The locals of ov_sign_core, before a call and after it. *)
NoContexts == [c \in Ctxs |-> [handle |-> None, absorbed |-> <<>>]]
NoLocals ==
  /\ ctx = NoContexts
  /\ salt = None /\ n_attempt = 0 /\ solvable = {}
  /\ y = <<>> /\ vinegar = <<>> /\ x_o1 = {}
  /\ tried = {}
LocalsGone ==
  /\ ctx' = NoContexts
  /\ salt' = None /\ n_attempt' = 0 /\ solvable' = {}
  /\ y' = <<>> /\ vinegar' = <<>> /\ x_o1' = {}
  /\ tried' = {}

(* ov_sign, or ov_expand_and_sign, is called. *)
CallSign(m) ==
  /\ pc = "idle"
  /\ pc' = IF ExpandSk THEN "alloc_sk" ELSE "hash"
  /\ op' = "sign"
  /\ msg' = m
  /\ solvable' \in SUBSET (0 .. CtrVals - 1)
  /\ UNCHANGED <<ret, hashVars, keyVars, salt, n_attempt, sysVars, signature, tried>>

(* ov_malloc(sizeof(sk_t)), then expand_sk_implicit_s. *)
AllocSk ==
  /\ pc = "alloc_sk"
  /\ \/ pc' = "idle" /\ ret' = -1 /\ solvable' = {} /\ UNCHANGED skLive
     \/ pc' = "hash" /\ skLive' = TRUE /\ UNCHANGED <<ret, solvable>>
  /\ UNCHANGED <<op, msg, hashVars, pkLive, salt, n_attempt, sysVars, signature, tried>>

(* randombytes(salt); hash_init, hash_update(message), hash_update(salt). *)
HashMessage ==
  /\ pc = "hash"
  /\ salt' \in Salts
  /\ HashInit("h_m_salt_secret", <<msg, salt'>>)
  /\ pc' = "copy"
  /\ UNCHANGED <<op, msg, ret, keyVars, n_attempt, solvable, sysVars, signature, tried>>

(* hash_ctx_copy(&h_vinegar_copy, &h_m_salt_secret) *)
CopyHash ==
  /\ pc = "copy"
  /\ HashCopy("h_vinegar_copy", "h_m_salt_secret")
  /\ pc' = "digest"
  /\ UNCHANGED <<op, msg, ret, keyVars, salt, n_attempt, solvable, sysVars, signature, tried>>

(* hash_final_digest(y); the copy goes on to absorb sk_seed. *)
DigestMessage ==
  /\ pc = "digest"
  /\ y' = Absorbed("h_m_salt_secret")
  /\ HashFree("h_m_salt_secret")
  /\ HashUpdate("h_vinegar_copy", "sk_seed")
  /\ pc' = "loop"
  /\ UNCHANGED <<op, msg, ret, keyVars, salt, n_attempt, solvable, vinegar, x_o1,
                 signature, tried>>

(* uint8_t ctr = n_attempt & 0xff; n_attempt++ *)
AttemptCtrNarrow(n) == n % (CtrVals - 1)
AttemptCtr(n) == n % CtrVals
CountedNever == n_attempt
Counted == n_attempt + 1

(* while (MAX_ATTEMPT_VINEGAR > n_attempt) *)
MoreAttempts == n_attempt < MaxAttempt

(* The loop head: one more vinegar context, or out of attempts. *)
StartAttempt ==
  /\ pc = "loop"
  /\ MoreAttempts
  /\ n_attempt' = Counted
  /\ HashCopy("h_vinegar", "h_vinegar_copy")
  /\ pc' = "vinegar"
  /\ UNCHANGED <<op, msg, ret, keyVars, salt, solvable, sysVars, signature, tried>>

Exhaust ==
  /\ pc = "loop"
  /\ ~ MoreAttempts
  /\ pc' = "finish"
  /\ UNCHANGED <<op, msg, ret, hashVars, keyVars, salt, n_attempt, solvable, sysVars,
                 signature, tried>>

(* hash_update(&ctr), hash_final_digest(vinegar); then the matrix and the  *)
(* constant of the linear system are computed from it.                     *)
DrawVinegar ==
  /\ pc = "vinegar"
  /\ vinegar' = Append(Absorbed("h_vinegar"), AttemptCtr(n_attempt - 1))
  /\ HashFree("h_vinegar")
  /\ tried' = tried \cup {vinegar'}
  /\ pc' = "solve"
  /\ UNCHANGED <<op, msg, ret, ctx, keyVars, salt, n_attempt, solvable, y, x_o1, signature>>

(* Gaussian elimination: continue when it fails, else back substitution    *)
(* and break.                                                              *)
Solve ==
  /\ pc = "solve"
  /\ \/ /\ vinegar[Len(vinegar)] \in solvable
        /\ x_o1' = {[vinegar |-> vinegar, y |-> y]}
        /\ pc' = "finish"
     \/ /\ vinegar[Len(vinegar)] \notin solvable
        /\ pc' = "loop"
        /\ UNCHANGED x_o1
  /\ UNCHANGED <<op, msg, ret, hashVars, keyVars, salt, n_attempt, solvable, y, vinegar,
                 signature, tried>>

GiveUpLate == MaxAttempt < n_attempt
GiveUpEarly == MaxAttempt <= n_attempt + 1
GiveUp == MaxAttempt <= n_attempt

(* The copy is freed, then either -1 or the signature w || salt, and       *)
(* ov_sign_core returns.                                                   *)
Finish ==
  /\ pc = "finish"
  /\ HashFree("h_vinegar_copy")
  /\ \/ GiveUp /\ ret' = -1 /\ UNCHANGED signature
     \/ /\ ~ GiveUp
        /\ ret' = 0
        /\ signature' = [vinegar |-> vinegar, oil |-> x_o1, salt |-> salt]
  /\ pc' = IF ExpandSk THEN "free_sk" ELSE "idle"
  /\ LocalsGone
  /\ UNCHANGED <<op, msg, keyVars>>

(* ov_free(sk) *)
FreeSk ==
  /\ pc = "free_sk"
  /\ skLive' = FALSE
  /\ pc' = "idle"
  /\ UNCHANGED <<op, msg, ret, hashVars, pkLive, salt, n_attempt, solvable, sysVars,
                 signature, tried>>

-----------------------------------------------------------------------------
(* ov_verify, or ov_expand_and_verify, is called on the buffer. *)
CallVerify(m) ==
  /\ pc = "idle"
  /\ pc' = IF ExpandPk THEN "alloc_pk" ELSE "hash_ck"
  /\ op' = "verify"
  /\ msg' = m
  /\ UNCHANGED <<ret, hashVars, keyVars, salt, n_attempt, solvable, sysVars,
                 signature, tried>>

(* ov_malloc(sizeof(pk_t)), then expand_pk. *)
AllocPk ==
  /\ pc = "alloc_pk"
  /\ \/ pc' = "idle" /\ ret' = -1 /\ UNCHANGED pkLive
     \/ pc' = "hash_ck" /\ pkLive' = TRUE /\ UNCHANGED ret
  /\ UNCHANGED <<op, msg, hashVars, skLive, salt, n_attempt, solvable, sysVars,
                 signature, tried>>

(* _ov_verify: hash_init, and the updates with the message and the salt    *)
(* found in the buffer.                                                    *)
SaltOf(sig) == sig.salt
HashCheck ==
  /\ pc = "hash_ck"
  /\ HashInit("hctx", <<msg, SaltOf(signature)>>)
  /\ pc' = "compare"
  /\ UNCHANGED <<op, msg, ret, keyVars, salt, n_attempt, solvable, sysVars,
                 signature, tried>>

(* cc |= digest_ck[i] ^ correct[i] over all of the digest. *)
DigestEqualFirst(d, correct) == \E x \in d : x[1] = correct[1]
DigestEqual(d, correct) == d = {correct}

(* hash_final_digest(correct); the comparison with the public map. *)
Compare ==
  /\ pc = "compare"
  /\ HashFree("hctx")
  /\ ret' = IF DigestEqual(PublicMap(signature), Absorbed("hctx")) THEN 0 ELSE -1
  /\ pc' = IF ExpandPk THEN "free_pk" ELSE "idle"
  /\ ctx' = NoContexts
  /\ UNCHANGED <<op, msg, keyVars, salt, n_attempt, solvable, sysVars,
                 signature, tried>>

(* ov_free(pk) *)
FreePk ==
  /\ pc = "free_pk"
  /\ pkLive' = FALSE
  /\ pc' = "idle"
  /\ UNCHANGED <<op, msg, ret, hashVars, skLive, salt, n_attempt, solvable, sysVars,
                 signature, tried>>

(* The caller changes the signature between two calls: another salt, or    *)
(* another vinegar part.                                                   *)
Overwrite ==
  /\ pc = "idle"
  /\ \/ \E s \in Salts : signature' = [signature EXCEPT !.salt = s]
     \/ signature' = [signature EXCEPT !.vinegar = <<>>]
  /\ UNCHANGED <<pc, op, msg, ret, hashVars, keyVars, salt, n_attempt, solvable, sysVars,
                 tried>>

-----------------------------------------------------------------------------
Init ==
  /\ pc = "idle" /\ op = "verify" /\ msg \in Msgs /\ ret = 0
  /\ heap = {} /\ skLive = FALSE /\ pkLive = FALSE
  /\ signature = [vinegar |-> <<>>, oil |-> {}, salt |-> None]
  /\ NoLocals

(* The steps of a call in progress, as against what its caller does. *)
SignStep ==
  \/ AllocSk \/ HashMessage \/ CopyHash \/ DigestMessage
  \/ StartAttempt \/ Exhaust \/ DrawVinegar \/ Solve \/ Finish \/ FreeSk
VerifyStep == AllocPk \/ HashCheck \/ Compare \/ FreePk
Step == SignStep \/ VerifyStep

Next ==
  \/ \E m \in Msgs : CallSign(m) \/ CallVerify(m)
  \/ Overwrite
  \/ Step

(* A thread inside a call keeps running; nothing makes the caller call. *)
Spec == Init /\ [][Next]_vars /\ WF_vars(Step)

-----------------------------------------------------------------------------
PCs == {"idle", "alloc_sk", "hash", "copy", "digest", "loop", "vinegar", "solve",
        "finish", "free_sk", "alloc_pk", "hash_ck", "compare", "free_pk"}

(* The buffers hold what the code puts there, and the attempt counter      *)
(* never passes MAX_ATTEMPT_VINEGAR.                                       *)
TypeOK ==
  /\ pc \in PCs /\ op \in {"sign", "verify"} /\ msg \in Msgs /\ ret \in {0, -1}
  /\ heap \subseteq Handles
  /\ \A c \in Ctxs : ctx[c].handle \in Handles \cup {None}
  /\ skLive \in BOOLEAN /\ pkLive \in BOOLEAN
  /\ salt \in Salts \cup {None}
  /\ n_attempt \in 0 .. MaxAttempt
  /\ solvable \subseteq 0 .. CtrVals - 1
  /\ signature.salt \in Salts \cup {None}

(* The hash contexts a step is about to read are live: the context the     *)
(* copy is taken from outlives the copy, and the copy outlives the loop    *)
(* (hash_final_digest frees; nothing reads a context after it).            *)
ContextsLive ==
  /\ pc \in {"copy", "digest"} => Live("h_m_salt_secret")
  /\ pc \in {"digest", "loop", "vinegar", "solve", "finish"} => Live("h_vinegar_copy")
  /\ pc = "vinegar" => Live("h_vinegar")
  /\ pc = "compare" => Live("hctx")

(* A call that has returned holds nothing: no hash context of any of its   *)
(* up to 258 and no expanded key, whether it succeeded, ran out of         *)
(* attempts or out of memory.                                              *)
NothingHeld == pc = "idle" => heap = {} /\ ~ skLive /\ ~ pkLive

(* No vinegar vector is tried twice in a call: the uint8_t counter does    *)
(* not wrap within MAX_ATTEMPT_VINEGAR attempts.                           *)
VinegarFresh ==
  op = "sign" /\ pc \in {"loop", "solve", "finish"} => Cardinality(tried) = n_attempt

(* A sign call that returned 0 has left a signature of its message and of  *)
(* no other: the vinegar, the oil part and the digest belong to one        *)
(* attempt of this call.                                                   *)
SignedVerifies ==
  [][pc = "finish" /\ pc' # "finish" /\ ret' = 0 => ValidFor(signature') = {msg}]_vars

(* ov_sign_core fails only after all MAX_ATTEMPT_VINEGAR attempts. *)
FailsExhausted ==
  [][pc = "finish" /\ pc' # "finish" /\ ret' = -1 => Cardinality(tried) = MaxAttempt]_vars

(* Calls of sign and verify are the calls of SignatureService; what is     *)
(* left of a call once its result stands is freeing the expanded key.      *)
Service == INSTANCE SignatureService WITH
  MayLackPk <- ExpandPk,
  busy <- IF pc \in {"idle", "free_sk", "free_pk"} THEN "none" ELSE op,
  arg <- msg,
  validFor <- ValidFor(signature)
ImplementsService == Service!SvcSpec

(* Every call returns: the loop is bounded and nothing in it blocks. *)
CallsReturn == pc # "idle" ~> pc = "idle"

(* A signing attempt whose linear system was solved makes the call return  *)
(* 0 ("@return 0 for success. -1 otherwise.", ov.h).                       *)
SolvedSucceeds ==
  [][pc = "finish" /\ pc' # "finish" /\ x_o1 # {} => ret' = 0]_vars
=============================================================================

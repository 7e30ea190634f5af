---------------------------- MODULE OvSignProofs ----------------------------
(***************************************************************************)
(* Proofs about OvSign for every set of messages, salts and allocator      *)
(* addresses, every attempt bound and every variant.                       *)
(*                                                                         *)
(* The inductive invariant has three parts.  Holding says exactly which    *)
(* contexts and keys are allocated at each point of a call; Absorbing says *)
(* what each live context has absorbed; Solved says that an oil part on    *)
(* the way to the signature belongs to the vinegar vector and the digest   *)
(* it is about to be combined with.                                        *)
(***************************************************************************)
EXTENDS OvSign, FiniteSetTheorems, SequenceTheorems, TLAPS

(* Context c is allocated at point p of a call. *)
LiveAt(c, p) ==
  \/ c = "h_m_salt_secret" /\ p \in {"copy", "digest"}
  \/ c = "h_vinegar_copy" /\ p \in {"digest", "loop", "vinegar", "solve", "finish"}
  \/ c = "h_vinegar" /\ p = "vinegar"
  \/ c = "hctx" /\ p = "compare"

SignPCs == {"alloc_sk", "hash", "copy", "digest", "loop", "vinegar", "solve", "finish", "free_sk"}
VerifyPCs == {"alloc_pk", "hash_ck", "compare", "free_pk"}

Typed ==
  /\ pc \in PCs /\ op \in {"sign", "verify"} /\ msg \in Msgs /\ ret \in {0, -1}
  /\ heap \subseteq Handles
  /\ DOMAIN ctx = Ctxs
  /\ \A c \in Ctxs : /\ ctx[c] = [handle |-> ctx[c].handle, absorbed |-> ctx[c].absorbed]
                     /\ ctx[c].handle \in Handles \cup {None}
  /\ skLive \in BOOLEAN /\ pkLive \in BOOLEAN
  /\ salt \in Salts \cup {None}
  /\ n_attempt \in 0 .. MaxAttempt
  /\ solvable \subseteq 0 .. CtrVals - 1
  /\ signature = [vinegar |-> signature.vinegar, oil |-> signature.oil, salt |-> signature.salt]
  /\ signature.salt \in Salts \cup {None}

(* The heap is the handles of the live contexts, no two sharing one. *)
Holding ==
  /\ \A c \in Ctxs : LiveAt(c, pc) => ctx[c].handle \in heap
  /\ \A h \in heap : \E c \in Ctxs : LiveAt(c, pc) /\ ctx[c].handle = h
  /\ \A c, d \in Ctxs :
       LiveAt(c, pc) /\ LiveAt(d, pc) /\ ctx[c].handle = ctx[d].handle => c = d

KeysHeld ==
  /\ skLive <=> ExpandSk /\ pc \in SignPCs \ {"alloc_sk"}
  /\ pkLive <=> ExpandPk /\ pc \in VerifyPCs \ {"alloc_pk"}
  /\ pc \in {"alloc_sk", "free_sk"} => ExpandSk
  /\ pc \in {"alloc_pk", "free_pk"} => ExpandPk
  /\ pc \in SignPCs => op = "sign"
  /\ pc \in VerifyPCs => op = "verify"

LoopPCs == {"loop", "vinegar", "solve", "finish"}

Absorbing ==
  /\ pc \in {"copy", "digest"} => ctx["h_m_salt_secret"].absorbed = <<msg, salt>>
  /\ pc \in LoopPCs => y = <<msg, salt>>
  /\ pc = "compare" => ctx["hctx"].absorbed = <<msg, signature.salt>>

Solved ==
  pc = "finish" /\ n_attempt < MaxAttempt => x_o1 = {[vinegar |-> vinegar, y |-> y]}

IInv == Typed /\ Holding /\ KeysHeld /\ Absorbing /\ Solved

LEMMA InitInv == Init => IInv
<1> SUFFICES ASSUME Init PROVE IInv
  OBVIOUS
<1> USE DEF Init, NoLocals, NoContexts
<1>1. Typed
  <2>1. DOMAIN ctx = Ctxs /\ \A c \in Ctxs : ctx[c] = [handle |-> None, absorbed |-> <<>>]
    OBVIOUS
  <2>2. \A c \in Ctxs : /\ ctx[c] = [handle |-> ctx[c].handle, absorbed |-> ctx[c].absorbed]
                        /\ ctx[c].handle \in Handles \cup {None}
    BY <2>1
  <2>3. n_attempt \in 0 .. MaxAttempt
    BY AttemptAssumption
  <2> QED BY <2>1, <2>2, <2>3 DEF Typed, PCs
<1>2. Holding
  BY DEF Holding, LiveAt
<1>3. KeysHeld
  BY DEF KeysHeld, SignPCs, VerifyPCs
<1>4. Absorbing /\ Solved
  BY DEF Absorbing, Solved, LoopPCs
<1> QED BY <1>1, <1>2, <1>3, <1>4 DEF IInv

LEMMA CallSignInv ==
  ASSUME IInv, NEW m \in Msgs, CallSign(m)
  PROVE  IInv'
<1> USE DEF IInv, CallSign, keyVars, hashVars, sysVars
<1>1. Typed'
  BY DEF Typed, PCs, Ctxs
<1>2. Holding'
  BY DEF Holding, LiveAt
<1>3. KeysHeld'
  BY VariantAssumption DEF KeysHeld, SignPCs, VerifyPCs, Typed
<1>4. Absorbing' /\ Solved'
  BY DEF Absorbing, Solved, LoopPCs
<1> QED BY <1>1, <1>2, <1>3, <1>4

LEMMA CallVerifyInv ==
  ASSUME IInv, NEW m \in Msgs, CallVerify(m)
  PROVE  IInv'
<1> USE DEF IInv, CallVerify, keyVars, hashVars, sysVars
<1>1. Typed'
  BY DEF Typed, PCs, Ctxs
<1>2. Holding'
  BY NoneAssumption DEF Holding, LiveAt, Typed, Ctxs
<1>3. KeysHeld'
  BY VariantAssumption DEF KeysHeld, SignPCs, VerifyPCs, Typed
<1>4. Absorbing' /\ Solved'
  BY DEF Absorbing, Solved, LoopPCs, Typed, Holding, LiveAt, Ctxs
<1> QED BY <1>1, <1>2, <1>3, <1>4

LEMMA AllocSkInv ==
  ASSUME IInv, AllocSk
  PROVE  IInv'
<1> USE DEF IInv, AllocSk, keyVars, hashVars, sysVars
<1>1. Typed'
  BY DEF Typed, PCs, Ctxs
<1>2. Holding'
  BY NoneAssumption DEF Holding, LiveAt, Typed, Ctxs
<1>3. KeysHeld'
  BY VariantAssumption DEF KeysHeld, SignPCs, VerifyPCs, Typed
<1>4. Absorbing' /\ Solved'
  BY DEF Absorbing, Solved, LoopPCs, Typed, Holding, LiveAt, Ctxs
<1> QED BY <1>1, <1>2, <1>3, <1>4

LEMMA HashMessageInv ==
  ASSUME IInv, HashMessage
  PROVE  IInv'
<1> USE DEF IInv, HashMessage, keyVars, hashVars, sysVars
<1>1. Typed'
  BY DEF Typed, PCs, Ctxs, HashInit
<1>2. Holding'
  BY NoneAssumption DEF Holding, LiveAt, Typed, Ctxs, HashInit
<1>3. KeysHeld'
  BY VariantAssumption DEF KeysHeld, SignPCs, VerifyPCs, Typed
<1>4. Absorbing' /\ Solved'
  BY DEF Absorbing, Solved, LoopPCs, Typed, Holding, LiveAt, Ctxs, HashInit
<1> QED BY <1>1, <1>2, <1>3, <1>4

LEMMA CopyHashInv ==
  ASSUME IInv, CopyHash
  PROVE  IInv'
<1> USE DEF IInv, CopyHash, keyVars, hashVars, sysVars
<1>1. Typed'
  BY DEF Typed, PCs, Ctxs, HashCopy, HashInit, Absorbed
<1>2. Holding'
  BY NoneAssumption DEF Holding, LiveAt, Typed, Ctxs, HashCopy, HashInit, Absorbed
<1>3. KeysHeld'
  BY VariantAssumption DEF KeysHeld, SignPCs, VerifyPCs, Typed
<1>4. Absorbing' /\ Solved'
  BY DEF Absorbing, Solved, LoopPCs, Typed, Holding, LiveAt, Ctxs, HashCopy, HashInit, Absorbed
<1> QED BY <1>1, <1>2, <1>3, <1>4

LEMMA DigestMessageInv ==
  ASSUME IInv, DigestMessage
  PROVE  IInv'
<1> USE DEF IInv, DigestMessage, keyVars, hashVars, sysVars
<1>1. Typed'
  <2>1. /\ DOMAIN ctx' = Ctxs
        /\ \A c \in Ctxs : /\ ctx'[c] = [handle |-> ctx'[c].handle, absorbed |-> ctx'[c].absorbed]
                           /\ ctx'[c].handle \in Handles \cup {None}
    BY DEF Typed, HashUpdate, Ctxs
  <2>2. heap' \subseteq Handles
    BY DEF Typed, HashFree
  <2> QED BY <2>1, <2>2 DEF Typed, PCs
<1>2. Holding'
  BY NoneAssumption DEF Holding, LiveAt, Typed, Ctxs, HashFree, HashUpdate, Absorbed, LocalsGone, NoContexts, GiveUp
<1>3. KeysHeld'
  BY VariantAssumption DEF KeysHeld, SignPCs, VerifyPCs, Typed
<1>4. Absorbing' /\ Solved'
  BY DEF Absorbing, Solved, LoopPCs, Typed, Holding, LiveAt, Ctxs, HashFree, HashUpdate, Absorbed, LocalsGone, NoContexts, GiveUp
<1> QED BY <1>1, <1>2, <1>3, <1>4

LEMMA StartAttemptInv ==
  ASSUME IInv, StartAttempt
  PROVE  IInv'
<1> USE DEF IInv, StartAttempt, MoreAttempts, keyVars, hashVars, sysVars
<1>1. Typed'
  <2>1. n_attempt' \in 0 .. MaxAttempt
    BY AttemptAssumption DEF Typed, Counted
  <2>2. PICK h \in Handles : /\ heap' = heap \cup {h}
                             /\ ctx' = [ctx EXCEPT !["h_vinegar"] =
                                  [handle |-> h, absorbed |-> ctx["h_vinegar_copy"].absorbed]]
    BY DEF HashCopy, HashInit, Absorbed
  <2>3. heap' \subseteq Handles
    BY <2>2 DEF Typed
  <2>4. /\ DOMAIN ctx' = Ctxs
        /\ \A c \in Ctxs : /\ ctx'[c] = [handle |-> ctx'[c].handle, absorbed |-> ctx'[c].absorbed]
                           /\ ctx'[c].handle \in Handles \cup {None}
    BY <2>2 DEF Typed, Ctxs
  <2> QED BY <2>1, <2>3, <2>4 DEF Typed, PCs
<1>2. Holding'
  BY NoneAssumption DEF Holding, LiveAt, Typed, Ctxs, HashCopy, HashInit, Absorbed
<1>3. KeysHeld'
  BY VariantAssumption DEF KeysHeld, SignPCs, VerifyPCs, Typed
<1>4. Absorbing' /\ Solved'
  BY DEF Absorbing, Solved, LoopPCs, Typed, Holding, LiveAt, Ctxs, HashCopy, HashInit, Absorbed
<1> QED BY <1>1, <1>2, <1>3, <1>4

LEMMA ExhaustInv ==
  ASSUME IInv, Exhaust
  PROVE  IInv'
<1> USE DEF IInv, Exhaust, MoreAttempts, keyVars, hashVars, sysVars
<1>1. Typed'
  BY DEF Typed, PCs, Ctxs
<1>2. Holding'
  BY NoneAssumption DEF Holding, LiveAt, Typed, Ctxs
<1>3. KeysHeld'
  BY VariantAssumption DEF KeysHeld, SignPCs, VerifyPCs, Typed
<1>4. Absorbing' /\ Solved'
  BY DEF Absorbing, Solved, LoopPCs, Typed, Holding, LiveAt, Ctxs
<1> QED BY <1>1, <1>2, <1>3, <1>4

LEMMA DrawVinegarInv ==
  ASSUME IInv, DrawVinegar
  PROVE  IInv'
<1> USE DEF IInv, DrawVinegar, keyVars, hashVars, sysVars
<1>1. Typed'
  BY DEF Typed, PCs, Ctxs, HashFree, HashUpdate, Absorbed, LocalsGone, NoContexts, GiveUp
<1>2. Holding'
  BY NoneAssumption DEF Holding, LiveAt, Typed, Ctxs, HashFree, HashUpdate, Absorbed, LocalsGone, NoContexts, GiveUp
<1>3. KeysHeld'
  BY VariantAssumption DEF KeysHeld, SignPCs, VerifyPCs, Typed
<1>4. Absorbing' /\ Solved'
  BY DEF Absorbing, Solved, LoopPCs, Typed, Holding, LiveAt, Ctxs, HashFree, HashUpdate, Absorbed, LocalsGone, NoContexts, GiveUp
<1> QED BY <1>1, <1>2, <1>3, <1>4

LEMMA SolveInv ==
  ASSUME IInv, Solve
  PROVE  IInv'
<1> USE DEF IInv, Solve, keyVars, hashVars, sysVars
<1>1. Typed'
  BY DEF Typed, PCs, Ctxs
<1>2. Holding'
  BY NoneAssumption DEF Holding, LiveAt, Typed, Ctxs
<1>3. KeysHeld'
  BY VariantAssumption DEF KeysHeld, SignPCs, VerifyPCs, Typed
<1>4. Absorbing' /\ Solved'
  BY DEF Absorbing, Solved, LoopPCs, Typed, Holding, LiveAt, Ctxs
<1> QED BY <1>1, <1>2, <1>3, <1>4

LEMMA FinishInv ==
  ASSUME IInv, Finish
  PROVE  IInv'
<1> USE DEF IInv, Finish, keyVars, hashVars, sysVars
<1>1. Typed'
  <2>1. ctx' = NoContexts
    BY DEF LocalsGone
  <2>2. /\ DOMAIN ctx' = Ctxs
        /\ \A c \in Ctxs : /\ ctx'[c] = [handle |-> ctx'[c].handle, absorbed |-> ctx'[c].absorbed]
                           /\ ctx'[c].handle \in Handles \cup {None}
    BY <2>1 DEF NoContexts
  <2>3. heap' \subseteq Handles
    BY DEF Typed, HashFree
  <2>4. n_attempt' \in 0 .. MaxAttempt /\ salt' = None /\ solvable' = {}
    BY AttemptAssumption DEF LocalsGone
  <2>5. pc' \in PCs
    BY DEF PCs
  <2>6. /\ ret' \in {0, -1} /\ signature'.salt \in Salts \cup {None}
        /\ signature' = [vinegar |-> signature'.vinegar, oil |-> signature'.oil,
                         salt |-> signature'.salt]
    BY DEF Typed
  <2> QED BY <2>2, <2>3, <2>4, <2>5, <2>6 DEF Typed
<1>2. Holding'
  BY NoneAssumption DEF Holding, LiveAt, Typed, Ctxs, HashFree, HashUpdate, Absorbed, LocalsGone, NoContexts, GiveUp
<1>3. KeysHeld'
  BY VariantAssumption DEF KeysHeld, SignPCs, VerifyPCs, Typed
<1>4. Absorbing' /\ Solved'
  BY DEF Absorbing, Solved, LoopPCs, Typed, Holding, LiveAt, Ctxs, HashFree, HashUpdate, Absorbed, LocalsGone, NoContexts, GiveUp
<1> QED BY <1>1, <1>2, <1>3, <1>4

LEMMA FreeSkInv ==
  ASSUME IInv, FreeSk
  PROVE  IInv'
<1> USE DEF IInv, FreeSk, keyVars, hashVars, sysVars
<1>1. Typed'
  BY DEF Typed, PCs, Ctxs
<1>2. Holding'
  BY NoneAssumption DEF Holding, LiveAt, Typed, Ctxs
<1>3. KeysHeld'
  BY VariantAssumption DEF KeysHeld, SignPCs, VerifyPCs, Typed
<1>4. Absorbing' /\ Solved'
  BY DEF Absorbing, Solved, LoopPCs, Typed, Holding, LiveAt, Ctxs
<1> QED BY <1>1, <1>2, <1>3, <1>4

LEMMA AllocPkInv ==
  ASSUME IInv, AllocPk
  PROVE  IInv'
<1> USE DEF IInv, AllocPk, keyVars, hashVars, sysVars
<1>1. Typed'
  BY DEF Typed, PCs, Ctxs
<1>2. Holding'
  BY NoneAssumption DEF Holding, LiveAt, Typed, Ctxs
<1>3. KeysHeld'
  BY VariantAssumption DEF KeysHeld, SignPCs, VerifyPCs, Typed
<1>4. Absorbing' /\ Solved'
  BY DEF Absorbing, Solved, LoopPCs, Typed, Holding, LiveAt, Ctxs
<1> QED BY <1>1, <1>2, <1>3, <1>4

LEMMA HashCheckInv ==
  ASSUME IInv, HashCheck
  PROVE  IInv'
<1> USE DEF IInv, HashCheck, keyVars, hashVars, sysVars
<1>1. Typed'
  BY DEF Typed, PCs, Ctxs, HashInit
<1>2. Holding'
  BY NoneAssumption DEF Holding, LiveAt, Typed, Ctxs, HashInit
<1>3. KeysHeld'
  BY VariantAssumption DEF KeysHeld, SignPCs, VerifyPCs, Typed
<1>4. Absorbing' /\ Solved'
  BY DEF Absorbing, Solved, LoopPCs, Typed, Holding, LiveAt, Ctxs, HashInit, SaltOf
<1> QED BY <1>1, <1>2, <1>3, <1>4

LEMMA CompareInv ==
  ASSUME IInv, Compare
  PROVE  IInv'
<1> USE DEF IInv, Compare, keyVars, hashVars, sysVars
<1>1. Typed'
  BY DEF Typed, PCs, Ctxs, HashFree, HashUpdate, Absorbed, LocalsGone, NoContexts, GiveUp
<1>2. Holding'
  BY NoneAssumption DEF Holding, LiveAt, Typed, Ctxs, HashFree, HashUpdate, Absorbed, LocalsGone, NoContexts, GiveUp
<1>3. KeysHeld'
  BY VariantAssumption DEF KeysHeld, SignPCs, VerifyPCs, Typed
<1>4. Absorbing' /\ Solved'
  BY DEF Absorbing, Solved, LoopPCs, Typed, Holding, LiveAt, Ctxs, HashFree, HashUpdate, Absorbed, LocalsGone, NoContexts, GiveUp
<1> QED BY <1>1, <1>2, <1>3, <1>4

LEMMA FreePkInv ==
  ASSUME IInv, FreePk
  PROVE  IInv'
<1> USE DEF IInv, FreePk, keyVars, hashVars, sysVars
<1>1. Typed'
  BY DEF Typed, PCs, Ctxs
<1>2. Holding'
  BY NoneAssumption DEF Holding, LiveAt, Typed, Ctxs
<1>3. KeysHeld'
  BY VariantAssumption DEF KeysHeld, SignPCs, VerifyPCs, Typed
<1>4. Absorbing' /\ Solved'
  BY DEF Absorbing, Solved, LoopPCs, Typed, Holding, LiveAt, Ctxs
<1> QED BY <1>1, <1>2, <1>3, <1>4

LEMMA OverwriteInv ==
  ASSUME IInv, Overwrite
  PROVE  IInv'
<1> USE DEF IInv, Overwrite, keyVars, hashVars, sysVars
<1>1. Typed'
  BY DEF Typed, PCs, Ctxs
<1>2. Holding'
  BY NoneAssumption DEF Holding, LiveAt, Typed, Ctxs
<1>3. KeysHeld'
  BY VariantAssumption DEF KeysHeld, SignPCs, VerifyPCs, Typed
<1>4. Absorbing' /\ Solved'
  BY DEF Absorbing, Solved, LoopPCs, Typed, Holding, LiveAt, Ctxs
<1> QED BY <1>1, <1>2, <1>3, <1>4

-----------------------------------------------------------------------------
LEMMA StutterInv ==
  ASSUME IInv, UNCHANGED vars
  PROVE  IInv'
  BY DEF IInv, vars, Typed, Holding, KeysHeld, Absorbing, Solved, LiveAt

LEMMA StepInv == IInv /\ [Next]_vars => IInv'
<1> SUFFICES ASSUME IInv, [Next]_vars PROVE IInv'
  OBVIOUS
<1>1. ASSUME NEW m \in Msgs, CallSign(m) PROVE IInv'
  BY <1>1, CallSignInv
<1>2. ASSUME NEW m \in Msgs, CallVerify(m) PROVE IInv'
  BY <1>2, CallVerifyInv
<1>3. CASE AllocSk
  BY <1>3, AllocSkInv
<1>4. CASE HashMessage
  BY <1>4, HashMessageInv
<1>5. CASE CopyHash
  BY <1>5, CopyHashInv
<1>6. CASE DigestMessage
  BY <1>6, DigestMessageInv
<1>7. CASE StartAttempt
  BY <1>7, StartAttemptInv
<1>8. CASE Exhaust
  BY <1>8, ExhaustInv
<1>9. CASE DrawVinegar
  BY <1>9, DrawVinegarInv
<1>10. CASE Solve
  BY <1>10, SolveInv
<1>11. CASE Finish
  BY <1>11, FinishInv
<1>12. CASE FreeSk
  BY <1>12, FreeSkInv
<1>13. CASE AllocPk
  BY <1>13, AllocPkInv
<1>14. CASE HashCheck
  BY <1>14, HashCheckInv
<1>15. CASE Compare
  BY <1>15, CompareInv
<1>16. CASE FreePk
  BY <1>16, FreePkInv
<1>17. CASE Overwrite
  BY <1>17, OverwriteInv
<1>18. CASE UNCHANGED vars
  BY <1>18, StutterInv
<1> QED BY <1>1, <1>2, <1>3, <1>4, <1>5, <1>6, <1>7, <1>8, <1>9, <1>10, <1>11, <1>12, <1>13, <1>14, <1>15, <1>16, <1>17, <1>18 DEF Next, Step, SignStep, VerifyStep

LEMMA Invariant == Spec => []IInv
  BY InitInv, StepInv, PTL DEF Spec

(* TypeOK: the buffers hold what the code puts there and the attempt       *)
(* counter never passes MAX_ATTEMPT_VINEGAR.                               *)
THEOREM TypeCorrect == Spec => []TypeOK
<1>1. IInv => TypeOK
  BY DEF IInv, Typed, TypeOK
<1> QED BY <1>1, Invariant, PTL

(* No step of a call reads a hash context that was not allocated or was    *)
(* already freed by hash_final_digest.                                     *)
THEOREM ContextsAlwaysLive == Spec => []ContextsLive
<1>1. IInv => ContextsLive
  BY DEF IInv, Holding, LiveAt, ContextsLive, Live, Ctxs
<1> QED BY <1>1, Invariant, PTL

(* A call that has returned has freed every context and every key it       *)
(* allocated, on each of its return paths.                                 *)
THEOREM NothingHeldAtReturn == Spec => []NothingHeld
<1>1. IInv => NothingHeld
  <2> SUFFICES ASSUME IInv, pc = "idle" PROVE heap = {} /\ ~ skLive /\ ~ pkLive
    BY DEF NothingHeld
  <2>1. \A c \in Ctxs : ~ LiveAt(c, pc)
    BY DEF LiveAt
  <2>2. heap = {}
    BY <2>1 DEF IInv, Holding
  <2>3. ~ skLive /\ ~ pkLive
    BY DEF IInv, KeysHeld, SignPCs, VerifyPCs
  <2> QED BY <2>2, <2>3
<1> QED BY <1>1, Invariant, PTL

(* What Finish leaves behind when it returns 0. *)
LEMMA FinishValid ==
  ASSUME IInv, Finish, ret' = 0
  PROVE  ValidFor(signature') = {msg}
<1>1. n_attempt < MaxAttempt
  BY AttemptAssumption DEF Finish, GiveUp, IInv, Typed
<1>2. x_o1 = {[vinegar |-> vinegar, y |-> y]} /\ y = <<msg, salt>>
  BY <1>1 DEF Finish, IInv, Solved, Absorbing, LoopPCs
<1>3. signature' = [vinegar |-> vinegar, oil |-> x_o1, salt |-> salt]
  BY DEF Finish
<1> DEFINE o == [vinegar |-> vinegar, y |-> y]
<1>4. signature'.oil = {o} /\ signature'.vinegar = vinegar /\ signature'.salt = salt
  BY <1>2, <1>3
<1>5. {x \in signature'.oil : x.vinegar = signature'.vinegar} = {o}
  BY <1>4
<1>6. PublicMap(signature') = {<<msg, salt>>}
  <2>1. PublicMap(signature') = {x.y : x \in {o}}
    BY <1>5 DEF PublicMap
  <2>2. o.y = <<msg, salt>>
    BY <1>2
  <2> HIDE DEF o
  <2>3. {x.y : x \in {o}} = {o.y}
    OBVIOUS
  <2> QED BY <2>1, <2>2, <2>3
<1>7. \A m \in Msgs : {<<msg, salt>>} = {<<m, salt>>} <=> m = msg
  <2> SUFFICES ASSUME NEW m \in Msgs
               PROVE  {<<msg, salt>>} = {<<m, salt>>} <=> m = msg
    OBVIOUS
  <2>1. <<msg, salt>> = <<m, salt>> <=> m = msg
    OBVIOUS
  <2>2. ASSUME NEW a, NEW b PROVE {a} = {b} <=> a = b
    OBVIOUS
  <2> QED BY <2>1, <2>2, Zenon
<1>8. msg \in Msgs
  BY DEF IInv, Typed
<1> QED BY <1>4, <1>6, <1>7, <1>8 DEF ValidFor

(* A sign call that returns 0 leaves a signature of its message and of no  *)
(* other: the rejection loop never mixes the parts of two attempts.        *)
THEOREM SignedAlwaysVerifies == Spec => SignedVerifies
<1>1. IInv /\ [Next]_vars
        => [pc = "finish" /\ pc' # "finish" /\ ret' = 0 => ValidFor(signature') = {msg}]_vars
  <2> SUFFICES ASSUME IInv, Next, pc = "finish", pc' # "finish", ret' = 0
               PROVE  ValidFor(signature') = {msg}
    OBVIOUS
  <2>1. Finish
    BY DEF Next, Step, SignStep, VerifyStep, CallSign, CallVerify, Overwrite, AllocSk, HashMessage,
       CopyHash, DigestMessage, StartAttempt, Exhaust, DrawVinegar, Solve, FreeSk, AllocPk,
       HashCheck, Compare, FreePk
  <2> QED BY <2>1, FinishValid
<1> QED BY <1>1, Invariant, PTL DEF Spec, SignedVerifies

-----------------------------------------------------------------------------
(* The vinegar vector of counter k in a call that drew salt s for m. *)
Vector(k) == <<msg, salt, "sk_seed", k>>

(* The attempts that have drawn their vector. *)
Drawn == IF pc = "vinegar" THEN n_attempt - 1 ELSE n_attempt

(* The contexts the vectors come from stay what they were before the loop, *)
(* and the counters of the attempts made are 0, 1, ...                     *)
Drawing ==
  /\ pc = "copy" => ctx["h_m_salt_secret"].absorbed = <<msg, salt>>
  /\ pc = "digest" => ctx["h_vinegar_copy"].absorbed = <<msg, salt>>
  /\ pc \in LoopPCs => ctx["h_vinegar_copy"].absorbed = <<msg, salt, "sk_seed">>
  /\ pc = "vinegar" => ctx["h_vinegar"].absorbed = <<msg, salt, "sk_seed">> /\ n_attempt > 0
  /\ pc \in LoopPCs => tried = {Vector(k) : k \in 0 .. Drawn - 1}
  /\ pc \notin LoopPCs => tried = {} /\ n_attempt = 0

LEMMA Appended ==
  ASSUME NEW u, NEW v, NEW w, NEW z
  PROVE  Append(<<u, v>>, w) = <<u, v, w>> /\ Append(<<u, v, w>>, z) = <<u, v, w, z>>
<1>1. ASSUME NEW T, u \in T, v \in T, w \in T, z \in T
      PROVE  Append(<<u, v>>, w) = <<u, v, w>> /\ Append(<<u, v, w>>, z) = <<u, v, w, z>>
  <2>1. <<u, v>> \in Seq(T) /\ <<u, v, w>> \in Seq(T) /\ <<u, v, w, z>> \in Seq(T)
    BY <1>1
  <2>2. Append(<<u, v>>, w) \in Seq(T) /\ Append(<<u, v, w>>, z) \in Seq(T)
    BY <1>1, <2>1
  <2>3. Len(Append(<<u, v>>, w)) = 3 /\ Len(Append(<<u, v, w>>, z)) = 4
    BY <1>1, <2>1
  <2>4. \A n \in 1 .. 3 : Append(<<u, v>>, w)[n] = <<u, v, w>>[n]
    BY <1>1, <2>1
  <2>5. \A n \in 1 .. 4 : Append(<<u, v, w>>, z)[n] = <<u, v, w, z>>[n]
    BY <1>1, <2>1
  <2> QED BY <2>1, <2>2, <2>3, <2>4, <2>5, SeqEqual
<1> DEFINE T == {u, v, w, z}
<1>2. u \in T /\ v \in T /\ w \in T /\ z \in T
  OBVIOUS
<1> HIDE DEF T
<1> QED BY <1>1, <1>2

LEMMA DrawingInit == Init => Drawing
  BY DEF Init, NoLocals, Drawing, LoopPCs

LEMMA DrawVinegarDraws ==
  ASSUME IInv, Drawing, DrawVinegar
  PROVE  tried' = {<<msg, salt, "sk_seed", k>> : k \in 0 .. n_attempt - 1}
<1>1. n_attempt \in 1 .. MaxAttempt /\ MaxAttempt \in Nat /\ CtrVals \in Nat
      /\ MaxAttempt <= CtrVals
  BY AttemptAssumption DEF IInv, Typed, Drawing, DrawVinegar
<1>2. AttemptCtr(n_attempt - 1) = n_attempt - 1
  BY <1>1 DEF AttemptCtr
<1>3. vinegar' = <<msg, salt, "sk_seed", n_attempt - 1>>
  <2>1. Absorbed("h_vinegar") = <<msg, salt, "sk_seed">>
    BY DEF Drawing, DrawVinegar, Absorbed
  <2>2. vinegar' = Append(<<msg, salt, "sk_seed">>, n_attempt - 1)
    BY <1>2, <2>1 DEF DrawVinegar
  <2> QED BY <2>2, Appended
<1>4. tried' = {<<msg, salt, "sk_seed", k>> : k \in 0 .. n_attempt - 2}
               \cup {<<msg, salt, "sk_seed", n_attempt - 1>>}
  <2>1. Drawn - 1 = n_attempt - 2 /\ pc \in LoopPCs
    BY <1>1 DEF Drawn, DrawVinegar, LoopPCs
  <2>2. tried = {<<msg, salt, "sk_seed", k>> : k \in 0 .. n_attempt - 2}
    BY <2>1 DEF Drawing, Vector
  <2> QED BY <1>3, <2>2 DEF DrawVinegar
<1>5. 0 .. n_attempt - 1 = (0 .. n_attempt - 2) \cup {n_attempt - 1}
  BY <1>1
<1> QED BY <1>4, <1>5

LEMMA DrawingStep == IInv /\ Drawing /\ [Next]_vars => Drawing'
<1> SUFFICES ASSUME IInv, Drawing, [Next]_vars PROVE Drawing'
  OBVIOUS
<1> USE DEF hashVars, keyVars, sysVars, LoopPCs
<1>1. ASSUME NEW m \in Msgs, CallSign(m) \/ CallVerify(m) PROVE Drawing'
  BY <1>1 DEF CallSign, CallVerify, Drawing
<1>2. CASE AllocSk \/ AllocPk \/ HashCheck \/ FreeSk \/ FreePk \/ Compare \/ Overwrite
  BY <1>2 DEF AllocSk, AllocPk, HashCheck, FreeSk, FreePk, Compare, Overwrite, Drawing
<1>3. CASE HashMessage
  <2>1. ctx'["h_m_salt_secret"].absorbed = <<msg', salt'>>
    BY <1>3 DEF HashMessage, HashInit, IInv, Typed, Ctxs
  <2> QED BY <1>3, <2>1 DEF HashMessage, Drawing
<1>4. CASE CopyHash
  <2>1. ctx'["h_vinegar_copy"].absorbed = <<msg', salt'>>
    BY <1>4 DEF CopyHash, HashCopy, HashInit, Absorbed, IInv, Typed, Ctxs, Drawing
  <2> QED BY <1>4, <2>1 DEF CopyHash, Drawing
<1>5. CASE DigestMessage
  <2>1. ctx'["h_vinegar_copy"].absorbed = <<msg, salt, "sk_seed">>
    <3>1. ctx'["h_vinegar_copy"].absorbed = Append(<<msg, salt>>, "sk_seed")
      BY <1>5 DEF DigestMessage, HashUpdate, IInv, Typed, Ctxs, Drawing
    <3> QED BY <3>1, Appended
  <2>2. msg' = msg /\ salt' = salt /\ pc' = "loop" /\ tried' = {} /\ n_attempt' = 0
    BY <1>5 DEF DigestMessage, Drawing
  <2>3. {<<msg', salt', "sk_seed", k>> : k \in 0 .. 0 - 1} = {}
    OBVIOUS
  <2>4. Drawn' = 0
    BY <2>2 DEF Drawn
  <2> QED BY <2>1, <2>2, <2>3, <2>4 DEF Drawing, Vector
<1>6. CASE StartAttempt
  <2>1. ctx'["h_vinegar"].absorbed = <<msg, salt, "sk_seed">>
        /\ ctx'["h_vinegar_copy"].absorbed = <<msg, salt, "sk_seed">>
    BY <1>6 DEF StartAttempt, HashCopy, HashInit, Absorbed, IInv, Typed, Ctxs, Drawing
  <2>2. msg' = msg /\ salt' = salt /\ pc' = "vinegar" /\ tried' = tried /\ pc = "loop"
        /\ n_attempt' = n_attempt + 1
    BY <1>6 DEF StartAttempt, Counted
  <2>3. n_attempt \in Nat
    BY AttemptAssumption DEF IInv, Typed
  <2>4. Drawn' = Drawn /\ n_attempt' > 0
    BY <2>2, <2>3 DEF Drawn
  <2> QED BY <2>1, <2>2, <2>4 DEF Drawing, Vector
<1>7. CASE Exhaust
  <2>1. Drawn' = Drawn
    BY <1>7 DEF Exhaust, Drawn
  <2> QED BY <1>7, <2>1 DEF Exhaust, Drawing, Vector
<1>8. CASE DrawVinegar
  <2>1. tried' = {<<msg, salt, "sk_seed", k>> : k \in 0 .. n_attempt - 1}
    BY <1>8, DrawVinegarDraws
  <2>2. msg' = msg /\ salt' = salt /\ pc' = "solve" /\ ctx' = ctx /\ n_attempt' = n_attempt
        /\ pc = "vinegar"
    BY <1>8 DEF DrawVinegar
  <2>3. Drawn' = n_attempt
    BY <2>2 DEF Drawn
  <2> QED BY <2>1, <2>2, <2>3 DEF Drawing, Vector
<1>9. CASE Solve
  <2>1. Drawn' = Drawn
    BY <1>9 DEF Solve, Drawn
  <2> QED BY <1>9, <2>1 DEF Solve, Drawing, Vector
<1>10. CASE Finish
  BY <1>10 DEF Finish, LocalsGone, Drawing
<1>11. CASE UNCHANGED vars
  <2>1. Drawn' = Drawn
    BY <1>11 DEF vars, Drawn
  <2> QED BY <1>11, <2>1 DEF vars, Drawing, Vector
<1> QED BY <1>1, <1>2, <1>3, <1>4, <1>5, <1>6, <1>7, <1>8, <1>9, <1>10, <1>11
        DEF Next, Step, SignStep, VerifyStep

LEMMA DrawingInvariant == Spec => [](IInv /\ Drawing)
  BY InitInv, DrawingInit, StepInv, DrawingStep, PTL DEF Spec

(* As many vectors as attempts: two counters give two vectors. *)
LEMMA TriedCounted ==
  ASSUME IInv, Drawing, pc \in {"loop", "solve", "finish"}
  PROVE  Cardinality(tried) = n_attempt
<1>1. n_attempt \in Nat
  BY AttemptAssumption DEF IInv, Typed
<1>2. tried = {Vector(k) : k \in 0 .. n_attempt - 1}
  BY DEF Drawing, Drawn, LoopPCs
<1>3. IsFiniteSet(0 .. n_attempt - 1) /\ Cardinality(0 .. n_attempt - 1) = n_attempt
  BY <1>1, FS_Interval
<1> DEFINE f == [k \in 0 .. n_attempt - 1 |-> Vector(k)]
<1>4. f \in Bijection(0 .. n_attempt - 1, tried)
  <2>1. \A k, n \in 0 .. n_attempt - 1 : f[k] = f[n] => k = n
    BY DEF Vector
  <2> QED BY <1>2, <2>1 DEF Bijection, Injection, Surjection, IsInjective
<1>5. ExistsBijection(0 .. n_attempt - 1, tried)
  BY <1>4 DEF ExistsBijection
<1> QED BY <1>3, <1>5, FS_Bijection

(* The uint8_t counter does not wrap within MAX_ATTEMPT_VINEGAR attempts:  *)
(* no vinegar vector is tried twice in a call.                             *)
THEOREM VinegarAlwaysFresh == Spec => []VinegarFresh
<1>1. IInv /\ Drawing => VinegarFresh
  BY TriedCounted DEF VinegarFresh
<1> QED BY <1>1, DrawingInvariant, PTL

(* ov_sign_core returns -1 only when MAX_ATTEMPT_VINEGAR different vinegar *)
(* vectors have been tried.                                                *)
THEOREM FailureExhaustsAttempts == Spec => FailsExhausted
<1>1. IInv /\ Drawing /\ [Next]_vars
        => [pc = "finish" /\ pc' # "finish" /\ ret' = -1 => Cardinality(tried) = MaxAttempt]_vars
  <2> SUFFICES ASSUME IInv, Drawing, Next, pc = "finish", pc' # "finish", ret' = -1
               PROVE  Cardinality(tried) = MaxAttempt
    OBVIOUS
  <2>1. Finish
    BY DEF Next, Step, SignStep, VerifyStep, CallSign, CallVerify, Overwrite, AllocSk, HashMessage,
       CopyHash, DigestMessage, StartAttempt, Exhaust, DrawVinegar, Solve, FreeSk, AllocPk,
       HashCheck, Compare, FreePk
  <2>2. GiveUp
    BY <2>1 DEF Finish
  <2>3. n_attempt = MaxAttempt
    BY <2>2, AttemptAssumption DEF GiveUp, IInv, Typed
  <2> QED BY <2>3, TriedCounted
<1> QED BY <1>1, DrawingInvariant, PTL DEF Spec, FailsExhausted
-----------------------------------------------------------------------------
(* What the service shows of the call is unchanged. *)
Invisible ==
  /\ signature' = signature /\ ret' = ret /\ msg' = msg /\ op' = op
  /\ pc \in {"idle", "free_sk", "free_pk"} <=> pc' \in {"idle", "free_sk", "free_pk"}
  /\ ValidFor(signature)' = ValidFor(signature)

(* Each step of a call is a step of SignatureService or invisible to it.   *)
LEMMA SilentStep ==
  ASSUME IInv,
         (AllocSk /\ pc' = "hash") \/ HashMessage \/ CopyHash \/ DigestMessage \/ StartAttempt
         \/ Exhaust \/ DrawVinegar \/ Solve \/ FreeSk \/ (AllocPk /\ pc' = "hash_ck")
         \/ HashCheck \/ FreePk
  PROVE  Invisible
<1>1. signature' = signature /\ ret' = ret /\ msg' = msg /\ op' = op
  BY DEF AllocSk, HashMessage, CopyHash, DigestMessage, StartAttempt, Exhaust, DrawVinegar, Solve,
     FreeSk, AllocPk, HashCheck, FreePk
<1>2. pc \in {"idle", "free_sk", "free_pk"} <=> pc' \in {"idle", "free_sk", "free_pk"}
  BY DEF AllocSk, HashMessage, CopyHash, DigestMessage, StartAttempt, Exhaust, DrawVinegar, Solve,
     FreeSk, AllocPk, HashCheck, FreePk
<1>3. ValidFor(signature)' = ValidFor(signature)
  BY <1>1 DEF ValidFor, PublicMap
<1> QED BY <1>1, <1>2, <1>3 DEF Invisible

LEMMA FinishRefines ==
  ASSUME IInv, Finish
  PROVE  Service!SignReturns
<1>1. op = "sign" /\ pc = "finish" /\ msg' = msg /\ op' = op
      /\ pc' \in {"free_sk", "idle"}
  BY DEF Finish, IInv, KeysHeld, SignPCs
<1>2. CASE ret' = 0
  <2>1. ValidFor(signature)' = {msg}
    <3>1. ValidFor(signature') = {msg}
      BY <1>2, FinishValid
    <3> QED BY <3>1 DEF ValidFor, PublicMap
  <2> QED BY <1>1, <1>2, <2>1 DEF Service!SignReturns
<1>3. CASE ret' = -1
  <2>1. signature' = signature
    BY <1>3 DEF Finish
  <2>2. ValidFor(signature)' = ValidFor(signature)
    BY <2>1 DEF ValidFor, PublicMap
  <2> QED BY <1>1, <1>3, <2>2 DEF Service!SignReturns
<1> QED BY <1>2, <1>3 DEF Finish

LEMMA CompareRefines ==
  ASSUME IInv, Compare
  PROVE  Service!VerifyReturns
<1>1. op = "verify" /\ pc = "compare" /\ msg' = msg /\ op' = op
      /\ pc' \in {"free_pk", "idle"} /\ signature' = signature
  BY DEF Compare, IInv, KeysHeld, VerifyPCs
<1>2. ValidFor(signature)' = ValidFor(signature)
  BY <1>1 DEF ValidFor, PublicMap
<1>3. msg \in ValidFor(signature) <=> PublicMap(signature) = {<<msg, signature.salt>>}
  BY DEF ValidFor, IInv, Typed
<1>4. ret' = IF msg \in ValidFor(signature) THEN 0 ELSE -1
  BY <1>3 DEF Compare, DigestEqual, Absorbed, IInv, Absorbing
<1> QED BY <1>1, <1>2, <1>4 DEF Service!VerifyReturns

LEMMA AllocFailRefines ==
  ASSUME IInv, (AllocSk /\ pc' = "idle") \/ (AllocPk /\ pc' = "idle")
  PROVE  Service!SvcNext
<1>1. signature' = signature /\ ret' = -1 /\ msg' = msg /\ op' = op
  BY DEF AllocSk, AllocPk
<1>2. ValidFor(signature)' = ValidFor(signature)
  BY <1>1 DEF ValidFor, PublicMap
<1>3. CASE AllocSk
  <2>1. op = "sign" /\ pc = "alloc_sk"
    BY <1>3 DEF AllocSk, IInv, KeysHeld, SignPCs
  <2> QED BY <1>1, <1>2, <2>1 DEF Service!SvcNext, Service!SignReturns
<1>4. CASE AllocPk
  <2>1. op = "verify" /\ pc = "alloc_pk" /\ ExpandPk
    BY <1>4 DEF AllocPk, IInv, KeysHeld, VerifyPCs
  <2> QED BY <1>1, <1>2, <2>1 DEF Service!SvcNext, Service!VerifyReturns
<1> QED BY <1>3, <1>4

LEMMA CallRefines ==
  ASSUME NEW m \in Msgs, CallSign(m) \/ CallVerify(m)
  PROVE  Service!Call("sign", m) \/ Service!Call("verify", m)
<1>1. /\ pc = "idle" /\ pc' \in {"alloc_sk", "hash", "alloc_pk", "hash_ck"}
      /\ msg' = m /\ signature' = signature /\ ret' = ret
      /\ op' \in {"sign", "verify"}
  BY DEF CallSign, CallVerify
<1>2. ValidFor(signature)' = ValidFor(signature)
  BY <1>1 DEF ValidFor, PublicMap
<1> QED BY <1>1, <1>2 DEF Service!Call

LEMMA OverwriteRefines ==
  ASSUME Overwrite
  PROVE  Service!Overwrite
<1>1. pc = "idle" /\ pc' = "idle" /\ msg' = msg /\ ret' = ret
  BY DEF Overwrite
<1>2. ValidFor(signature)' \in SUBSET Msgs
  BY DEF ValidFor
<1> QED BY <1>1, <1>2 DEF Service!Overwrite

(* OvSign implements SignatureService: to its callers a sign or verify     *)
(* call is one step, whatever the attempts, contexts and allocations.      *)
THEOREM OvSignImplementsService == Spec => ImplementsService
<1>1. Init => Service!SvcInit
  <2> SUFFICES ASSUME Init PROVE Service!SvcInit
    OBVIOUS
  <2>1. signature.oil = {}
    BY DEF Init
  <2>2. PublicMap(signature) = {}
    BY <2>1 DEF PublicMap
  <2>3. ValidFor(signature) = {}
    BY <2>2 DEF ValidFor
  <2> QED BY <2>3 DEF Init, Service!SvcInit
<1>2. IInv /\ [Next]_vars => [Service!SvcNext]_(Service!svcVars)
  <2> SUFFICES ASSUME IInv, [Next]_vars
               PROVE  Service!SvcNext \/ UNCHANGED Service!svcVars
    OBVIOUS
  <2>1. ASSUME NEW m \in Msgs, CallSign(m) \/ CallVerify(m) PROVE Service!SvcNext
    BY <2>1, CallRefines DEF Service!SvcNext
  <2>2. CASE Overwrite
    BY <2>2, OverwriteRefines DEF Service!SvcNext
  <2>3. CASE AllocSk \/ AllocPk
    <3>1. AllocSk => pc' = "idle" \/ pc' = "hash"
      BY DEF AllocSk
    <3>2. AllocPk => pc' = "idle" \/ pc' = "hash_ck"
      BY DEF AllocPk
    <3>3. ASSUME Invisible PROVE UNCHANGED Service!svcVars
      BY <3>3 DEF Invisible, Service!svcVars
    <3>4. CASE (AllocSk /\ pc' = "idle") \/ (AllocPk /\ pc' = "idle")
      BY <3>4, AllocFailRefines
    <3>5. CASE (AllocSk /\ pc' = "hash") \/ (AllocPk /\ pc' = "hash_ck")
      <4>1. Invisible
        BY <3>5, SilentStep
      <4> QED BY <3>3, <4>1
    <3> QED BY <2>3, <3>1, <3>2, <3>4, <3>5
  <2>4. CASE Finish
    BY <2>4, FinishRefines DEF Service!SvcNext
  <2>5. CASE Compare
    BY <2>5, CompareRefines DEF Service!SvcNext
  <2>6. CASE HashMessage \/ CopyHash \/ DigestMessage \/ StartAttempt \/ Exhaust \/ DrawVinegar
             \/ Solve \/ FreeSk \/ HashCheck \/ FreePk
    <3>1. Invisible
      BY <2>6, SilentStep
    <3> QED BY <3>1 DEF Invisible, Service!svcVars
  <2>7. CASE UNCHANGED vars
    <3>1. signature' = signature /\ pc' = pc /\ op' = op /\ msg' = msg /\ ret' = ret
      BY <2>7 DEF vars
    <3>2. ValidFor(signature)' = ValidFor(signature)
      BY <3>1 DEF ValidFor, PublicMap
    <3> QED BY <3>1, <3>2 DEF Service!svcVars
  <2> QED BY <2>1, <2>2, <2>3, <2>4, <2>5, <2>6, <2>7 DEF Next, Step, SignStep, VerifyStep
<1> QED BY <1>1, <1>2, Invariant, PTL DEF Spec, ImplementsService, Service!SvcSpec
=============================================================================

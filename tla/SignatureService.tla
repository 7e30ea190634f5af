-------------------------- MODULE SignatureService --------------------------
(***************************************************************************)
(* What ov_sign / ov_expand_and_sign and ov_verify / ov_expand_and_verify  *)
(* promise a caller who keeps one signature buffer (ov.h, "Sign and        *)
(* Verify"): a call of sign that returns 0 leaves a signature of exactly   *)
(* that message, one that returns -1 leaves the buffer alone; verify       *)
(* returns 0 only for a message the buffer is a signature of, and -1 for   *)
(* such a message only when memory for the expanded key ran out.           *)
(***************************************************************************)
EXTENDS Integers

CONSTANTS
  Msgs,        (* messages *)
  MayLackPk    (* verify allocates an expanded public key *)

VARIABLES
  busy,      (* "none", "sign" or "verify": the call in progress *)
  arg,       (* its message *)
  validFor,  (* the messages the signature buffer is a signature of *)
  ret        (* the last call's return value *)

svcVars == <<busy, arg, validFor, ret>>

SvcInit ==
  /\ busy = "none"
  /\ arg \in Msgs
  /\ validFor = {}
  /\ ret = 0

Call(op, m) ==
  /\ busy = "none"
  /\ busy' = op
  /\ arg' = m
  /\ UNCHANGED <<validFor, ret>>

(* The caller puts other bytes into the buffer. *)
Overwrite ==
  /\ busy = "none"
  /\ validFor' \in SUBSET Msgs
  /\ UNCHANGED <<busy, arg, ret>>

SignReturns ==
  /\ busy = "sign"
  /\ busy' = "none"
  /\ \/ ret' = 0 /\ validFor' = {arg}
     \/ ret' = -1 /\ validFor' = validFor
  /\ UNCHANGED arg

VerifyReturns ==
  /\ busy = "verify"
  /\ busy' = "none"
  /\ \/ ret' = 0 /\ arg \in validFor
     \/ ret' = -1 /\ (arg \notin validFor \/ MayLackPk)
  /\ UNCHANGED <<arg, validFor>>

SvcNext ==
  \/ \E m \in Msgs : Call("sign", m) \/ Call("verify", m)
  \/ Overwrite
  \/ SignReturns
  \/ VerifyReturns

SvcSpec == SvcInit /\ [][SvcNext]_svcVars
=============================================================================

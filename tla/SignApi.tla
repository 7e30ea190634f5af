------------------------------- MODULE SignApi -------------------------------
(***************************************************************************)
(* The signature API of sign.c over one memory: crypto_sign and            *)
(* crypto_sign_open with the message and the signed message anywhere in    *)
(* it, so that they may overlap, a network in between that may change what *)
(* was signed, and crypto_sign_open's loops with their counter's width.    *)
(* Signing and verifying themselves are the modules OvSign and OvKeys;     *)
(* here a signature is good for the message it was made of, and both can   *)
(* fail: signing when no vinegar vector gives a regular system or memory   *)
(* is short, verifying when memory is short.                               *)
(***************************************************************************)
EXTENDS Integers, Sequences

CONSTANTS
  MemSize,    (* cells of the memory *)
  SigBytes,   (* OV_SIGNATUREBYTES *)
  MaxLen,     (* bound on the length of a message *)
  Bytes,      (* values of a message's bytes, not 0 *)
  UIntRange   (* 2^32: unsigned i wraps there *)

ASSUME SizesAssumption ==
  /\ MemSize \in Nat /\ SigBytes \in Nat \ {0} /\ MaxLen \in Nat
  /\ UIntRange \in Nat \ {0}

(* A cell is a byte of plain data, or byte k of the signature of what is   *)
(* in some cells.                                                          *)
Plain(b) == <<b>>
Cleared == Plain(0)
Garbage == Plain(256)
SigCell(k, cells) == <<k, cells>>

VARIABLES
  pc,
  mem,
  m, sm,          (* where the message and the signed message are *)
  mlen, smlen,
  i,              (* the loops' counter *)
  r,              (* the last return value *)
  message,        (* what the client asked to sign *)
  received        (* what crypto_sign_open was called on *)

vars == <<pc, mem, m, sm, mlen, smlen, i, r, message, received>>

Messages == UNION { [1 .. n -> Bytes] : n \in 0 .. MaxLen }
At(from, n) == [k \in 1 .. n |-> mem[(from + k) - 1]]
Data(msg) == [k \in 1 .. Len(msg) |-> Plain(msg[k])]
SignatureOf(cells) == [k \in 1 .. SigBytes |-> SigCell(k, cells)]
SignedForm(msg) == Data(msg) \o SignatureOf(Data(msg))

(* mem with the cells s written from address a on *)
Written(a, s) ==
  [c \in DOMAIN mem |-> IF c \in a .. (a + Len(s)) - 1 THEN s[(c - a) + 1] ELSE mem[c]]

Init ==
  /\ pc = "idle"
  /\ mem = [c \in 0 .. MemSize - 1 |-> Garbage]
  /\ m = 0 /\ sm = 0 /\ mlen = 0 /\ smlen = 0 /\ i = 0 /\ r = 0
  /\ message = <<>> /\ received = <<>>

(* The client puts a message anywhere and calls crypto_sign. *)
CallSign ==
  /\ pc = "idle"
  /\ message' \in Messages
  /\ mlen' = Len(message')
  /\ m' \in 0 .. MemSize - mlen'
  /\ sm' \in 0 .. MemSize - (mlen' + SigBytes)
  /\ mem' = Written(m', Data(message'))
  /\ pc' = "signature"
  /\ UNCHANGED <<smlen, i, r, received>>

(* crypto_sign_signature(sm + mlen, ...): ov_sign reads the message before *)
(* it writes, and writes nothing when it fails.  siglen is set either way. *)
SignSignature ==
  /\ pc = "signature"
  /\ \/ r' = 0 /\ mem' = Written(sm + mlen, SignatureOf(At(m, mlen)))
     \/ r' = -1 /\ mem' = mem
  /\ smlen' = SigBytes
  /\ pc' = "memmove"
  /\ UNCHANGED <<m, sm, mlen, i, message, received>>

(* memmove(sm, m, mlen) *)
MovedUpwards ==
  LET step[k \in 0 .. mlen] ==
        IF k = 0 THEN mem ELSE [step[k - 1] EXCEPT ![sm + (k - 1)] = step[k - 1][m + (k - 1)]]
  IN step[mlen]
Moved == Written(sm, At(m, mlen))

MoveMessage ==
  /\ pc = "memmove"
  /\ mem' = Moved
  /\ smlen' = mlen + SigBytes
  /\ pc' = "signed"
  /\ UNCHANGED <<m, sm, mlen, i, r, message, received>>

(* A client that got an error stops there. *)
GiveUp ==
  /\ pc = "signed" /\ r # 0
  /\ pc' = "end"
  /\ UNCHANGED <<mem, m, sm, mlen, smlen, i, r, message, received>>

(* The signed message arrives as it was or with a byte changed, and with   *)
(* its length or with another; crypto_sign_open may put the message        *)
(* anywhere, in place included.  It needs smlen bytes there.               *)
CallOpen ==
  /\ pc = "signed" /\ r = 0
  /\ smlen' \in 0 .. (MemSize - sm)
  /\ \/ mem' = mem
     \/ \E c \in sm .. (sm + smlen') - 1 : mem' = [mem EXCEPT ![c] = Garbage]
  /\ m' \in 0 .. MemSize - smlen'
  /\ received' = [k \in 1 .. smlen' |-> mem'[(sm + k) - 1]]
  /\ i' = 0
  /\ pc' = "open"
  /\ UNCHANGED <<sm, mlen, r, message>>

(* OV_SIGNATUREBYTES > smlen *)
TooShortOrBare == SigBytes >= smlen
TooShort == SigBytes > smlen

Bad ==
  /\ mlen' = 0
  /\ pc' = "clear"

OpenTooShort ==
  /\ pc = "open" /\ TooShort
  /\ Bad
  /\ UNCHANGED <<mem, m, sm, smlen, i, r, message, received>>

OpenLength ==
  /\ pc = "open" /\ ~TooShort
  /\ mlen' = smlen - SigBytes
  /\ pc' = "verify"
  /\ UNCHANGED <<mem, m, sm, smlen, i, r, message, received>>

(* crypto_sign_verify with its length check: 0 for a good signature, -1    *)
(* for a bad one and when there is no memory for the expanded key.         *)
VerifiesIgnoringMessage(siglen) ==
  siglen = SigBytes /\ \E msg \in Messages : At(sm + mlen, SigBytes) = SignatureOf(Data(msg))
Verifies(siglen) ==
  siglen = SigBytes /\ At(sm + mlen, SigBytes) = SignatureOf(At(sm, mlen))

OpenVerified ==
  /\ pc = "verify" /\ Verifies(SigBytes)
  /\ r' = 0
  /\ pc' = "copy"
  /\ UNCHANGED <<mem, m, sm, mlen, smlen, i, message, received>>

OpenRejected ==
  /\ pc = "verify"
  /\ r' = -1
  /\ Bad
  /\ UNCHANGED <<mem, m, sm, smlen, i, message, received>>

(* for (i = 0; i < n; ++i) with unsigned i *)
NextIndexByte == (i + 1) % 2
NextIndex == (i + 1) % UIntRange

CopyByte ==
  /\ pc = "copy" /\ i < mlen
  /\ mem' = [mem EXCEPT ![m + i] = mem[sm + i]]
  /\ i' = NextIndex
  /\ UNCHANGED <<pc, m, sm, mlen, smlen, r, message, received>>

OpenReturn ==
  /\ pc = "copy" /\ ~(i < mlen)
  /\ pc' = "opened"
  /\ UNCHANGED <<mem, m, sm, mlen, smlen, i, r, message, received>>

ClearLengthOfMessage == smlen - SigBytes
ClearLength == smlen

ClearByte ==
  /\ pc = "clear" /\ i < ClearLength
  /\ mem' = [mem EXCEPT ![m + i] = Cleared]
  /\ i' = NextIndex
  /\ UNCHANGED <<pc, m, sm, mlen, smlen, r, message, received>>

ClearReturn ==
  /\ pc = "clear" /\ ~(i < ClearLength)
  /\ r' = -1
  /\ pc' = "opened"
  /\ UNCHANGED <<mem, m, sm, mlen, smlen, i, message, received>>

Finish ==
  /\ pc = "opened"
  /\ pc' = "end"
  /\ UNCHANGED <<mem, m, sm, mlen, smlen, i, r, message, received>>

(* Another client, in fresh memory. *)
Restart ==
  /\ pc = "end"
  /\ pc' = "idle"
  /\ mem' = [c \in 0 .. MemSize - 1 |-> Garbage]
  /\ m' = 0 /\ sm' = 0 /\ mlen' = 0 /\ smlen' = 0 /\ i' = 0 /\ r' = 0
  /\ message' = <<>> /\ received' = <<>>

Open ==
  OpenTooShort \/ OpenLength \/ OpenVerified \/ OpenRejected
    \/ CopyByte \/ OpenReturn \/ ClearByte \/ ClearReturn

Next ==
  \/ CallSign \/ SignSignature \/ MoveMessage \/ GiveUp
  \/ CallOpen \/ Open \/ Finish \/ Restart

(* A call that has begun runs. *)
Spec == Init /\ [][Next]_vars /\ WF_vars(Open)

-----------------------------------------------------------------------------
(* Signing works in place: a message that starts at or before the signed   *)
(* message, or behind it, comes out whole in front of its signature,       *)
(* though the signature is written first and the message moved over it.    *)
SignedWhole ==
  (pc = "signed" /\ r = 0 /\ (m <= sm \/ m >= sm + smlen))
    => At(sm, smlen) = SignedForm(message)

(* crypto_sign_open accepts nothing but what crypto_sign made, and hands   *)
(* back all of it, in place too.                                           *)
OpensOnlySigned ==
  (pc = "opened" /\ r = 0) =>
    /\ received = SignedForm(message)
    /\ (m <= sm \/ m >= sm + mlen) => At(m, mlen) = Data(message)

(* What was rejected leaves no length and not a byte of its message, nor   *)
(* what the buffer held before, in all that the caller provided.           *)
RejectedIsCleared ==
  (pc = "opened" /\ r # 0) =>
    mlen = 0 /\ At(m, smlen) = [k \in 1 .. smlen |-> Cleared]

(* A signed message that arrives complete gets to be verified, that of the *)
(* empty message included.                                                 *)
CompleteIsVerified ==
  [][(pc = "open" /\ received = SignedForm(message)) => pc' = "verify"]_vars

(* Every call of crypto_sign_open returns. *)
OpenReturns == (pc = "open") ~> (pc = "opened")

(* "All good, copy msg, return 0" (sign.c:146): what was verified is       *)
(* returned.                                                               *)
AllGoodReturns == (pc = "copy") ~> (pc = "opened")
=============================================================================

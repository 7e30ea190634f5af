-------------------------------- MODULE Sponge --------------------------------
(***************************************************************************)
(* The hash of the scheme: the contexts of utils_hash.c over the           *)
(* incremental SHAKE of fips202.c, loop by loop.  A byte is the set of its *)
(* bits, so that xor is the symmetric difference.  KeccakF1600 is not      *)
(* computed: a state is known by the blocks xored into it before each      *)
(* permutation, and an output byte by that history and its index.          *)
(***************************************************************************)
EXTENDS Integers, Sequences

CONSTANTS
  Ctx,        (* hash contexts *)
  Rate,       (* SHAKE256_RATE or SHAKE128_RATE *)
  Capacity,   (* bytes of the state that are never read or written *)
  Bits,       (* bits of a byte *)
  P, E,       (* 0x1F, and the top bit of a byte *)
  Bytes,      (* values of message bytes *)
  MaxChunk,   (* bound on the bytes of one hash_update *)
  MaxMessage, (* bound on the bytes of a message *)
  MaxOut      (* bound on the bytes of a digest *)

ASSUME RateAssumption == Rate \in Nat \ {0} /\ Capacity \in Nat
ASSUME BytesAssumption == P \in SUBSET Bits /\ E \in SUBSET Bits /\ Bytes \subseteq SUBSET Bits
ASSUME PaddingAssumption == P # {}
ASSUME BoundsAssumption == MaxChunk \in Nat /\ MaxMessage \in Nat /\ MaxOut \in Nat

Byte == SUBSET Bits
Width == Rate + Capacity
State == [0 .. Width - 1 -> Byte]
ZeroState == [k \in 0 .. Width - 1 |-> {}]

Xor(x, y) == (x \ y) \cup (y \ x)
(* s[i / 8] ^= byte << 8 * (i % 8) *)
XorAt(s, k, b) == [s EXCEPT ![k] = Xor(s[k], b)]

VARIABLES
  phase,     (* of each context *)
  blocks,    (* what its state was before each permutation so far *)
  st,        (* what has been xored into the state since *)
  pos,       (* state->pos *)
  message,   (* history: all bytes given to hash_update *)
  pc, ctx,   (* the call that is running, and on which context *)
  input,     (* in, inlen *)
  i,
  outlen, nblocks,
  out,       (* the digest so far *)
  asked      (* history: the length asked for *)

vars == <<phase, blocks, st, pos, message, pc, ctx, input, i, outlen, nblocks, out, asked>>
context == <<phase, blocks, st, pos, message>>
squeezing == <<outlen, nblocks, out, asked>>

Init ==
  /\ phase = [c \in Ctx |-> "none"]
  /\ blocks = [c \in Ctx |-> <<>>]
  /\ st = [c \in Ctx |-> ZeroState]
  /\ pos = [c \in Ctx |-> 0]
  /\ message = [c \in Ctx |-> <<>>]
  /\ pc = "idle" /\ ctx \in Ctx
  /\ input = <<>> /\ i = 0
  /\ outlen = 0 /\ nblocks = 0 /\ out = <<>> /\ asked = 0

(* KeccakF1600_StatePermute(s) *)
Permute ==
  /\ blocks' = [blocks EXCEPT ![ctx] = Append(@, st[ctx])]
  /\ st' = [st EXCEPT ![ctx] = ZeroState]

(* hash_init: keccak_init, pos = 0 *)
HashInit(c) ==
  /\ pc = "idle"
  /\ phase' = [phase EXCEPT ![c] = "absorbing"]
  /\ blocks' = [blocks EXCEPT ![c] = <<>>]
  /\ st' = [st EXCEPT ![c] = ZeroState]
  /\ pos' = [pos EXCEPT ![c] = 0]
  /\ message' = [message EXCEPT ![c] = <<>>]
  /\ UNCHANGED <<pc, ctx, input, i, squeezing>>

(* hash_ctx_copy of a context that still absorbs *)
HashCopy(c, d) ==
  /\ pc = "idle" /\ phase[c] = "absorbing"
  /\ phase' = [phase EXCEPT ![d] = phase[c]]
  /\ blocks' = [blocks EXCEPT ![d] = blocks[c]]
  /\ st' = [st EXCEPT ![d] = st[c]]
  /\ pos' = [pos EXCEPT ![d] = pos[c]]
  /\ message' = [message EXCEPT ![d] = message[c]]
  /\ UNCHANGED <<pc, ctx, input, i, squeezing>>

(* hash_update: keccak_absorb of a chunk *)
HashUpdate(c, chunk) ==
  /\ pc = "idle" /\ phase[c] = "absorbing"
  /\ Len(message[c]) + Len(chunk) <= MaxMessage
  /\ message' = [message EXCEPT ![c] = @ \o chunk]
  /\ ctx' = c
  /\ input' = chunk
  /\ pc' = "while"
  /\ UNCHANGED <<phase, blocks, st, pos, i, squeezing>>

(* while (pos + inlen >= r) *)
Fills == pos[ctx] + Len(input) >= Rate

AbsorbWhile ==
  /\ pc = "while"
  /\ i' = pos[ctx]
  /\ pc' = IF Fills THEN "fill" ELSE "rest"
  /\ UNCHANGED <<context, ctx, input, squeezing>>

(* for (i = pos; i < r; i++) s ^= *in++ *)
XorInput ==
  /\ st' = [st EXCEPT ![ctx] = XorAt(@, i, Head(input))]
  /\ input' = Tail(input)
  /\ i' = i + 1
  /\ UNCHANGED <<phase, blocks, pos, message, pc, ctx, squeezing>>

AbsorbFill == pc = "fill" /\ i < Rate /\ XorInput

NextPosKept == pos[ctx]
NextPos == 0
AbsorbPermute ==
  /\ pc = "fill" /\ ~(i < Rate)
  /\ Permute
  /\ pos' = [pos EXCEPT ![ctx] = NextPos]
  /\ pc' = "while"
  /\ UNCHANGED <<phase, message, ctx, input, i, squeezing>>

(* for (i = pos; i < pos + inlen; i++) s ^= *in++ *)
AbsorbRest == pc = "rest" /\ input # <<>> /\ XorInput

AbsorbReturn ==
  /\ pc = "rest" /\ input = <<>>
  /\ pos' = [pos EXCEPT ![ctx] = i]
  /\ i' = 0
  /\ pc' = "idle"
  /\ UNCHANGED <<phase, blocks, st, message, ctx, input, squeezing>>

(* keccak_finalize *)
FinalizedUnmarked(c) == XorAt(st[c], Rate - 1, E)
Finalized(c) == XorAt(XorAt(st[c], pos[c], P), Rate - 1, E)
FinalPosStart == 0
FinalPos == Rate

(* hash_final_digest: finalize, *)
HashFinal(c, n) ==
  /\ pc = "idle" /\ phase[c] = "absorbing"
  /\ phase' = [phase EXCEPT ![c] = "squeezing"]
  /\ st' = [st EXCEPT ![c] = Finalized(c)]
  /\ pos' = [pos EXCEPT ![c] = FinalPos]
  /\ ctx' = c
  /\ outlen' = n /\ nblocks' = n \div Rate /\ out' = <<>> /\ asked' = n
  /\ pc' = "blocks"
  /\ UNCHANGED <<blocks, message, input, i>>

(* byte k of the permuted state *)
StateByte(bs, s, k) == <<bs, s[k], k>>

(* whole blocks, *)
SqueezeBlock ==
  /\ pc = "blocks" /\ nblocks > 0
  /\ Permute
  /\ out' = out \o [k \in 1 .. Rate |-> StateByte(blocks'[ctx], st'[ctx], k - 1)]
  /\ nblocks' = nblocks - 1
  /\ outlen' = outlen - Rate
  /\ UNCHANGED <<phase, pos, message, pc, ctx, input, i, asked>>

SqueezeBlocksReturn ==
  /\ pc = "blocks" /\ nblocks = 0
  /\ pc' = "squeeze"
  /\ UNCHANGED <<context, ctx, input, i, squeezing>>

(* and keccak_squeeze of the rest, which permutes first as pos is r. *)
SqueezePermute ==
  /\ pc = "squeeze" /\ outlen > 0 /\ pos[ctx] = Rate
  /\ Permute
  /\ pos' = [pos EXCEPT ![ctx] = 0]
  /\ UNCHANGED <<phase, message, pc, ctx, input, i, squeezing>>

SqueezeByte ==
  /\ pc = "squeeze" /\ outlen > 0 /\ pos[ctx] < Rate
  /\ out' = Append(out, StateByte(blocks[ctx], st[ctx], pos[ctx]))
  /\ pos' = [pos EXCEPT ![ctx] = @ + 1]
  /\ outlen' = outlen - 1
  /\ UNCHANGED <<phase, blocks, st, message, pc, ctx, input, i, nblocks, asked>>

SqueezeReturn ==
  /\ pc = "squeeze" /\ outlen = 0
  /\ pc' = "idle"
  /\ phase' = [phase EXCEPT ![ctx] = "none"]
  /\ out' = <<>> /\ asked' = 0    (* the caller has it *)
  /\ UNCHANGED <<blocks, st, pos, message, ctx, input, i, outlen, nblocks>>

Chunks == UNION { [1 .. n -> Bytes] : n \in 0 .. MaxChunk }

Next ==
  \/ \E c \in Ctx : HashInit(c)
  \/ \E c, d \in Ctx : HashCopy(c, d)
  \/ \E c \in Ctx, chunk \in Chunks : HashUpdate(c, chunk)
  \/ AbsorbWhile \/ AbsorbFill \/ AbsorbPermute \/ AbsorbRest \/ AbsorbReturn
  \/ \E c \in Ctx, n \in 0 .. MaxOut : HashFinal(c, n)
  \/ SqueezeBlock \/ SqueezeBlocksReturn
  \/ SqueezePermute \/ SqueezeByte \/ SqueezeReturn

Spec == Init /\ [][Next]_vars

-----------------------------------------------------------------------------
TypeOK ==
  /\ phase \in [Ctx -> {"none", "absorbing", "squeezing"}]
  /\ blocks \in [Ctx -> Seq(State)]
  /\ st \in [Ctx -> State]
  /\ pos \in [Ctx -> 0 .. Rate]
  /\ message \in [Ctx -> Seq(Byte)]
  /\ pc \in {"idle", "while", "fill", "rest", "blocks", "squeeze"}
  /\ ctx \in Ctx
  /\ input \in Seq(Byte)
  /\ i \in 0 .. Rate
  /\ outlen \in Nat /\ nblocks \in Nat /\ asked \in Nat
  /\ \A c \in Ctx : phase[c] = "absorbing" => pos[c] < Rate

(* SHAKE: the message, P behind it, and E at the end of that block.        *)
LastBlock(msg) == Len(msg) \div Rate
PaddedByte(msg, k) ==
  IF k < Len(msg) THEN msg[k + 1]
  ELSE Xor(IF k = Len(msg) THEN P ELSE {},
           IF k = (LastBlock(msg) * Rate) + (Rate - 1) THEN E ELSE {})

(* n blocks of it; nothing is xored in while squeezing *)
XofBlocks(msg, n) ==
  [b \in 1 .. n |->
     [k \in 0 .. Width - 1 |->
        IF k < Rate THEN PaddedByte(msg, ((b - 1) * Rate) + k) ELSE {}]]

(* byte j of the output *)
XofByte(msg, j) ==
  StateByte(XofBlocks(msg, (LastBlock(msg) + 1) + (j \div Rate)), ZeroState, j % Rate)

(* However a message is cut into hash_update calls and contexts copied in  *)
(* between, and however long the digest, its bytes are those of SHAKE, and *)
(* all that were asked for.                                                *)
DigestIsXof ==
  pc \in {"blocks", "squeeze"} =>
    /\ \A j \in 1 .. Len(out) : out[j] = XofByte(message[ctx], j - 1)
    /\ Len(out) + outlen = asked

(* What an absorbing context has still to xor is input. *)
Place(c) == IF c = ctx /\ pc \in {"fill", "rest"} THEN i ELSE pos[c]
Pending(c) == IF c = ctx /\ pc \in {"while", "fill", "rest"} THEN Len(input) ELSE 0
Absorbed(c) == (Len(blocks[c]) * Rate) + Place(c)

(* A context that absorbs has its message up to where it is, block after   *)
(* block and then in the state, and nothing anywhere else.                 *)
AbsorbsMessage ==
  \A c \in Ctx : phase[c] = "absorbing" =>
    /\ Absorbed(c) + Pending(c) = Len(message[c])
    /\ \A b \in 1 .. Len(blocks[c]), k \in 0 .. Width - 1 :
         blocks[c][b][k] = IF k < Rate THEN message[c][(((b - 1) * Rate) + k) + 1] ELSE {}
    /\ \A k \in 0 .. Width - 1 :
         st[c][k] = IF k < Place(c) THEN message[c][((Len(blocks[c]) * Rate) + k) + 1] ELSE {}

(* Two messages never lead to the same permutations: what is hashed can be *)
(* told from the blocks, padding included.                                 *)
NoCollisions ==
  pc = "idle" =>
    \A c, d \in Ctx :
      ( /\ phase[c] = "absorbing" /\ phase[d] = "absorbing"
        /\ Append(blocks[c], Finalized(c)) = Append(blocks[d], Finalized(d)) )
      => message[c] = message[d]
=============================================================================

-------------------------------- MODULE Prng --------------------------------
(***************************************************************************)
(* prng_publicinputs_t of utils/utils_prng.c: AES-CTR output is produced   *)
(* RNG_OUTPUTLEN bytes (K AES blocks) at a time into ctx->buf; whole       *)
(* blocks of a long request bypass the buffer.  Positions in C arrays are  *)
(* kept 0-based.                                                           *)
(***************************************************************************)
EXTENDS Integers

CONSTANTS
  Seeds,      (* the 16-byte public seeds *)
  BlockSize,  (* AES128_BLOCKSIZE *)
  K,          (* RNG_OUTPUTLEN / AES128_BLOCKSIZE: 1 OQS, 2 PQM4, 4, 8 *)
  CtrMod,     (* 2^32 in the code: the width of ctx->ctr *)
  MaxReq,     (* bound: the longest request *)
  Junk        (* a byte of ctx->buf nothing has written yet *)

ASSUME PrngBlockAssumption == BlockSize \in Nat \ {0} /\ K \in Nat \ {0}
(* The counter wraps on a whole buffer: 2^32 is a multiple of 1, 2, 4, 8. *)
ASSUME PrngCtrAssumption == CtrMod \in Nat \ {0} /\ CtrMod % K = 0
(* A request is shorter than 2^32 bytes, so that "uint32_t nblocks" and    *)
(* nblocks * RNG_OUTPUTLEN do not wrap (the longest, P2 of the largest     *)
(* parameter set, is under 2^21).                                          *)
ASSUME PrngReqAssumption == MaxReq \in Nat /\ MaxReq < CtrMod

VARIABLES
  key,    (* ctx->key, by the seed it was expanded from *)
  used,   (* ctx->used *)
  ctr,    (* ctx->ctr, in AES blocks *)
  buf,    (* ctx->buf *)
  out     (* the caller's buffer after the last call *)

vars == <<key, used, ctr, buf, out>>

(* RNG_OUTPUTLEN *)
BufLen == K * BlockSize

NoBytes == [i \in {} |-> i]

(* Byte i of the nblocks * RNG_OUTPUTLEN bytes that aes128ctr_publicinputs *)
(* writes from counter c on: the counter block is c + i/16, and it wraps   *)
(* as a uint32_t.                                                          *)
CtrByte(k, c, i) ==
  [seed |-> k, block |-> (c + (i \div BlockSize)) % CtrMod, byte |-> i % BlockSize]

(* ctx->ctr += K * n *)
AddBlocksUnscaled(c, n) == (c + n) % CtrMod
AddBlocks(c, n) == (c + K * n) % CtrMod

(* A refilled ctx->buf. *)
RefillAfterCount(k, c) == [i \in 0 .. BufLen - 1 |-> CtrByte(k, AddBlocks(c, 1), i)]
Refill(k, c) == [i \in 0 .. BufLen - 1 |-> CtrByte(k, c, i)]

(* What is left to serve of a skip of n bytes behind the buffer. *)
FitsBuffer(n) == used + n <= BufLen
BeyondWholeSkip(n) == n
Beyond(n) == n - (BufLen - used)

(* prng_set_publicinputs: ctx->buf is left as it is, ctx->used says that   *)
(* none of it may be read.                                                 *)
SetPublicInputs(s) ==
  /\ key' = s
  /\ used' = BufLen
  /\ ctr' = 0
  /\ out' = NoBytes
  /\ UNCHANGED buf

(* prng_gen_publicinputs: first what is left of the buffer, then whole     *)
(* blocks straight to the caller, then a refill for the tail.              *)
Gen(n) ==
  LET left == BufLen - used
      ready == IF n <= left THEN n ELSE left
      nblocks == (n - ready) \div BufLen
      direct == ready + nblocks * BufLen
      tail == n - direct
      ctr1 == AddBlocks(ctr, nblocks)
  IN
    /\ out' = [i \in 0 .. n - 1 |->
                 IF i < ready THEN buf[used + i]
                 ELSE IF i < direct THEN CtrByte(key, ctr, i - ready)
                 ELSE CtrByte(key, ctr1, i - direct)]
    /\ \/ /\ tail > 0
          /\ buf' = Refill(key, ctr1)
          /\ ctr' = AddBlocks(ctr1, 1)
          /\ used' = tail
       \/ /\ tail = 0
          /\ ctr' = ctr1
          /\ used' = used + ready
          /\ UNCHANGED buf
    /\ UNCHANGED key

(* prng_skip_publicinputs, first return: what is skipped is in the buffer. *)
SkipInBuffer(n) ==
  /\ FitsBuffer(n)
  /\ used' = used + n
  /\ out' = NoBytes
  /\ UNCHANGED <<key, ctr, buf>>

(* prng_skip_publicinputs, past the buffer: the counter jumps over whole   *)
(* blocks, and a partly skipped block is generated to be read from.        *)
SkipBlocks(n) ==
  LET beyond == Beyond(n)
      nblocks == beyond \div BufLen
      rem == beyond - nblocks * BufLen
      ctr1 == AddBlocks(ctr, nblocks)
  IN
    /\ ~ FitsBuffer(n)
    /\ \/ /\ rem # 0
          /\ used' = rem
          /\ buf' = Refill(key, ctr1)
          /\ ctr' = AddBlocks(ctr1, 1)
       \/ /\ rem = 0
          /\ ctr' = ctr1
          /\ used' = BufLen
          /\ UNCHANGED buf
    /\ out' = NoBytes
    /\ UNCHANGED key

(* The context is a local of its caller: buf starts uninitialised, and the *)
(* first call on it is prng_set_publicinputs.                              *)
Init ==
  /\ key \in Seeds
  /\ used = BufLen
  /\ ctr = 0
  /\ buf = [i \in 0 .. BufLen - 1 |-> Junk]
  /\ out = NoBytes

Next ==
  \/ \E s \in Seeds : SetPublicInputs(s)
  \/ \E n \in 0 .. MaxReq : Gen(n) \/ SkipInBuffer(n) \/ SkipBlocks(n)

Spec == Init /\ [][Next]_vars

-----------------------------------------------------------------------------
Bytes == [seed : Seeds, block : 0 .. CtrMod - 1, byte : 0 .. BlockSize - 1]

(* The context stays well formed: used never passes the end of the buffer  *)
(* and the counter stays a uint32_t.                                       *)
TypeOK ==
  /\ key \in Seeds
  /\ used \in 0 .. BufLen
  /\ ctr \in 0 .. CtrMod - 1
  /\ buf \in [0 .. BufLen - 1 -> Bytes \cup {Junk}]
  /\ \E n \in 0 .. MaxReq : out \in [0 .. n - 1 -> Bytes]

(* ctx->ctr always stands at a whole buffer: every path advances it by a   *)
(* multiple of RNG_OUTPUTLEN / AES128_BLOCKSIZE, the direct path and both  *)
(* branches of skip included.                                              *)
CounterAligned == ctr % K = 0

(* The unread part of ctx->buf is the keystream of the current seed just   *)
(* before ctr: nothing of an earlier seed, of an earlier block or of the   *)
(* uninitialised buffer can be handed out (gen reads buf[used..]; set and  *)
(* the whole-block paths of gen and skip leave old bytes behind).          *)
UnreadIsStream ==
  \A i \in 0 .. BufLen - 1 :
    i >= used => buf[i] = CtrByte(key, (ctr + CtrMod) - K, i)

(* The position the context stands for: the buffer's unread bytes are the  *)
(* last ones before block ctr.                                             *)
Position ==
  ((ctr * BlockSize + BlockSize * CtrMod) - (BufLen - used)) % (BlockSize * CtrMod)

Stream == INSTANCE KeyStream WITH seed <- key, pos <- Position

(* Every gen and skip, in any order and of any lengths, does to the        *)
(* caller what the same call on the abstract keystream does: the buffer,   *)
(* the direct path and the counter jumps are invisible.                    *)
ImplementsStream == Stream!KSSpec
=============================================================================

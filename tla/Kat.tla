--------------------------------- MODULE Kat ---------------------------------
(***************************************************************************)
(* The NIST known-answer program, nist-submission-project/PQCgenKAT_sign.c, *)
(* on the generator of utils/nistkat/rng.c.  A first pass draws a seed and *)
(* a message for each vector and writes them to a request file; a second   *)
(* reads them back, seeds the generator anew for each vector and lets the  *)
(* library draw its key seed and its salt from it.  The generator is one   *)
(* global, DRBG_ctx, that both passes and the library use.                 *)
(*                                                                         *)
(* AES256_ECB is known by what is encrypted under which key.  What the     *)
(* library makes of its draws is known by the draws.                       *)
(***************************************************************************)
EXTENDS Integers, Sequences

CONSTANT Vectors   (* 100 *)

VARIABLES
  pc,
  DRBG_ctx,   (* Key and V *)
  encrypted,  (* the blocks the generator has encrypted since it was seeded *)
  again,      (* one of them more than once *)
  req, rsp,   (* the lines of the two files: a marker and what follows it *)
  pos,        (* lines of req that are read *)
  count,      (* i, count *)
  seed, mlen, m,
  sk, sm      (* what the library returned: sk_seed, and what sm was made of *)

drbg == <<DRBG_ctx, encrypted, again>>
locals == <<count, seed, mlen, m, sk, sm>>
vars == <<pc, drbg, req, rsp, pos, locals>>

Block == 16
LEN_SKSEED == 32
SaltByte == 16
Line(mark, val) == [mark |-> mark, val |-> val]

-----------------------------------------------------------------------------
(* AES256_ECB, and V after n increments *)
AES256_ECB(key, v) == [key |-> key, v |-> v]
After(v, n) == [v EXCEPT !.off = @ + n]

(* AES256_CTR_DRBG_Update: three blocks, with the provided data in them.   *)
(* What was the key and the counter is known by the blocks they come from. *)
NULL == << >>
UpdateBlocksStale(c) == [b \in 1 .. 3 |-> AES256_ECB(c.Key, After(c.V, b - 1))]
UpdateBlocks(c) == [b \in 1 .. 3 |-> AES256_ECB(c.Key, After(c.V, b))]
AES256_CTR_DRBG_Update(data, c) ==
  LET temp == [b \in 1 .. 3 |-> [block |-> UpdateBlocks(c)[b], data |-> data]]
  IN [Key |-> SubSeq(temp, 1, 2), V |-> [base |-> temp[3], off |-> 0]]

Zeroed == [Key |-> << >>, V |-> [base |-> << >>, off |-> 0]]

(* randombytes_init: Key and V are cleared, whatever was there. *)
ClearedKeyOnly(c) == [c EXCEPT !.Key = << >>]
Cleared(c) == Zeroed
randombytes_init(entropy) ==
  /\ DRBG_ctx' = AES256_CTR_DRBG_Update(entropy, Cleared(DRBG_ctx))
  /\ encrypted' = {} /\ again' = FALSE

(* randombytes: whole blocks, the last one cut; then new Key and V.        *)
Blocks(xlen) == (xlen + Block - 1) \div Block
Drawn(c, xlen) ==
  [b \in 1 .. Blocks(xlen) |->
     [block |-> AES256_ECB(c.Key, After(c.V, b)),
      put |-> IF xlen - (Block * (b - 1)) > Block - 1 THEN Block ELSE xlen - (Block * (b - 1))]]
randombytes(xlen) ==
  LET x == Drawn(DRBG_ctx, xlen)
      moved == [DRBG_ctx EXCEPT !.V = After(@, Blocks(xlen))]
      out == { x[b].block : b \in DOMAIN x }
      upd == { UpdateBlocks(moved)[b] : b \in 1 .. 3 }
  IN
    /\ DRBG_ctx' = AES256_CTR_DRBG_Update(NULL, moved)
    /\ encrypted' = encrypted \cup out \cup upd
    /\ again' = (again \/ out \cap encrypted # {} \/ upd \cap (encrypted \cup out) # {})

-----------------------------------------------------------------------------
(* FindMarker: the next line with the marker; 0 at the end of the file. *)
Marked(from, mark) == { n \in from + 1 .. Len(req) : req[n].mark = mark }
FindMarker(from, mark) ==
  IF Marked(from, mark) = {} THEN 0
  ELSE CHOOSE n \in Marked(from, mark) : \A k \in Marked(from, mark) : n <= k

(* ReadHex: the digits are shifted in, so all of them must fit. *)
Bytes(x) == LET sum[b \in 0 .. Len(x)] == IF b = 0 THEN 0 ELSE sum[b - 1] + x[b].put IN sum[Len(x)]
ReadHex(x, length) == IF Bytes(x) = length THEN x ELSE << >>

Init ==
  /\ pc = "start"
  /\ DRBG_ctx = Zeroed /\ encrypted = {} /\ again = FALSE
  /\ req = << >> /\ rsp = << >> /\ pos = 0
  /\ count = 0 /\ seed = << >> /\ mlen = 0 /\ m = << >> /\ sk = << >> /\ sm = << >>

(* The bytes 0, 1, ..., 47. *)
SeedFirst ==
  /\ pc = "start"
  /\ randombytes_init(<< "entropy_input" >>)
  /\ pc' = "seed"
  /\ UNCHANGED <<req, rsp, pos, locals>>

RequestSeed ==
  /\ pc = "seed" /\ count < Vectors
  /\ randombytes(48)
  /\ seed' = Drawn(DRBG_ctx, 48)
  /\ req' = req \o << Line("count", count), Line("seed", seed') >>
  /\ pc' = "msg"
  /\ UNCHANGED <<rsp, pos, count, mlen, m, sk, sm>>

RequestMsg ==
  /\ pc = "msg"
  /\ mlen' = 33 * (count + 1)
  /\ randombytes(mlen')
  /\ m' = Drawn(DRBG_ctx, mlen')
  /\ req' = req \o << Line("mlen", mlen'), Line("msg", m') >>
  /\ count' = count + 1
  /\ pc' = "seed"
  /\ UNCHANGED <<rsp, pos, seed, sk, sm>>

(* Nobody looks at what fprintf and fclose return: the file may end early  *)
(* (bound: between two lines).                                             *)
Reopen ==
  /\ pc = "seed" /\ count = Vectors
  /\ \E n \in 0 .. Len(req) : req' = SubSeq(req, 1, n)
  /\ pc' = "find"
  /\ UNCHANGED <<drbg, rsp, pos, locals>>

(* "count = ", then "seed = ": the generator starts again from the seed. *)
FindCount ==
  /\ pc = "find"
  /\ LET n == FindMarker(pos, "count")
     IN \/ n # 0 /\ pos' = n /\ count' = req[n].val /\ pc' = "reseed"
        \/ n = 0 /\ pc' = "done" /\ UNCHANGED <<pos, count>>
  /\ rsp' = IF pc' = "reseed" THEN Append(rsp, Line("count", count')) ELSE rsp
  /\ UNCHANGED <<drbg, req, seed, mlen, m, sk, sm>>

ReadSeed ==
  /\ pc = "reseed"
  /\ LET n == FindMarker(pos, "seed")
     IN \/ /\ n # 0
           /\ pos' = n /\ seed' = ReadHex(req[n].val, 48)
           /\ rsp' = Append(rsp, Line("seed", seed'))
           /\ randombytes_init(seed')
           /\ pc' = "read"
        \/ n = 0 /\ pc' = "failed" /\ UNCHANGED <<drbg, rsp, pos, seed>>
  /\ UNCHANGED <<req, count, mlen, m, sk, sm>>

ReadMlen ==
  /\ pc = "read"
  /\ LET n == FindMarker(pos, "mlen")
     IN \/ /\ n # 0
           /\ pos' = n /\ mlen' = req[n].val
           /\ rsp' = Append(rsp, Line("mlen", mlen'))
           /\ pc' = "calloc"
        \/ n = 0 /\ pc' = "failed" /\ UNCHANGED <<rsp, pos, mlen>>
  /\ UNCHANGED <<drbg, req, count, seed, m, sk, sm>>

ReadMsg ==
  /\ pc = "calloc"
  /\ LET n == FindMarker(pos, "msg")
     IN \/ /\ n # 0
           /\ pos' = n /\ m' = ReadHex(req[n].val, mlen)
           /\ rsp' = Append(rsp, Line("msg", m'))
           /\ pc' = "keypair"
        \/ n = 0 /\ pc' = "failed" /\ UNCHANGED <<rsp, pos, m>>
  /\ UNCHANGED <<drbg, req, count, seed, mlen, sk, sm>>

(* crypto_sign_keypair draws sk_seed. *)
crypto_sign_keypair ==
  /\ pc = "keypair"
  /\ randombytes(LEN_SKSEED)
  /\ sk' = Drawn(DRBG_ctx, LEN_SKSEED)
  /\ rsp' = Append(rsp, Line("sk", sk'))
  /\ pc' = "sign"
  /\ UNCHANGED <<req, pos, count, seed, mlen, m, sm>>

(* crypto_sign draws the salt, once for all attempts; they may all fail.   *)
crypto_sign ==
  /\ pc = "sign"
  /\ randombytes(SaltByte)
  /\ sm' = [m |-> m, sk |-> sk, salt |-> Drawn(DRBG_ctx, SaltByte)]
  /\ \/ rsp' = Append(rsp, Line("sm", sm')) /\ pc' = "open"
     \/ UNCHANGED rsp /\ pc' = "failed"
  /\ UNCHANGED <<req, pos, count, seed, mlen, m, sk>>

(* crypto_sign_open and the comparisons: what was signed is opened. *)
crypto_sign_open ==
  /\ pc = "open"
  /\ pc' = IF sm.m = m /\ Bytes(sm.m) = mlen THEN "find" ELSE "failed"
  /\ UNCHANGED <<drbg, req, rsp, pos, locals>>

Next ==
  \/ SeedFirst \/ RequestSeed \/ RequestMsg \/ Reopen
  \/ FindCount \/ ReadSeed \/ ReadMlen \/ ReadMsg
  \/ crypto_sign_keypair \/ crypto_sign \/ crypto_sign_open

Spec == Init /\ [][Next]_vars

-----------------------------------------------------------------------------
(* What a vector's seed and message alone lead to, with no vector before   *)
(* it: the generator of a new process, seeded, asked for 32 and for 16     *)
(* bytes.                                                                  *)
Alone(n) ==
  LET s == req[(4 * n) + 2].val
      msg == req[(4 * n) + 4].val
      E(g, k) == [block |-> [key |-> g.Key, v |-> [base |-> g.V.base, off |-> k]], put |-> 16]
      New(g, from, data) ==
        LET t == [b \in 1 .. 3 |->
                    [block |-> [key |-> g.Key, v |-> [base |-> g.V.base, off |-> from + b]], data |-> data]]
        IN [Key |-> <<t[1], t[2]>>, V |-> [base |-> t[3], off |-> 0]]
      first == New(Zeroed, 0, s)
      second == New(first, 2, << >>)
      key == << E(first, 1), E(first, 2) >>
      salt == << E(second, 1) >>
  IN << Line("count", n), Line("seed", s), Line("mlen", 33 * (n + 1)), Line("msg", msg),
        Line("sk", key), Line("sm", [m |-> msg, sk |-> key, salt |-> salt]) >>

(* The answer to a vector is a function of its seed and its message: what  *)
(* the request pass, the vectors before and their draws left in the global *)
(* generator makes no difference; and the program only reports success     *)
(* when every vector the file holds is answered, in order.                 *)
AnswersAlone ==
  /\ \A n \in 0 .. Vectors - 1 :
       (6 * n) + 6 <= Len(rsp) => SubSeq(rsp, (6 * n) + 1, (6 * n) + 6) = Alone(n)
  /\ pc = "done" => 4 * Len(rsp) = 6 * Len(req)

(* Between two seedings the generator never encrypts a block twice: no     *)
(* output is repeated, and none of it becomes a key.                       *)
BlocksFresh == ~again
=============================================================================

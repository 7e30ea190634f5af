--------------------------- MODULE GeneratorsProofs ---------------------------
(***************************************************************************)
(* Proofs about the two generators of bytes.  Prng, for every seed set,    *)
(* block size, buffer size, counter width and request bound: type          *)
(* correctness, the buffer and counter invariants, and that it implements  *)
(* KeyStream.  Kat (as KAT), for every number of vectors: no block is      *)
(* encrypted twice, and an answer depends on its vector alone.             *)
(***************************************************************************)
EXTENDS MCGenerators, WellFoundedInduction, SequenceTheorems, TLAPS

-----------------------------------------------------------------------------
(* \div and %, which the SMT backend does not reason about by itself.      *)

(* Quotient and remainder are determined by their defining equation. *)
LEMMA DivUnique ==
  ASSUME NEW d \in Nat \ {0}, NEW q \in Int, NEW r \in Int, 0 <= r, r < d
  PROVE  /\ (q * d + r) \div d = q
         /\ (q * d + r) % d = r
<1> DEFINE num == q * d + r
           p == num \div d
           s == num % d
<1>1. num \in Int /\ p \in Int /\ s \in Int /\ num = d * p + s /\ 0 <= s /\ s < d
  OBVIOUS
<1>2. d * (p - q) = r - s
  BY <1>1
<1>3. p - q < 1
  <2>1. SUFFICES ASSUME p - q >= 1 PROVE FALSE
    BY <1>1
  <2>2. d * (p - q) >= d
    BY <2>1, <1>1
  <2> QED BY <2>2, <1>2, <1>1
<1>4. p - q > -1
  <2>1. SUFFICES ASSUME p - q <= -1 PROVE FALSE
    BY <1>1
  <2>2. d * (p - q) <= -d
    BY <2>1, <1>1
  <2> QED BY <2>2, <1>2, <1>1
<1>5. p = q
  BY <1>3, <1>4, <1>1
<1> QED BY <1>5, <1>1

(* Division with remainder, as the SMT backend needs it spelled out. *)
LEMMA DivMod ==
  ASSUME NEW d \in Nat \ {0}, NEW num \in Int
  PROVE  /\ num \div d \in Int
         /\ num % d \in 0 .. d - 1
         /\ num = (num \div d) * d + (num % d)
  OBVIOUS

(* Adding multiples of the divisor moves the quotient only. *)
LEMMA DivShift ==
  ASSUME NEW d \in Nat \ {0}, NEW num \in Int, NEW by \in Int
  PROVE  /\ (num + by * d) \div d = num \div d + by
         /\ (num + by * d) % d = num % d
<1> DEFINE q == num \div d
           r == num % d
<1>1. q \in Int /\ r \in Int /\ 0 <= r /\ r < d /\ num = q * d + r
  BY DivMod
<1>2. num + by * d = (q + by) * d + r
  BY <1>1
<1>3. q + by \in Int
  BY <1>1
<1> HIDE DEF q, r
<1>4. ((q + by) * d + r) \div d = q + by /\ ((q + by) * d + r) % d = r
  BY <1>1, <1>3, DivUnique
<1> QED BY <1>2, <1>4 DEF q, r

(* The library's induction theorems take an operator as a parameter; for   *)
(* the elements of a set, its least-element theorem is enough.             *)
LEMMA NatLess == IsWellFoundedOn({ss \in Nat \X Nat : ss[1] < ss[2]}, Nat)
  BY NatLessThanWellFounded DEF OpToRel

(* Induction over the natural numbers, for a set. *)
LEMMA SetInduction ==
  ASSUME NEW X, 0 \in X, \A n \in Nat : n \in X => n + 1 \in X
  PROVE  \A n \in Nat : n \in X
<1> DEFINE R == {ss \in Nat \X Nat : ss[1] < ss[2]}
           T == Nat \ X
<1>1. SUFFICES ASSUME T # {} PROVE FALSE
  OBVIOUS
<1>2. IsWellFoundedOn(R, Nat) /\ T \subseteq Nat
  BY NatLess
<1>3. PICK n \in T : \A k \in T : ~ (<<k, n>> \in R)
  <2> HIDE DEF R, T
  <2> QED BY <1>1, <1>2, WFMin
<1>4. n \in Nat /\ n \notin X /\ n # 0
  BY <1>3
<1>5. n - 1 \in X
  <2>1. n - 1 \in Nat /\ n - 1 < n
    BY <1>4
  <2>2. <<n - 1, n>> \in R
    BY <1>4, <2>1
  <2> QED BY <1>3, <2>1, <2>2
<1> QED
  <2>1. n - 1 \in Nat /\ (n - 1) + 1 = n
    BY <1>4
  <2> QED BY <1>4, <1>5, <2>1

(* Induction over 0 .. N. *)
LEMMA InductionUpTo ==
  ASSUME NEW N \in Nat, NEW X, 0 \in X, \A n \in 0 .. N - 1 : n \in X => n + 1 \in X
  PROVE  \A n \in 0 .. N : n \in X
<1> DEFINE T == { n \in Nat : n <= N => n \in X }
<1>1. 0 \in T
  OBVIOUS
<1>2. \A n \in Nat : n \in T => n + 1 \in T
  <2>1. TAKE n \in Nat
  <2>2. SUFFICES ASSUME n \in T, n + 1 <= N PROVE n + 1 \in X
    OBVIOUS
  <2>3. n \in 0 .. N - 1 /\ n \in X
    BY <2>2
  <2> QED BY <2>3
<1>3. \A n \in Nat : n \in T
  <2> HIDE DEF T
  <2> QED BY <1>1, <1>2, SetInduction
<1> QED BY <1>3

-----------------------------------------------------------------------------
(* The constants, as the proofs use them. *)
LEMMA Constants ==
  /\ BlockSize \in Nat \ {0} /\ K \in Nat \ {0} /\ CtrMod \in Nat \ {0}
  /\ BufLen \in Nat \ {0} /\ MaxReq \in Nat
<1>1. BlockSize \in Nat \ {0} /\ K \in Nat \ {0} /\ CtrMod \in Nat \ {0} /\ MaxReq \in Nat
  BY PrngBlockAssumption, PrngCtrAssumption, PrngReqAssumption
<1>2. BufLen \in Nat \ {0}
  BY <1>1 DEF BufLen
<1> QED BY <1>1, <1>2

(* The counter wraps as AES block numbers do: the bytes do not see it. *)
LEMMA CtrByteShift ==
  ASSUME NEW k, NEW c \in Int, NEW w \in Int, NEW i \in Int
  PROVE  CtrByte(k, c + w * CtrMod, i) = CtrByte(k, c, i)
<1> DEFINE z == i \div BlockSize
           y == c + z
<1>1. z \in Int /\ w * CtrMod \in Int
  BY Constants, DivMod
<1>2. y \in Int /\ (c + w * CtrMod) + z = y + w * CtrMod
  <2> HIDE DEF z
  <2> QED BY <1>1, Constants
<1>3. (y + w * CtrMod) % CtrMod = y % CtrMod
  <2> HIDE DEF y
  <2> QED BY <1>2, Constants, DivShift
<1> QED BY <1>2, <1>3 DEF CtrByte

(* Byte i from counter c on is byte c * BlockSize + i of the keystream. *)
LEMMA CtrByteIsStream ==
  ASSUME NEW k, NEW c \in Int, NEW i \in Int
  PROVE  CtrByte(k, c, i) = Stream!Stream(k, c * BlockSize + i)
<1>1. (i + c * BlockSize) \div BlockSize = i \div BlockSize + c
      /\ (i + c * BlockSize) % BlockSize = i % BlockSize
  BY Constants, DivShift
<1>2. i + c * BlockSize = c * BlockSize + i
  BY Constants
<1>3. i \div BlockSize + c = c + i \div BlockSize
  BY Constants, DivMod
<1> QED BY <1>1, <1>2, <1>3 DEF CtrByte, Stream!Stream, Stream!Byte

(* The keystream repeats after 2^32 blocks. *)
LEMMA StreamPeriodic ==
  ASSUME NEW k, NEW p \in Int, NEW w \in Int
  PROVE  Stream!Stream(k, p + w * (BlockSize * CtrMod)) = Stream!Stream(k, p)
<1> DEFINE q == p \div BlockSize
<1>1. q \in Int /\ w * CtrMod \in Int
  BY Constants, DivMod
<1>2. p + w * (BlockSize * CtrMod) = p + (w * CtrMod) * BlockSize
  BY Constants
<1>3. (p + (w * CtrMod) * BlockSize) \div BlockSize = q + w * CtrMod
      /\ (p + (w * CtrMod) * BlockSize) % BlockSize = p % BlockSize
  BY <1>1, Constants, DivShift
<1>4. (q + w * CtrMod) % CtrMod = q % CtrMod
  <2> HIDE DEF q
  <2> QED BY <1>1, Constants, DivShift
<1> QED BY <1>2, <1>3, <1>4 DEF Stream!Stream

(* Advancing the counter is addition up to a multiple of its range. *)
LEMMA AddBlocksShift ==
  ASSUME NEW c \in Int, NEW n \in Int
  PROVE  /\ AddBlocks(c, n) \in 0 .. CtrMod - 1
         /\ \E w \in Int : AddBlocks(c, n) = (c + K * n) + w * CtrMod
<1> DEFINE x == c + K * n
<1>1. x \in Int
  BY Constants
<1> HIDE DEF x
<1>2. x \div CtrMod \in Int /\ x % CtrMod \in 0 .. CtrMod - 1
      /\ x = (x \div CtrMod) * CtrMod + (x % CtrMod)
  BY <1>1, Constants, DivMod
<1>3. x % CtrMod = x + (-(x \div CtrMod)) * CtrMod
  BY <1>1, <1>2, Constants
<1>4. AddBlocks(c, n) = x % CtrMod
  BY DEF AddBlocks, x
<1> QED BY <1>2, <1>3, <1>4 DEF x

LEMMA AddNoBlocks ==
  ASSUME NEW c \in 0 .. CtrMod - 1
  PROVE  AddBlocks(c, 0) = c
<1>1. (0 * CtrMod + c) % CtrMod = c
  BY Constants, DivUnique
<1>2. 0 * CtrMod + c = c /\ c + K * 0 = c
  BY Constants
<1> QED BY <1>1, <1>2 DEF AddBlocks

-----------------------------------------------------------------------------
(* The strengthening of UnreadIsStream that is inductive, and all that the *)
(* refinement needs of the context.                                        *)
ContextOK ==
  /\ key \in Seeds
  /\ used \in 0 .. BufLen
  /\ ctr \in 0 .. CtrMod - 1
  /\ DOMAIN buf = 0 .. BufLen - 1
  /\ UnreadIsStream

(* A buffer refilled from c is the stream just before the advanced counter. *)
LEMMA RefillIsStream ==
  ASSUME NEW k, NEW c \in Int, NEW i \in 0 .. BufLen - 1
  PROVE  Refill(k, c)[i] = CtrByte(k, (AddBlocks(c, 1) + CtrMod) - K, i)
<1>1. PICK w \in Int : AddBlocks(c, 1) = (c + K * 1) + w * CtrMod
  BY AddBlocksShift
<1>2. (AddBlocks(c, 1) + CtrMod) - K = c + (w + 1) * CtrMod
  BY <1>1, Constants
<1>3. i \in Int
  BY Constants
<1>4. CtrByte(k, c + (w + 1) * CtrMod, i) = CtrByte(k, c, i)
  BY <1>3, CtrByteShift
<1> QED BY <1>2, <1>4 DEF Refill

LEMMA NegativeProduct ==
  ASSUME NEW a \in Int, a <= -1, NEW d \in Nat \ {0}
  PROVE  a * d <= -d
<1>1. (a + 1) * d <= 0
  OBVIOUS
<1>2. (a + 1) * d = a * d + d
  OBVIOUS
<1>3. a * d \in Int
  OBVIOUS
<1> QED BY <1>1, <1>2, <1>3

(* What the LET definitions of Gen are worth. *)
LEMMA GenArith ==
  ASSUME NEW n \in Nat, used \in 0 .. BufLen,
         NEW ready, ready = IF n <= BufLen - used THEN n ELSE BufLen - used,
         NEW nb, nb = (n - ready) \div BufLen
  PROVE  /\ ready \in 0 .. BufLen /\ nb \in Nat
         /\ nb * BufLen \in Nat
         /\ (n - (ready + nb * BufLen)) \in 0 .. BufLen - 1
         /\ used + ready <= BufLen
         /\ n > ready => used + ready = BufLen
         /\ nb > 0 => n > ready
<1>1. ready \in 0 .. BufLen /\ n - ready \in Nat /\ used + ready <= BufLen
      /\ (n > ready => used + ready = BufLen)
  BY Constants
<1> DEFINE y == n - ready
<1>2. y \in Nat
  BY <1>1
<1> HIDE DEF y
<1> DEFINE r == y % BufLen
<1>3. nb = y \div BufLen
  BY DEF y
<1>4. nb \in Int /\ r \in 0 .. BufLen - 1 /\ y = nb * BufLen + r
  <2>1. /\ (y \div BufLen) \in Int
        /\ (y % BufLen) \in 0 .. BufLen - 1
        /\ y = (y \div BufLen) * BufLen + (y % BufLen)
    BY <1>2, Constants, DivMod
  <2> QED BY <2>1, <1>3, Zenon
<1> HIDE DEF r
<1>5. nb \in Nat
  <2>1. SUFFICES ASSUME nb <= -1 PROVE FALSE
    BY <1>4
  <2>2. nb * BufLen <= -BufLen
    BY <2>1, <1>4, Constants, NegativeProduct
  <2> QED BY <2>2, <1>2, <1>4, Constants
<1>6. nb * BufLen \in Nat
  BY <1>5, Constants
<1>7. nb > 0 => nb * BufLen > 0
  BY <1>5, Constants
<1>8. y - nb * BufLen \in 0 .. BufLen - 1
  BY <1>4, <1>6, Constants
<1>9. n - (ready + nb * BufLen) = y - nb * BufLen
  BY <1>1, <1>6 DEF y
<1>10. nb > 0 => n > ready
  BY <1>2, <1>5, <1>6, <1>7, <1>8, <1>1, Constants DEF y
<1> QED BY <1>1, <1>5, <1>6, <1>8, <1>9, <1>10

LEMMA ContextInit == Init => ContextOK
<1> SUFFICES ASSUME Init PROVE ContextOK
  OBVIOUS
<1>1. \A i \in 0 .. BufLen - 1 : ~ (i >= BufLen)
  BY Constants
<1> QED BY <1>1, Constants DEF Init, ContextOK, UnreadIsStream

LEMMA SetContext ==
  ASSUME ContextOK, NEW s \in Seeds, SetPublicInputs(s)
  PROVE  ContextOK'
<1>1. \A i \in 0 .. BufLen - 1 : ~ (i >= BufLen)
  BY Constants
<1>2. UnreadIsStream'
  BY <1>1 DEF UnreadIsStream, SetPublicInputs
<1> QED BY <1>2, Constants DEF ContextOK, SetPublicInputs, BufLen

(* A refill of the buffer from c, whatever was in it, restores ContextOK. *)
LEMMA RefillContext ==
  ASSUME ContextOK, NEW c \in Int, key' = key, buf' = Refill(key, c),
         ctr' = AddBlocks(c, 1), used' \in 0 .. BufLen
  PROVE  ContextOK'
<1>1. \A i \in 0 .. BufLen - 1 :
        buf'[i] = CtrByte(key', (ctr' + CtrMod) - K, i)
  BY RefillIsStream
<1>2. UnreadIsStream'
  BY <1>1 DEF UnreadIsStream
<1>3. ctr' \in 0 .. CtrMod - 1
  BY AddBlocksShift
<1>4. DOMAIN buf' = 0 .. BufLen - 1
  BY DEF Refill
<1> QED BY <1>2, <1>3, <1>4 DEF ContextOK, BufLen

(* Without a refill, either the counter stays and the unread part shrinks, *)
(* or the buffer is used up.                                               *)
LEMMA KeepContext ==
  ASSUME ContextOK, key' = key, buf' = buf, used' \in used .. BufLen,
         ctr' \in 0 .. CtrMod - 1, ctr' = ctr \/ used' = BufLen
  PROVE  ContextOK'
<1>1. CASE used' = BufLen
  <2>1. \A i \in 0 .. BufLen - 1 : ~ (i >= used')
    BY <1>1, Constants
  <2>2. UnreadIsStream'
    BY <2>1 DEF UnreadIsStream, BufLen
  <2> QED BY <2>2, Constants DEF ContextOK, BufLen
<1>2. CASE ctr' = ctr
  <2>1. \A i \in 0 .. BufLen - 1 : i >= used' => i >= used
    BY Constants DEF ContextOK
  <2>2. UnreadIsStream'
    BY <1>2, <2>1 DEF UnreadIsStream, ContextOK, BufLen
  <2>3. used' \in 0 .. BufLen
    BY Constants DEF ContextOK
  <2> QED BY <2>2, <2>3 DEF ContextOK, BufLen
<1> QED BY <1>1, <1>2

-----------------------------------------------------------------------------
(* Position before it is reduced modulo the period. *)
Base == (ctr * BlockSize + BlockSize * CtrMod) - (BufLen - used)

LEMMA BaseType ==
  ASSUME ContextOK
  PROVE  Base \in Int /\ Stream!Period \in Nat \ {0} /\ Position = Base % Stream!Period
         /\ Position \in Int
<1>1. ctr * BlockSize \in Int /\ BlockSize * CtrMod \in Nat \ {0}
  BY Constants DEF ContextOK
<1>2. Base \in Int /\ Stream!Period \in Nat \ {0}
  BY <1>1, Constants DEF ContextOK, Base, Stream!Period
<1>3. Position = Base % Stream!Period
  BY DEF Position, Base, Stream!Period
<1>4. Base % Stream!Period \in Int
  BY <1>2, DivMod
<1> QED BY <1>2, <1>3, <1>4

(* Reading the keystream from Position is reading it from Base. *)
LEMMA StreamFromBase ==
  ASSUME ContextOK, NEW k, NEW i \in Int
  PROVE  Stream!Stream(k, Position + i) = Stream!Stream(k, Base + i)
<1> DEFINE q == Base \div Stream!Period
<1>1. q \in Int /\ Base = q * Stream!Period + Position
  BY BaseType, DivMod
<1> HIDE DEF q
<1>2. Base + i = (Position + i) + q * Stream!Period
  BY <1>1, BaseType
<1>3. Position + i \in Int
  BY BaseType
<1>4. Stream!Stream(k, (Position + i) + q * (BlockSize * CtrMod))
        = Stream!Stream(k, Position + i)
  BY <1>1, <1>3, StreamPeriodic
<1> QED BY <1>2, <1>4 DEF Stream!Period

(* t buffers forward and used moved by the rest is n bytes forward. *)
LEMMA PositionMoves ==
  ASSUME ContextOK, NEW n \in Nat, NEW t \in Int, NEW w \in Int,
         ctr' = (ctr + K * t) + w * CtrMod,
         used' = (used + n) - t * BufLen
  PROVE  Position' = (Position + n) % Stream!Period
<1> DEFINE P == Stream!Period
           q == Base \div P
<1>1. /\ q \in Int /\ Base = q * P + Position
      /\ Position \in Int /\ P \in Nat \ {0}
  BY BaseType, DivMod
<1>2. ctr' * BlockSize = (ctr * BlockSize + t * BufLen) + w * (BlockSize * CtrMod)
  <2>1. ctr \in Int
    BY Constants DEF ContextOK
  <2>2. (K * t) * BlockSize = t * BufLen
    BY Constants DEF BufLen
  <2>3. (w * CtrMod) * BlockSize = w * (BlockSize * CtrMod)
    BY Constants
  <2>4. K * t \in Int /\ w * CtrMod \in Int
    BY Constants
  <2>5. ((ctr + K * t) + w * CtrMod) * BlockSize
          = (ctr * BlockSize + (K * t) * BlockSize) + (w * CtrMod) * BlockSize
    BY <2>1, <2>4, Constants
  <2> QED BY <2>2, <2>3, <2>5
<1>3. Base' = (Base + n) + w * P
  <2> DEFINE x == ctr * BlockSize
             y == w * (BlockSize * CtrMod)
             z == t * BufLen
             p == BlockSize * CtrMod
  <2>1. x \in Int /\ y \in Int /\ z \in Int /\ p \in Int /\ used \in Int /\ BufLen \in Int
    BY Constants DEF ContextOK
  <2>2. Base' = (((x + z) + y) + p) - (BufLen - ((used + n) - z))
    BY <1>2 DEF Base, BufLen
  <2>3. Base = (x + p) - (BufLen - used)
    BY DEF Base
  <2>4. y = w * P
    BY DEF Stream!Period
  <2> HIDE DEF x, y, z, p
  <2> QED BY <2>1, <2>2, <2>3, <2>4
<1>4. (Base + n) + w * P = (Position + n) + (q + w) * P
  <2> HIDE DEF q, P
  <2> QED BY <1>1
<1>5. ((Position + n) + (q + w) * P) % P = (Position + n) % P
  <2> HIDE DEF q, P
  <2>1. Position + n \in Int /\ q + w \in Int
    BY <1>1
  <2> QED BY <1>1, <2>1, DivShift
<1>6. Position' = Base' % P
  BY DEF Position, Base, Stream!Period, BufLen
<1> QED BY <1>3, <1>4, <1>5, <1>6

-----------------------------------------------------------------------------
(* The byte gen hands out at i, from whichever of its three sources. *)
LEMMA GenBytes ==
  ASSUME ContextOK, NEW n \in Nat, NEW i \in 0 .. n - 1,
         NEW ready \in 0 .. BufLen, NEW nb \in Nat,
         used + ready <= BufLen, n > ready => used + ready = BufLen
  PROVE  /\ i < ready => buf[used + i] = Stream!Stream(key, Position + i)
         /\ i >= ready => CtrByte(key, ctr, i - ready) = Stream!Stream(key, Position + i)
         /\ i >= ready + nb * BufLen =>
              CtrByte(key, AddBlocks(ctr, nb), i - (ready + nb * BufLen))
                = Stream!Stream(key, Position + i)
<1>1. nb * BufLen \in Nat
  BY Constants
<1>2. used \in Nat /\ BufLen \in Int /\ ctr \in Int /\ CtrMod \in Int /\ K \in Int
  BY Constants DEF ContextOK
<1> DEFINE x == ctr * BlockSize
           p == BlockSize * CtrMod
<1>3. x \in Int /\ p \in Int
  BY <1>2, Constants
<1>4. Base = (x + p) - (BufLen - used)
  BY DEF Base
<1>5. Stream!Stream(key, Position + i) = Stream!Stream(key, Base + i)
  BY StreamFromBase
<1>6. ASSUME i < ready
      PROVE  buf[used + i] = Stream!Stream(key, Base + i)
  <2>1. used + i \in 0 .. BufLen - 1 /\ used + i >= used /\ used + i \in Int
    BY <1>1, <1>2, <1>6
  <2>2. buf[used + i] = CtrByte(key, (ctr + CtrMod) - K, used + i)
    BY <2>1 DEF ContextOK, UnreadIsStream
  <2>3. (ctr + CtrMod) - K \in Int
    BY <1>2
  <2>4. CtrByte(key, (ctr + CtrMod) - K, used + i)
          = Stream!Stream(key, ((ctr + CtrMod) - K) * BlockSize + (used + i))
    BY <2>1, <2>3, CtrByteIsStream
  <2>5. ((ctr + CtrMod) - K) * BlockSize = (x + p) - BufLen
    BY <1>2, Constants DEF BufLen
  <2>6. ((x + p) - BufLen) + (used + i) = Base + i
    <3> HIDE DEF x, p
    <3> QED BY <1>2, <1>3, <1>4
  <2> QED BY <2>2, <2>4, <2>5, <2>6
<1>7. ASSUME i >= ready
      PROVE  CtrByte(key, ctr, i - ready) = Stream!Stream(key, Base + i)
  <2>1. used + ready = BufLen /\ i - ready \in Int
    BY <1>1, <1>7
  <2>2. CtrByte(key, ctr, i - ready) = Stream!Stream(key, x + (i - ready))
    BY <1>2, <2>1, CtrByteIsStream
  <2>3. Base + i = (x + (i - ready)) + 1 * p
    <3> HIDE DEF x, p
    <3> QED BY <1>1, <1>2, <1>3, <1>4, <2>1
  <2>4. x + (i - ready) \in Int
    BY <1>3, <2>1
  <2>5. Stream!Stream(key, (x + (i - ready)) + 1 * (BlockSize * CtrMod))
          = Stream!Stream(key, x + (i - ready))
    BY <2>4, StreamPeriodic
  <2> QED BY <2>2, <2>3, <2>5
<1>8. ASSUME i >= ready + nb * BufLen
      PROVE  CtrByte(key, AddBlocks(ctr, nb), i - (ready + nb * BufLen))
               = Stream!Stream(key, Base + i)
  <2> DEFINE z == nb * BufLen
             j == i - (ready + z)
  <2>1. PICK w \in Int : AddBlocks(ctr, nb) = (ctr + K * nb) + w * CtrMod
    <3>1. nb \in Int
      OBVIOUS
    <3> HIDE DEF x, p, z, j
    <3> QED BY <1>2, <3>1, AddBlocksShift
  <2>2. z \in Int /\ j \in Int /\ i >= ready /\ ctr + K * nb \in Int /\ i - ready \in Int
    BY <1>1, <1>2, <1>8
  <2>3. CtrByte(key, AddBlocks(ctr, nb), j) = CtrByte(key, ctr + K * nb, j)
    <3> HIDE DEF j
    <3> QED BY <2>1, <2>2, CtrByteShift
  <2>4. CtrByte(key, ctr + K * nb, j) = Stream!Stream(key, (ctr + K * nb) * BlockSize + j)
    <3> HIDE DEF j
    <3> QED BY <2>2, CtrByteIsStream
  <2>5. (ctr + K * nb) * BlockSize = x + z
    <3>1. (K * nb) * BlockSize = nb * (K * BlockSize)
      BY Constants
    <3>2. (ctr + K * nb) * BlockSize = ctr * BlockSize + (K * nb) * BlockSize
      BY <1>2, Constants
    <3> QED BY <3>1, <3>2 DEF BufLen
  <2>6. (x + z) + j = x + (i - ready)
    <3> HIDE DEF x, z
    <3> QED BY <1>1, <1>3, <2>2
  <2>7. CtrByte(key, ctr, i - ready) = Stream!Stream(key, x + (i - ready))
    BY <1>2, <2>2, CtrByteIsStream
  <2> QED BY <1>7, <2>2, <2>3, <2>4, <2>5, <2>6, <2>7
<1> QED BY <1>5, <1>6, <1>7, <1>8

LEMMA GenStep ==
  ASSUME ContextOK, NEW n \in 0 .. MaxReq, Gen(n)
  PROVE  ContextOK' /\ Stream!KSGen(n)
<1> DEFINE left == BufLen - used
           ready == IF n <= left THEN n ELSE left
           nb == (n - ready) \div BufLen
           direct == ready + nb * BufLen
           tail == n - direct
           ctr1 == AddBlocks(ctr, nb)
<1>1. n \in Nat
  BY Constants
<1>2. /\ ready \in 0 .. BufLen /\ nb \in Nat
      /\ nb * BufLen \in Nat
      /\ tail \in 0 .. BufLen - 1
      /\ used + ready <= BufLen
      /\ n > ready => used + ready = BufLen
      /\ nb > 0 => n > ready
  BY <1>1, GenArith DEF ContextOK
<1>3. used \in Int /\ BufLen \in Int /\ ctr \in 0 .. CtrMod - 1 /\ CtrMod \in Int /\ K \in Int
  BY Constants DEF ContextOK
<1>4. /\ out' = [i \in 0 .. n - 1 |->
                   IF i < ready THEN buf[used + i]
                   ELSE IF i < direct THEN CtrByte(key, ctr, i - ready)
                   ELSE CtrByte(key, ctr1, i - direct)]
      /\ key' = key
  BY DEF Gen
<1>5. \A i \in 0 .. n - 1 :
        (IF i < ready THEN buf[used + i]
         ELSE IF i < direct THEN CtrByte(key, ctr, i - ready)
         ELSE CtrByte(key, ctr1, i - direct)) = Stream!Stream(key, Position + i)
  <2> SUFFICES ASSUME NEW i \in 0 .. n - 1
      PROVE (IF i < ready THEN buf[used + i]
             ELSE IF i < direct THEN CtrByte(key, ctr, i - ready)
             ELSE CtrByte(key, ctr1, i - direct)) = Stream!Stream(key, Position + i)
    OBVIOUS
  <2>1. /\ i < ready => buf[used + i] = Stream!Stream(key, Position + i)
        /\ i >= ready => CtrByte(key, ctr, i - ready) = Stream!Stream(key, Position + i)
        /\ i >= direct => CtrByte(key, ctr1, i - direct) = Stream!Stream(key, Position + i)
    <3> HIDE DEF ready, nb
    <3> QED BY <1>1, <1>2, GenBytes
  <2>2. i \in Int /\ ready \in Int /\ direct \in Int
    BY <1>2
  <2> HIDE DEF ready, direct, ctr1
  <2> QED BY <2>1, <2>2
<1>6. out' = [i \in 0 .. n - 1 |-> Stream!Stream(key, Position + i)]
  <2> HIDE DEF ready, direct, ctr1
  <2> QED BY <1>4, <1>5
<1>7. PICK w \in Int : ctr1 = (ctr + K * nb) + w * CtrMod
  <2>1. nb \in Int /\ ctr \in Int
    BY <1>2, <1>3
  <2> HIDE DEF nb
  <2> QED BY <2>1, AddBlocksShift
<1>8. ctr1 \in 0 .. CtrMod - 1
  <2>1. nb \in Int /\ ctr \in Int
    BY <1>2, <1>3
  <2> HIDE DEF nb
  <2> QED BY <2>1, AddBlocksShift
<1>9. CASE tail > 0
  <2>1. buf' = Refill(key, ctr1) /\ ctr' = AddBlocks(ctr1, 1) /\ used' = tail
    BY <1>9 DEF Gen
  <2>2. ContextOK'
    <3>1. ctr1 \in Int /\ tail \in 0 .. BufLen
      BY <1>2, <1>3, <1>8
    <3> HIDE DEF tail, ctr1
    <3> QED BY <1>4, <2>1, <3>1, RefillContext
  <2>3. PICK l \in Int : ctr' = (ctr1 + K * 1) + l * CtrMod
    <3>1. ctr1 \in Int
      BY <1>3, <1>8
    <3> HIDE DEF ctr1
    <3> QED BY <2>1, <3>1, AddBlocksShift
  <2>4. ctr' = (ctr + K * (nb + 1)) + (w + l) * CtrMod
    <3> HIDE DEF nb, ctr1
    <3> QED BY <1>2, <1>3, <1>7, <2>3
  <2>5. used' = (used + n) - (nb + 1) * BufLen
    <3>1. (nb + 1) * BufLen = nb * BufLen + BufLen
      BY <1>2, <1>3
    <3>2. used + ready = BufLen
      BY <1>1, <1>2, <1>9
    <3>3. used' = n - (ready + nb * BufLen)
      BY <2>1
    <3> HIDE DEF ready, nb
    <3> QED BY <1>1, <1>2, <1>3, <3>1, <3>2, <3>3
  <2>6. Position' = (Position + n) % Stream!Period
    <3>1. nb + 1 \in Int /\ w + l \in Int
      BY <1>2
    <3> HIDE DEF nb
    <3> QED BY <1>1, <2>4, <2>5, <3>1, PositionMoves
  <2> QED BY <1>4, <1>6, <2>2, <2>6 DEF Stream!KSGen
<1>10. CASE tail = 0
  <2>1. ctr' = ctr1 /\ used' = used + ready /\ buf' = buf
    BY <1>10 DEF Gen
  <2>2. nb > 0 \/ ctr1 = ctr
    <3>1. AddBlocks(ctr, 0) = ctr
      BY <1>3, AddNoBlocks
    <3>2. nb \in Nat
      BY <1>2
    <3> HIDE DEF nb
    <3> QED BY <3>1, <3>2
  <2>3. ContextOK'
    <3>1. used' = BufLen \/ ctr' = ctr
      BY <1>2, <2>1, <2>2
    <3>2. used' \in used .. BufLen
      BY <1>2, <1>3, <2>1
    <3> HIDE DEF ready, ctr1
    <3> QED BY <1>4, <1>8, <2>1, <3>1, <3>2, KeepContext
  <2>4. used' = (used + n) - nb * BufLen
    <3>1. n - (ready + nb * BufLen) = 0
      BY <1>10
    <3> HIDE DEF ready, nb
    <3> QED BY <1>1, <1>2, <1>3, <2>1, <3>1
  <2>5. Position' = (Position + n) % Stream!Period
    <3>1. nb \in Int
      BY <1>2
    <3> HIDE DEF nb
    <3> QED BY <1>1, <1>7, <2>1, <2>4, <3>1, PositionMoves
  <2> QED BY <1>4, <1>6, <2>3, <2>5 DEF Stream!KSGen
<1> QED BY <1>2, <1>9, <1>10

LEMMA SkipInBufferStep ==
  ASSUME ContextOK, NEW n \in 0 .. MaxReq, SkipInBuffer(n)
  PROVE  ContextOK' /\ Stream!KSSkip(n)
<1>1. n \in Nat /\ used \in Nat /\ BufLen \in Nat /\ ctr \in 0 .. CtrMod - 1 /\ CtrMod \in Nat
      /\ K \in Nat
  BY Constants DEF ContextOK
<1>2. /\ used + n <= BufLen /\ used' = used + n /\ out' = NoBytes
      /\ key' = key /\ ctr' = ctr /\ buf' = buf
  BY DEF SkipInBuffer, FitsBuffer
<1>3. used' \in used .. BufLen
  BY <1>1, <1>2
<1>4. ContextOK'
  BY <1>1, <1>2, <1>3, KeepContext
<1> DEFINE z == 0
<1>5. ctr' = (ctr + K * z) + z * CtrMod
  BY <1>1, <1>2
<1>6. used' = (used + n) - z * BufLen
  BY <1>1, <1>2
<1>7. Position' = (Position + n) % Stream!Period
  <2>1. z \in Int
    OBVIOUS
  <2> HIDE DEF z
  <2> QED BY <1>1, <1>5, <1>6, <2>1, PositionMoves
<1> QED BY <1>2, <1>4, <1>7 DEF Stream!KSSkip, NoBytes, Stream!NoBytes

LEMMA SkipBlocksStep ==
  ASSUME ContextOK, NEW n \in 0 .. MaxReq, SkipBlocks(n)
  PROVE  ContextOK' /\ Stream!KSSkip(n)
<1> DEFINE beyond == n - (BufLen - used)
           nb == beyond \div BufLen
           rem == beyond - nb * BufLen
           ctr1 == AddBlocks(ctr, nb)
<1>1. n \in Nat /\ used \in 0 .. BufLen /\ BufLen \in Nat \ {0} /\ ctr \in 0 .. CtrMod - 1
      /\ CtrMod \in Nat /\ K \in Nat
  BY Constants DEF ContextOK
<1>2. /\ ~ (used + n <= BufLen)
      /\ \/ rem # 0 /\ used' = rem /\ buf' = Refill(key, ctr1) /\ ctr' = AddBlocks(ctr1, 1)
         \/ rem = 0 /\ ctr' = ctr1 /\ used' = BufLen /\ buf' = buf
      /\ out' = NoBytes /\ key' = key
  BY DEF SkipBlocks, Beyond, FitsBuffer
<1>3. beyond \in Nat
  BY <1>1, <1>2
<1>4. nb \in Int /\ nb * BufLen \in Int /\ rem \in 0 .. BufLen - 1
  <2> HIDE DEF beyond
  <2>1. /\ nb \in Int
        /\ (beyond % BufLen) \in 0 .. BufLen - 1
        /\ beyond = nb * BufLen + (beyond % BufLen)
    BY <1>1, <1>3, DivMod
  <2> HIDE DEF nb
  <2>2. nb * BufLen \in Int
    BY <1>1, <2>1
  <2> QED BY <1>1, <1>3, <2>1, <2>2
<1>5. ctr \in Int
  BY <1>1
<1>6. PICK w \in Int : ctr1 = (ctr + K * nb) + w * CtrMod
  <2> HIDE DEF nb
  <2> QED BY <1>4, <1>5, AddBlocksShift
<1>7. ctr1 \in 0 .. CtrMod - 1 /\ ctr1 \in Int
  <2>1. ctr1 \in 0 .. CtrMod - 1
    <3> HIDE DEF nb
    <3> QED BY <1>4, <1>5, AddBlocksShift
  <2> HIDE DEF ctr1
  <2> QED BY <1>1, <2>1
<1>8. CASE rem # 0
  <2>1. used' = rem /\ buf' = Refill(key, ctr1) /\ ctr' = AddBlocks(ctr1, 1)
    BY <1>2, <1>8
  <2>2. ContextOK'
    <3>1. used' \in 0 .. BufLen
      BY <1>1, <1>4, <2>1
    <3> HIDE DEF ctr1
    <3> QED BY <1>2, <1>7, <2>1, <3>1, RefillContext
  <2>3. PICK l \in Int : ctr' = (ctr1 + K * 1) + l * CtrMod
    <3> HIDE DEF ctr1
    <3> QED BY <1>7, <2>1, AddBlocksShift
  <2>4. ctr' = (ctr + K * (nb + 1)) + (w + l) * CtrMod
    <3> HIDE DEF nb, ctr1
    <3> QED BY <1>1, <1>4, <1>6, <2>3
  <2>5. used' = (used + n) - (nb + 1) * BufLen
    <3> HIDE DEF nb
    <3>1. (nb + 1) * BufLen = nb * BufLen + BufLen
      BY <1>1, <1>4
    <3> QED BY <1>1, <1>4, <2>1, <3>1
  <2>6. Position' = (Position + n) % Stream!Period
    <3>1. nb + 1 \in Int /\ w + l \in Int
      BY <1>4
    <3> HIDE DEF nb
    <3> QED BY <1>1, <2>4, <2>5, <3>1, PositionMoves
  <2> QED BY <1>2, <2>2, <2>6 DEF Stream!KSSkip, NoBytes, Stream!NoBytes
<1>9. CASE rem = 0
  <2>1. ctr' = ctr1 /\ used' = BufLen /\ buf' = buf
    BY <1>2, <1>9
  <2>2. ContextOK'
    <3>1. used' \in used .. BufLen
      BY <1>1, <2>1
    <3> HIDE DEF ctr1
    <3> QED BY <1>2, <1>7, <2>1, <3>1, KeepContext
  <2>3. used' = (used + n) - nb * BufLen
    <3> HIDE DEF nb
    <3> QED BY <1>1, <1>4, <1>9, <2>1
  <2>4. Position' = (Position + n) % Stream!Period
    <3> HIDE DEF nb
    <3> QED BY <1>1, <1>4, <1>6, <2>1, <2>3, PositionMoves
  <2> QED BY <1>2, <2>2, <2>4 DEF Stream!KSSkip, NoBytes, Stream!NoBytes
<1> QED BY <1>8, <1>9

LEMMA SetStep ==
  ASSUME ContextOK, NEW s \in Seeds, SetPublicInputs(s)
  PROVE  ContextOK' /\ Stream!KSSet(s)
<1>1. ContextOK'
  BY SetContext
<1>2. Position' = 0
  <2>1. ctr' = 0 /\ used' = BufLen
    BY DEF SetPublicInputs
  <2>2. Position' = (BlockSize * CtrMod) % (BlockSize * CtrMod)
    BY <2>1, Constants DEF Position, BufLen
  <2>3. BlockSize * CtrMod \in Nat \ {0}
    BY Constants
  <2> DEFINE p == BlockSize * CtrMod
  <2> HIDE DEF p
  <2>4. p \in Nat \ {0} => p % p = 0
    <3>1. p \in Nat \ {0} => (1 * p + 0) % p = 0
      BY DivUnique
    <3> QED BY <3>1
  <2> QED BY <2>2, <2>3, <2>4 DEF p
<1> QED BY <1>1, <1>2 DEF SetPublicInputs, Stream!KSSet, NoBytes, Stream!NoBytes

-----------------------------------------------------------------------------
(* Every step keeps the context sound and is a step of the keystream. *)
LEMMA NextStep ==
  ASSUME ContextOK, Next
  PROVE  ContextOK' /\ Stream!KSNext
<1>1. ASSUME NEW s \in Seeds, SetPublicInputs(s)
      PROVE  ContextOK' /\ Stream!KSNext
  BY <1>1, SetStep DEF Stream!KSNext
<1>2. ASSUME NEW n \in 0 .. MaxReq, Gen(n)
      PROVE  ContextOK' /\ Stream!KSNext
  BY <1>2, GenStep DEF Stream!KSNext
<1>3. ASSUME NEW n \in 0 .. MaxReq, SkipInBuffer(n)
      PROVE  ContextOK' /\ Stream!KSNext
  BY <1>3, SkipInBufferStep DEF Stream!KSNext
<1>4. ASSUME NEW n \in 0 .. MaxReq, SkipBlocks(n)
      PROVE  ContextOK' /\ Stream!KSNext
  BY <1>4, SkipBlocksStep DEF Stream!KSNext
<1> QED BY <1>1, <1>2, <1>3, <1>4 DEF Next

LEMMA ContextInvariant == Spec => []ContextOK
<1>1. Init => ContextOK
  BY ContextInit
<1>2. ContextOK /\ [Next]_vars => ContextOK'
  <2>1. ASSUME ContextOK, UNCHANGED vars PROVE ContextOK'
    BY <2>1 DEF vars, ContextOK, UnreadIsStream, BufLen
  <2> QED BY <2>1, NextStep
<1> QED BY <1>1, <1>2, PTL DEF Spec

(* The unread part of the buffer is always keystream of the current seed   *)
(* that lies just before the counter, for every backend's buffer size and  *)
(* every sequence of set, gen and skip calls.                              *)
THEOREM UnreadIsStreamAlways == Spec => []UnreadIsStream
<1>1. ContextOK => UnreadIsStream
  BY DEF ContextOK
<1> QED BY <1>1, ContextInvariant, PTL

(* Prng implements KeyStream: the buffering is invisible to the callers of *)
(* gen and skip.                                                           *)
THEOREM PrngImplementsKeyStream == Spec => ImplementsStream
<1>1. Init => Stream!KSInit
  <2> SUFFICES ASSUME Init PROVE Stream!KSInit
    OBVIOUS
  <2>1. ctr = 0 /\ used = BufLen
    BY DEF Init
  <2>2. Position = (BlockSize * CtrMod) % (BlockSize * CtrMod)
    BY <2>1, Constants DEF Position
  <2>3. BlockSize * CtrMod \in Nat \ {0}
    BY Constants
  <2> DEFINE p == BlockSize * CtrMod
  <2> HIDE DEF p
  <2>4. p \in Nat \ {0} => p % p = 0
    <3>1. p \in Nat \ {0} => (1 * p + 0) % p = 0
      BY DivUnique
    <3> QED BY <3>1
  <2>5. Position = 0
    BY <2>2, <2>3, <2>4 DEF p
  <2> QED BY <2>5 DEF Init, Stream!KSInit, NoBytes, Stream!NoBytes
<1>2. ContextOK /\ [Next]_vars => [Stream!KSNext]_(Stream!ksVars)
  <2>1. ASSUME UNCHANGED vars PROVE UNCHANGED Stream!ksVars
    BY <2>1 DEF vars, Stream!ksVars, Position, BufLen
  <2> QED BY <2>1, NextStep
<1> QED BY <1>1, <1>2, ContextInvariant, PTL DEF Spec, ImplementsStream, Stream!KSSpec

-----------------------------------------------------------------------------
(* CounterAligned rests on 2^32 being a multiple of K, not on the buffer.  *)
LEMMA MultipleMod ==
  ASSUME NEW d \in Nat \ {0}, NEW q \in Int
  PROVE  (q * d) % d = 0
<1>1. (q * d + 0) % d = 0
  BY DivUnique
<1> QED BY <1>1

LEMMA AddBlocksAligned ==
  ASSUME NEW c \in Int, NEW n \in Int
  PROVE  c % K = 0 => AddBlocks(c, n) % K = 0
<1> SUFFICES ASSUME c % K = 0 PROVE AddBlocks(c, n) % K = 0
  OBVIOUS
<1> DEFINE g == CtrMod \div K
           q == c \div K
<1>1. g \in Int /\ q \in Int /\ CtrMod = g * K /\ c = q * K
  BY Constants, PrngCtrAssumption, DivMod
<1> HIDE DEF g, q
<1>2. PICK w \in Int : AddBlocks(c, n) = (c + K * n) + w * CtrMod
  BY AddBlocksShift, Zenon
<1>3. (c + K * n) + w * CtrMod = ((q + n) + w * g) * K
  <2>1. w * (g * K) = (w * g) * K /\ w * g \in Int
    BY <1>1, Constants
  <2>2. K * n = n * K /\ K \in Int
    BY Constants
  <2> QED BY <1>1, <2>1, <2>2
<1>4. (q + n) + w * g \in Int
  BY <1>1
<1> DEFINE y == (q + n) + w * g
<1> HIDE DEF y
<1>5. (y * K) % K = 0
  <2>1. y \in Int
    BY <1>4 DEF y
  <2> QED BY <2>1, Constants, MultipleMod
<1> QED BY <1>2, <1>3, <1>5 DEF y

(* Whatever is generated or skipped, the counter stays a whole number of   *)
(* buffers, so a refill never starts in the middle of one.                 *)
THEOREM CounterAlwaysAligned == Spec => []CounterAligned
<1> DEFINE Inv == CounterAligned /\ ctr \in 0 .. CtrMod - 1
<1>1. Init => Inv
  <2>1. (0 * K + 0) % K = 0
    BY Constants, DivUnique
  <2>2. 0 % K = 0
    BY <2>1, Constants
  <2> QED BY <2>2, Constants DEF Init, CounterAligned
<1>2. Inv /\ ContextOK /\ [Next]_vars => Inv'
  <2> SUFFICES ASSUME CounterAligned, ContextOK, [Next]_vars PROVE Inv'
    OBVIOUS
  <2> DEFINE Advanced == \E n \in Int : ctr' = AddBlocks(ctr, n) \/ ctr' = AddBlocks(AddBlocks(ctr, n), 1)
  <2>1. ctr \in 0 .. CtrMod - 1 /\ ctr % K = 0 /\ ctr \in Int
    BY Constants DEF ContextOK, CounterAligned
  <2>2. ASSUME Advanced PROVE Inv'
    <3>1. PICK n \in Int : ctr' = AddBlocks(ctr, n) \/ ctr' = AddBlocks(AddBlocks(ctr, n), 1)
      BY <2>2
    <3>2. AddBlocks(ctr, n) \in 0 .. CtrMod - 1 /\ AddBlocks(ctr, n) % K = 0
      BY <2>1, AddBlocksShift, AddBlocksAligned
    <3>3. AddBlocks(ctr, n) \in Int
      BY <3>2, Constants
    <3>4. AddBlocks(AddBlocks(ctr, n), 1) \in 0 .. CtrMod - 1
          /\ AddBlocks(AddBlocks(ctr, n), 1) % K = 0
      <4> DEFINE c == AddBlocks(ctr, n)
                 i == 1
      <4>1. c \in Int /\ c % K = 0 /\ i \in Int
        BY <3>2, <3>3
      <4> HIDE DEF c, i
      <4>2. AddBlocks(c, i) \in 0 .. CtrMod - 1 /\ AddBlocks(c, i) % K = 0
        BY <4>1, AddBlocksShift, AddBlocksAligned
      <4> QED BY <4>2 DEF c, i
    <3> QED BY <3>1, <3>2, <3>4 DEF CounterAligned
  <2>3. ASSUME ctr' = ctr PROVE Inv'
    BY <2>1, <2>3 DEF CounterAligned
  <2>4. ASSUME NEW s \in Seeds, SetPublicInputs(s) PROVE Inv'
    <3>1. (0 * K + 0) % K = 0
      BY Constants, DivUnique
    <3> QED BY <2>4, <3>1, Constants DEF SetPublicInputs, CounterAligned
  <2>5. ASSUME NEW n \in 0 .. MaxReq, Gen(n) PROVE Inv'
    <3> DEFINE ready == IF n <= BufLen - used THEN n ELSE BufLen - used
               nb == (n - ready) \div BufLen
    <3>1. nb \in Int
      BY Constants, DivMod DEF ContextOK
    <3>2. ctr' = AddBlocks(ctr, nb) \/ ctr' = AddBlocks(AddBlocks(ctr, nb), 1)
      BY <2>5 DEF Gen
    <3> HIDE DEF nb
    <3> QED BY <2>2, <3>1, <3>2
  <2>6. ASSUME NEW n \in 0 .. MaxReq, SkipInBuffer(n) PROVE Inv'
    BY <2>3, <2>6 DEF SkipInBuffer
  <2>7. ASSUME NEW n \in 0 .. MaxReq, SkipBlocks(n) PROVE Inv'
    <3> DEFINE nb == Beyond(n) \div BufLen
    <3>1. nb \in Int
      BY Constants, DivMod DEF ContextOK, Beyond
    <3>2. ctr' = AddBlocks(ctr, nb) \/ ctr' = AddBlocks(AddBlocks(ctr, nb), 1)
      BY <2>7 DEF SkipBlocks
    <3> HIDE DEF nb
    <3> QED BY <2>2, <3>1, <3>2
  <2>8. ASSUME UNCHANGED vars PROVE Inv'
    BY <2>3, <2>8 DEF vars
  <2> QED BY <2>4, <2>5, <2>6, <2>7, <2>8 DEF Next
<1>3. Inv => CounterAligned
  OBVIOUS
<1> QED BY <1>1, <1>2, <1>3, ContextInvariant, PTL DEF Spec

-----------------------------------------------------------------------------
LEMMA StreamType ==
  ASSUME NEW k \in Seeds, NEW p \in Int
  PROVE  Stream!Stream(k, p) \in Bytes
<1>1. (p \div BlockSize) \in Int /\ (p % BlockSize) \in 0 .. BlockSize - 1
  BY Constants, DivMod
<1> DEFINE q == p \div BlockSize
<1>2. (q % CtrMod) \in 0 .. CtrMod - 1
  <2>1. q \in Int
    BY <1>1
  <2> HIDE DEF q
  <2> QED BY <2>1, Constants, DivMod
<1> QED BY <1>1, <1>2 DEF Stream!Stream, Stream!Byte, Bytes

LEMMA RefillType ==
  ASSUME NEW k \in Seeds, NEW c \in Int
  PROVE  Refill(k, c) \in [0 .. BufLen - 1 -> Bytes]
<1>1. ASSUME NEW i \in 0 .. BufLen - 1
      PROVE  CtrByte(k, c, i) \in Bytes
  <2>1. i \in Int /\ c * BlockSize + i \in Int
    BY Constants
  <2>2. CtrByte(k, c, i) = Stream!Stream(k, c * BlockSize + i)
    BY <2>1, CtrByteIsStream
  <2> QED BY <2>1, <2>2, StreamType
<1> QED BY <1>1 DEF Refill

(* TypeOK: used never passes the end of the buffer, the counter stays in   *)
(* its width, and what a call returns is keystream, never Junk.            *)
THEOREM TypeCorrect == Spec => []TypeOK
<1> DEFINE BufType == buf \in [0 .. BufLen - 1 -> Bytes \cup {Junk}]
           OutType == \E n \in 0 .. MaxReq : out \in [0 .. n - 1 -> Bytes]
           Inv == BufType /\ OutType
<1>1. NoBytes \in [0 .. 0 - 1 -> Bytes] /\ 0 \in 0 .. MaxReq
  <2>1. 0 .. 0 - 1 = {}
    OBVIOUS
  <2> QED BY <2>1, Constants DEF NoBytes
<1>2. Init => Inv
  BY <1>1 DEF Init
<1>3. Inv /\ ContextOK /\ [Next]_vars => Inv'
  <2> SUFFICES ASSUME Inv, ContextOK, [Next]_vars PROVE Inv'
    OBVIOUS
  <2>1. key \in Seeds /\ ctr \in Int /\ used \in 0 .. BufLen
    BY Constants DEF ContextOK
  <2>2. ASSUME NEW c \in Int, buf' = Refill(key, c) PROVE BufType'
    BY <2>1, <2>2, RefillType DEF BufLen
  <2>3. ASSUME buf' = buf PROVE BufType'
    BY <2>3 DEF BufLen
  <2>4. ASSUME NEW n \in Int PROVE AddBlocks(ctr, n) \in Int
    BY <2>1, AddBlocksShift, Constants
  <2>5. ASSUME out' = NoBytes PROVE OutType'
    BY <1>1, <2>5
  <2>6. ASSUME NEW s \in Seeds, SetPublicInputs(s) PROVE Inv'
    BY <2>3, <2>5, <2>6 DEF SetPublicInputs
  <2>7. ASSUME NEW n \in 0 .. MaxReq, Gen(n) PROVE Inv'
    <3> DEFINE ready == IF n <= BufLen - used THEN n ELSE BufLen - used
               nb == (n - ready) \div BufLen
    <3>1. AddBlocks(ctr, nb) \in Int
      <4>1. nb \in Int
        BY Constants, DivMod DEF ContextOK
      <4> HIDE DEF nb
      <4> QED BY <2>4, <4>1
    <3>2. buf' = buf \/ buf' = Refill(key, AddBlocks(ctr, nb))
      BY <2>7 DEF Gen
    <3>3. BufType'
      <4> HIDE DEF nb
      <4> QED BY <2>2, <2>3, <3>1, <3>2
    <3>4. out' = [i \in 0 .. n - 1 |-> Stream!Stream(key, Position + i)]
      BY <2>7, GenStep DEF Stream!KSGen
    <3>5. \A i \in 0 .. n - 1 : Position + i \in Int
      BY BaseType, Constants
    <3>6. out' \in [0 .. n - 1 -> Bytes]
      BY <2>1, <3>4, <3>5, StreamType
    <3> QED BY <3>3, <3>6
  <2>8. ASSUME NEW n \in 0 .. MaxReq, SkipInBuffer(n) PROVE Inv'
    BY <2>3, <2>5, <2>8 DEF SkipInBuffer
  <2>9. ASSUME NEW n \in 0 .. MaxReq, SkipBlocks(n) PROVE Inv'
    <3> DEFINE nb == Beyond(n) \div BufLen
    <3>1. AddBlocks(ctr, nb) \in Int
      <4>1. nb \in Int
        BY Constants, DivMod DEF ContextOK, Beyond
      <4> HIDE DEF nb
      <4> QED BY <2>4, <4>1
    <3>2. (buf' = buf \/ buf' = Refill(key, AddBlocks(ctr, nb))) /\ out' = NoBytes
      BY <2>9 DEF SkipBlocks
    <3> HIDE DEF nb
    <3> QED BY <2>2, <2>3, <2>5, <3>1, <3>2
  <2>10. ASSUME UNCHANGED vars PROVE Inv'
    BY <2>10 DEF vars, BufLen
  <2> QED BY <2>6, <2>7, <2>8, <2>9, <2>10 DEF Next
<1>4. Inv /\ ContextOK => TypeOK
  BY DEF TypeOK, ContextOK
<1> QED BY <1>2, <1>3, <1>4, ContextInvariant, PTL DEF Spec

-----------------------------------------------------------------------------
(* DRBG_ctx holds a key and a counter, which starts at its base in between *)
(* calls.                                                                  *)
ContextShape ==
  DRBG_ctx = [Key |-> DRBG_ctx.Key, V |-> [base |-> DRBG_ctx.V.base, off |-> 0]]

(* Where a key comes from: half of it was the encryption of a block under  *)
(* the key before it, which was the cleared one or is among the encrypted. *)
Descends(k, known) == k[1].block.key = << >> \/ k[1].block \in known

LEMMA ThreeCut ==
  ASSUME NEW f
  PROVE  SubSeq([b \in 1 .. 3 |-> f[b]], 1, 2) = <<f[1], f[2]>>
<1>1. ASSUME NEW T, f[1] \in T, f[2] \in T, f[3] \in T
      PROVE  SubSeq([b \in 1 .. 3 |-> f[b]], 1, 2) = <<f[1], f[2]>>
  <2> DEFINE s == [b \in 1 .. 3 |-> f[b]]
  <2>1. s \in Seq(T) /\ Len(s) = 3 /\ <<f[1], f[2]>> \in Seq(T)
    <3>1. \A b \in 1 .. 3 : f[b] \in T
      BY <1>1
    <3>2. s \in [1 .. 3 -> T]
      BY <3>1
    <3> QED BY <3>2, <1>1, LenProperties
  <2>2. \A b \in 1 .. 3 : s[b] = f[b]
    OBVIOUS
  <2> HIDE DEF s
  <2>3. \A b \in 1 .. 2 : s[b] \in T
    BY <1>1, <2>2
  <2>4. SubSeq(s, 1, 2) \in Seq(T) /\ Len(SubSeq(s, 1, 2)) = 2
        /\ \A b \in 1 .. 2 : SubSeq(s, 1, 2)[b] = s[b]
    BY <2>3, SubSeqProperties
  <2>5. \A b \in 1 .. 2 : SubSeq(s, 1, 2)[b] = <<f[1], f[2]>>[b]
    BY <2>2, <2>4
  <2>6. Len(<<f[1], f[2]>>) = 2
    OBVIOUS
  <2>7. SubSeq(s, 1, 2) = <<f[1], f[2]>>
    BY <2>1, <2>4, <2>5, <2>6, SeqEqual
  <2> QED BY <2>7 DEF s
<1> DEFINE T == {f[1], f[2], f[3]}
<1>2. f[1] \in T /\ f[2] \in T /\ f[3] \in T
  OBVIOUS
<1> HIDE DEF T
<1> QED BY <1>1, <1>2

(* The blocks of an update, for a counter off blocks behind its base. *)
Updated(k, base, off, b) == [key |-> k, v |-> [base |-> base, off |-> off + b]]

(* DRBG_ctx, off blocks into a counter. *)
At(k, base, off) == [Key |-> k, V |-> [base |-> base, off |-> off]]

(* What an update leaves: the first two blocks as the key, the third as V. *)
NewContext(k, base, off, data) ==
  [Key |-> << [block |-> Updated(k, base, off, 1), data |-> data],
              [block |-> Updated(k, base, off, 2), data |-> data] >>,
   V |-> [base |-> [block |-> Updated(k, base, off, 3), data |-> data], off |-> 0]]
LEMMA UpdateGives ==
  ASSUME NEW k, NEW base, NEW off \in Int, NEW data
  PROVE  /\ KAT!UpdateBlocks(At(k, base, off)) = [b \in 1 .. 3 |-> Updated(k, base, off, b)]
         /\ KAT!AES256_CTR_DRBG_Update(data, At(k, base, off)) = NewContext(k, base, off, data)
<1> DEFINE c == At(k, base, off)
           t(b) == [block |-> Updated(k, base, off, b), data |-> data]
           temp == [b \in 1 .. 3 |-> [block |-> KAT!UpdateBlocks(c)[b], data |-> data]]
<1>1. KAT!UpdateBlocks(c) = [b \in 1 .. 3 |-> Updated(k, base, off, b)]
  BY DEF KAT!UpdateBlocks, KAT!AES256_ECB, KAT!After, Updated, At
<1>2. \A b \in 1 .. 3 : temp[b] = t(b)
  BY <1>1
<1>3. temp = [b \in 1 .. 3 |-> temp[b]]
  OBVIOUS
<1>4. KAT!AES256_CTR_DRBG_Update(data, c) = [Key |-> SubSeq(temp, 1, 2), V |-> [base |-> temp[3], off |-> 0]]
  BY DEF KAT!AES256_CTR_DRBG_Update
<1>5. SubSeq(temp, 1, 2) = <<temp[1], temp[2]>>
  <2> HIDE DEF temp
  <2> QED BY <1>3, ThreeCut
<1>6. temp[1] = t(1) /\ temp[2] = t(2) /\ temp[3] = t(3)
  BY <1>2
<1> HIDE DEF temp, t
<1>7. KAT!AES256_CTR_DRBG_Update(data, c) = [Key |-> <<t(1), t(2)>>, V |-> [base |-> t(3), off |-> 0]]
  BY <1>4, <1>5, <1>6
<1> QED BY <1>1, <1>7 DEF t, NewContext

(* The number of blocks of a draw: the last one is used, perhaps in part.  *)
LEMMA BlocksOf ==
  ASSUME NEW n \in Nat \ {0}
  PROVE  /\ KAT!Blocks(n) \in Nat \ {0}
         /\ 16 * KAT!Blocks(n) >= n
         /\ 16 * (KAT!Blocks(n) - 1) < n
  BY DEF KAT!Blocks, KAT!Block

(* A draw of n bytes, block by block. *)
LEMMA DrawnBlocks ==
  ASSUME NEW k, NEW base, NEW n \in Nat \ {0}, NEW x, x = KAT!Drawn(At(k, base, 0), n)
  PROVE  /\ x = [b \in 1 .. KAT!Blocks(n) |-> x[b]]
         /\ \A b \in 1 .. KAT!Blocks(n) :
              x[b] = [block |-> Updated(k, base, 0, b),
                      put |-> IF n - (16 * (b - 1)) > 15 THEN 16 ELSE n - (16 * (b - 1))]
<1>1. x = [b \in 1 .. KAT!Blocks(n) |-> x[b]]
  BY DEF KAT!Drawn
<1>2. ASSUME NEW b \in 1 .. KAT!Blocks(n)
      PROVE  x[b] = [block |-> [key |-> k, v |-> [base |-> base, off |-> 0 + b]],
                     put |-> IF n - (16 * (b - 1)) > 15 THEN 16 ELSE n - (16 * (b - 1))]
  BY DEF KAT!Drawn, KAT!AES256_ECB, KAT!After, KAT!Block, At
<1> QED BY <1>1, <1>2 DEF Updated

(* randombytes, spelled out: the blocks it encrypts, in two groups, and    *)
(* what it leaves in DRBG_ctx.                                             *)
OutBlocks(k, base, n) == { Updated(k, base, 0, b) : b \in 1 .. n }
NewBlocks(k, base, n) == { Updated(k, base, n, b) : b \in 1 .. 3 }
LEMMA RandomBytesDoes ==
  ASSUME ContextShape, NEW n \in Nat \ {0}, KAT!randombytes(n)
  PROVE  /\ DRBG_ctx' = NewContext(DRBG_ctx.Key, DRBG_ctx.V.base, KAT!Blocks(n), << >>)
         /\ encrypted' = encrypted \cup OutBlocks(DRBG_ctx.Key, DRBG_ctx.V.base, KAT!Blocks(n))
                                   \cup NewBlocks(DRBG_ctx.Key, DRBG_ctx.V.base, KAT!Blocks(n))
         /\ again' =
              (\/ again
               \/ OutBlocks(DRBG_ctx.Key, DRBG_ctx.V.base, KAT!Blocks(n)) \cap encrypted # {}
               \/ NewBlocks(DRBG_ctx.Key, DRBG_ctx.V.base, KAT!Blocks(n))
                    \cap (encrypted \cup OutBlocks(DRBG_ctx.Key, DRBG_ctx.V.base, KAT!Blocks(n))) # {})
<1> DEFINE k == DRBG_ctx.Key
           base == DRBG_ctx.V.base
           B == KAT!Blocks(n)
           c == At(k, base, 0)
           x == KAT!Drawn(c, n)
           moved == [c EXCEPT !.V = KAT!After(@, B)]
           mc == At(k, base, B)
<1>0. DRBG_ctx = c
  BY DEF ContextShape, At
<1>1. B \in Nat \ {0}
  BY BlocksOf
<1>2. x = [b \in 1 .. B |-> x[b]] /\ \A b \in 1 .. B : x[b].block = Updated(k, base, 0, b)
  <2> HIDE DEF k, base, x
  <2>1. x = KAT!Drawn(At(k, base, 0), n)
    BY DEF x
  <2>2. /\ x = [b \in 1 .. B |-> x[b]]
        /\ \A b \in 1 .. B :
             x[b] = [block |-> Updated(k, base, 0, b),
                     put |-> IF n - (16 * (b - 1)) > 15 THEN 16 ELSE n - (16 * (b - 1))]
    BY <2>1, DrawnBlocks
  <2> HIDE DEF B
  <2> QED BY <2>2
<1>3. moved = mc
  BY <1>1 DEF KAT!After, At
<1>4. KAT!UpdateBlocks(mc) = [b \in 1 .. 3 |-> Updated(k, base, B, b)]
      /\ KAT!AES256_CTR_DRBG_Update(<< >>, mc) = NewContext(k, base, B, << >>)
  <2> HIDE DEF k, base, B
  <2> QED BY <1>1, UpdateGives
<1> HIDE DEF x, B
<1>5. { x[b].block : b \in DOMAIN x } = OutBlocks(k, base, B)
  <2>1. DOMAIN x = 1 .. B
    BY <1>2
  <2> QED BY <1>2, <2>1 DEF OutBlocks
<1>6. { KAT!UpdateBlocks(mc)[b] : b \in 1 .. 3 } = NewBlocks(k, base, B)
  BY <1>4 DEF NewBlocks
<1>7. /\ DRBG_ctx' = KAT!AES256_CTR_DRBG_Update(<< >>, moved)
      /\ encrypted' = encrypted \cup { x[b].block : b \in DOMAIN x }
                                \cup { KAT!UpdateBlocks(moved)[b] : b \in 1 .. 3 }
      /\ again' = (again \/ { x[b].block : b \in DOMAIN x } \cap encrypted # {}
                   \/ { KAT!UpdateBlocks(moved)[b] : b \in 1 .. 3 }
                        \cap (encrypted \cup { x[b].block : b \in DOMAIN x }) # {})
  <2> HIDE DEF k, base
  <2> QED BY <1>0 DEF KAT!randombytes, KAT!NULL, x, B, c
<1> HIDE DEF moved, mc, c
<1>8. /\ DRBG_ctx' = NewContext(k, base, B, << >>)
      /\ encrypted' = encrypted \cup OutBlocks(k, base, B) \cup NewBlocks(k, base, B)
      /\ again' = (again \/ OutBlocks(k, base, B) \cap encrypted # {}
                   \/ NewBlocks(k, base, B) \cap (encrypted \cup OutBlocks(k, base, B)) # {})
  <2> HIDE DEF k, base
  <2> QED BY <1>3, <1>4, <1>5, <1>6, <1>7
<1> QED BY <1>8 DEF B

-----------------------------
(* BlocksFresh.  A block encrypted now has the current key, under which    *)
(* nothing was encrypted before.  The next key is new: had it been used or *)
(* be the current one, the block its first half comes from would be an     *)
(* encryption under the current key that happened before.                  *)
Fresh ==
  /\ ContextShape
  /\ DRBG_ctx.Key # << >>
  /\ Descends(DRBG_ctx.Key, encrypted)
  /\ \A e \in encrypted :
       e.key # << >> /\ e.key # DRBG_ctx.Key /\ Descends(e.key, encrypted)
  /\ ~again

LEMMA RandomBytesFresh ==
  ASSUME Fresh, NEW n \in Nat \ {0}, KAT!randombytes(n)
  PROVE  Fresh'
<1> DEFINE k == DRBG_ctx.Key
           base == DRBG_ctx.V.base
           B == KAT!Blocks(n)
           drawn == OutBlocks(k, base, B)
           upd == NewBlocks(k, base, B)
           new == Updated(k, base, B, 1)
           next == << [block |-> new, data |-> << >>],
                      [block |-> Updated(k, base, B, 2), data |-> << >>] >>
<1>0. ContextShape
  BY DEF Fresh
<1>1. B \in Nat \ {0}
  BY BlocksOf
<1>2. /\ DRBG_ctx' = NewContext(k, base, B, << >>)
      /\ encrypted' = encrypted \cup drawn \cup upd
      /\ again' = (again \/ drawn \cap encrypted # {} \/ upd \cap (encrypted \cup drawn) # {})
  BY <1>0, RandomBytesDoes
<1> HIDE DEF B
<1>3. DRBG_ctx'.Key = next /\ ContextShape'
  BY <1>2 DEF NewContext, ContextShape
<1>4. \A e \in drawn \cup upd : e.key = k
  BY DEF OutBlocks, NewBlocks, Updated
<1>5. drawn \cap upd = {}
  BY <1>1 DEF OutBlocks, NewBlocks, Updated
<1>6. \A e \in encrypted : e.key # k
  BY DEF Fresh
<1>7. new \in upd /\ new.key = k
  BY DEF NewBlocks, Updated
<1>8. next[1].block = new /\ next # << >>
  OBVIOUS
<1> HIDE DEF drawn, upd, new, next
<1>9. ~again'
  BY <1>2, <1>4, <1>5, <1>6 DEF Fresh
<1>10. Descends(k, encrypted) /\ k # << >>
  BY DEF Fresh
<1>11. k # next
  BY <1>6, <1>7, <1>8, <1>10 DEF Descends
<1>12. ASSUME NEW e \in encrypted'
       PROVE  e.key # << >> /\ e.key # next /\ Descends(e.key, encrypted')
  <2>1. CASE e \in drawn \cup upd
    BY <1>2, <1>4, <1>10, <1>11, <2>1 DEF Descends
  <2>2. CASE e \in encrypted
    <3>1. e.key # << >> /\ Descends(e.key, encrypted)
      BY <2>2 DEF Fresh
    <3>2. e.key # next
      BY <1>6, <1>7, <1>8, <1>10, <3>1 DEF Descends
    <3> QED BY <1>2, <3>1, <3>2 DEF Descends
  <2> QED BY <1>2, <2>1, <2>2
<1>13. Descends(next, encrypted')
  BY <1>2, <1>7, <1>8 DEF Descends
<1> QED BY <1>3, <1>8, <1>9, <1>12, <1>13 DEF Fresh

(* The generator after randombytes_init, whatever it was before. *)
LEMMA InitGives ==
  ASSUME NEW entropy, KAT!randombytes_init(entropy)
  PROVE  DRBG_ctx' = NewContext(<< >>, << >>, 0, entropy) /\ encrypted' = {} /\ again' = FALSE
<1>1. KAT!Cleared(DRBG_ctx) = At(<< >>, << >>, 0)
  BY DEF KAT!Cleared, KAT!Zeroed, At
<1>2. DRBG_ctx' = KAT!AES256_CTR_DRBG_Update(entropy, At(<< >>, << >>, 0))
      /\ encrypted' = {} /\ again' = FALSE
  BY <1>1 DEF KAT!randombytes_init
<1> QED BY <1>2, UpdateGives

LEMMA InitFresh ==
  ASSUME NEW entropy, KAT!randombytes_init(entropy)
  PROVE  Fresh'
<1>1. DRBG_ctx' = NewContext(<< >>, << >>, 0, entropy) /\ encrypted' = {} /\ again' = FALSE
  BY InitGives
<1>2. DRBG_ctx'.Key[1].block.key = << >>
  BY <1>1 DEF Updated, NewContext
<1>3. ContextShape' /\ DRBG_ctx'.Key # << >>
  BY <1>1 DEF ContextShape, NewContext
<1> QED BY <1>1, <1>2, <1>3 DEF Fresh, Descends

(* Message lengths are positive, so that every draw has a block. *)
FreshInv ==
  /\ pc = "start" => ~again
  /\ pc # "start" => Fresh
  /\ pc \in {"start", "seed", "msg"} => count \in Nat

LEMMA FreshInvInit == KAT!Init => FreshInv
  BY DEF KAT!Init, FreshInv

LEMMA FreshInvStep == FreshInv /\ [KAT!Next]_(KAT!vars) => FreshInv'
<1> SUFFICES ASSUME FreshInv, [KAT!Next]_(KAT!vars) PROVE FreshInv'
  OBVIOUS
<1> USE DEF FreshInv
<1>1. CASE KAT!SeedFirst
  <2>1. Fresh'
    BY <1>1, InitFresh DEF KAT!SeedFirst
  <2> QED BY <1>1, <2>1 DEF KAT!SeedFirst, KAT!locals
<1>2. CASE KAT!RequestSeed
  <2>1. Fresh'
    BY <1>2, RandomBytesFresh DEF KAT!RequestSeed
  <2> QED BY <1>2, <2>1 DEF KAT!RequestSeed
<1>3. CASE KAT!RequestMsg
  <2>1. mlen' \in Nat \ {0} /\ count' \in Nat
    BY <1>3 DEF KAT!RequestMsg
  <2>2. Fresh'
    BY <1>3, <2>1, RandomBytesFresh DEF KAT!RequestMsg
  <2> QED BY <1>3, <2>1, <2>2 DEF KAT!RequestMsg
<1>4. CASE KAT!ReadSeed
  <2>1. CASE UNCHANGED <<DRBG_ctx, encrypted, again>>
    BY <1>4, <2>1 DEF KAT!ReadSeed, Fresh, ContextShape
  <2>2. CASE \E entropy : KAT!randombytes_init(entropy)
    BY <1>4, <2>2, InitFresh DEF KAT!ReadSeed
  <2>3. (\E entropy : KAT!randombytes_init(entropy)) \/ UNCHANGED <<DRBG_ctx, encrypted, again>>
    BY <1>4 DEF KAT!ReadSeed, KAT!drbg
  <2> QED BY <2>1, <2>2, <2>3
<1>5. CASE KAT!crypto_sign_keypair
  <2>1. Fresh'
    BY <1>5, RandomBytesFresh DEF KAT!crypto_sign_keypair, KAT!LEN_SKSEED
  <2> QED BY <1>5, <2>1 DEF KAT!crypto_sign_keypair
<1>6. CASE KAT!crypto_sign
  <2>1. Fresh'
    BY <1>6, RandomBytesFresh DEF KAT!crypto_sign, KAT!SaltByte
  <2> QED BY <1>6, <2>1 DEF KAT!crypto_sign
<1>7. CASE KAT!Reopen
  BY <1>7 DEF KAT!Reopen, KAT!drbg, Fresh, ContextShape
<1>8. CASE KAT!FindCount
  BY <1>8 DEF KAT!FindCount, KAT!drbg, Fresh, ContextShape
<1>9. CASE KAT!ReadMlen \/ KAT!ReadMsg \/ KAT!crypto_sign_open
  BY <1>9 DEF KAT!ReadMlen, KAT!ReadMsg, KAT!crypto_sign_open, KAT!drbg, Fresh, ContextShape
<1>10. CASE UNCHANGED KAT!vars
  BY <1>10 DEF KAT!vars, KAT!drbg, KAT!locals, Fresh, ContextShape
<1> QED BY <1>1, <1>2, <1>3, <1>4, <1>5, <1>6, <1>7, <1>8, <1>9, <1>10 DEF KAT!Next

(* KAT!BlocksFresh: between two seedings the generator of the known-answer *)
(* program (randombytes of utils/nistkat/rng.c) never encrypts a block     *)
(* twice, so none of its output is repeated or becomes a key, for any      *)
(* number of vectors.                                                      *)
THEOREM BlocksAlwaysFresh == KAT!Spec => []BlocksFresh
<1>1. FreshInv => BlocksFresh
  BY DEF FreshInv, Fresh, BlocksFresh, KAT!BlocksFresh
<1> QED BY <1>1, FreshInvInit, FreshInvStep, PTL DEF KAT!Spec

-----------------------------------------------------------------------------
(* AnswersAlone.  A sequence of lines, of whatever values they hold. *)
Lines(s) == s \in Seq({ s[i] : i \in DOMAIN s })

LEMMA LinesOf ==
  ASSUME NEW T, NEW s \in Seq(T)
  PROVE  Lines(s) /\ Len(s) \in Nat /\ DOMAIN s = 1 .. Len(s)
<1>1. Len(s) \in Nat /\ DOMAIN s = 1 .. Len(s) /\ s \in [1 .. Len(s) -> T]
  BY LenProperties
<1>2. s \in [1 .. Len(s) -> { s[i] : i \in DOMAIN s }]
  BY <1>1
<1> QED BY <1>1, <1>2 DEF Lines

LEMMA OneMore ==
  ASSUME NEW s, Lines(s), NEW u
  PROVE  /\ Lines(Append(s, u)) /\ Len(Append(s, u)) = Len(s) + 1 /\ Len(s) \in Nat
         /\ Append(s, u)[Len(s) + 1] = u
         /\ \A i \in 1 .. Len(s) : Append(s, u)[i] = s[i]
<1> DEFINE T == { s[i] : i \in DOMAIN s } \cup {u}
<1>1. s \in Seq({ s[i] : i \in DOMAIN s })
  BY DEF Lines
<1>2. s \in Seq(T) /\ u \in T
  <2>1. Len(s) \in Nat /\ s \in [1 .. Len(s) -> { s[i] : i \in DOMAIN s }]
    BY <1>1, LenProperties
  <2>2. s \in [1 .. Len(s) -> T]
    BY <2>1
  <2> QED BY <2>1, <2>2
<1> HIDE DEF T
<1>3. Append(s, u) \in Seq(T)
  BY <1>2, AppendProperties
<1>4. Len(s) \in Nat /\ Lines(Append(s, u))
  BY <1>2, <1>3, LenProperties, LinesOf
<1> QED BY <1>2, <1>4, AppendProperties

LEMMA TwoMore ==
  ASSUME NEW s, Lines(s), NEW u, NEW v
  PROVE  /\ Lines(s \o <<u, v>>) /\ Len(s \o <<u, v>>) = Len(s) + 2 /\ Len(s) \in Nat
         /\ (s \o <<u, v>>)[Len(s) + 1] = u /\ (s \o <<u, v>>)[Len(s) + 2] = v
         /\ \A i \in 1 .. Len(s) : (s \o <<u, v>>)[i] = s[i]
<1> DEFINE T == { s[i] : i \in DOMAIN s } \cup {u, v}
           two == <<u, v>>
<1>1. s \in Seq({ s[i] : i \in DOMAIN s })
  BY DEF Lines
<1>2. s \in Seq(T) /\ u \in T /\ v \in T
  <2>1. Len(s) \in Nat /\ s \in [1 .. Len(s) -> { s[i] : i \in DOMAIN s }]
    BY <1>1, LenProperties
  <2>2. s \in [1 .. Len(s) -> T]
    BY <2>1
  <2> QED BY <2>1, <2>2
<1> HIDE DEF T
<1>3. two \in Seq(T) /\ Len(two) = 2 /\ two[1] = u /\ two[2] = v
  BY <1>2
<1> HIDE DEF two
<1>4. Len(s) \in Nat
  BY <1>2, LenProperties
<1>5. /\ s \o two \in Seq(T) /\ Len(s \o two) = Len(s) + 2
      /\ \A i \in 1 .. Len(s) + 2 : (s \o two)[i] = IF i <= Len(s) THEN s[i] ELSE two[i - Len(s)]
  <2>1. s \in Seq(T) /\ two \in Seq(T)
    BY <1>2, <1>3
  <2>2. /\ s \o two \in Seq(T) /\ Len(s \o two) = Len(s) + Len(two)
        /\ \A i \in 1 .. Len(s) + Len(two) :
             (s \o two)[i] = IF i <= Len(s) THEN s[i] ELSE two[i - Len(s)]
    BY <2>1, ConcatProperties
  <2> QED BY <1>3, <2>2
<1>6. Lines(s \o two)
  BY <1>5, LinesOf
<1>7. (s \o two)[Len(s) + 1] = two[1] /\ (s \o two)[Len(s) + 2] = two[2]
      /\ \A i \in 1 .. Len(s) : (s \o two)[i] = s[i]
  BY <1>4, <1>5
<1> QED BY <1>3, <1>4, <1>5, <1>6, <1>7 DEF two

LEMMA CutShort ==
  ASSUME NEW s, Lines(s), NEW n \in 0 .. Len(s)
  PROVE  /\ Lines(SubSeq(s, 1, n)) /\ Len(SubSeq(s, 1, n)) = n
         /\ \A i \in 1 .. n : SubSeq(s, 1, n)[i] = s[i]
<1> DEFINE T == { s[i] : i \in DOMAIN s }
<1>1. s \in Seq(T)
  BY DEF Lines
<1> HIDE DEF T
<1>2. Len(s) \in Nat /\ s \in [1 .. Len(s) -> T]
  BY <1>1, LenProperties
<1>3. \A i \in 1 .. n : s[i] \in T
  BY <1>2
<1>4. /\ SubSeq(s, 1, n) \in Seq(T) /\ Len(SubSeq(s, 1, n)) = IF 1 <= n THEN n - 1 + 1 ELSE 0
      /\ \A i \in 1 .. n - 1 + 1 : SubSeq(s, 1, n)[i] = s[1 + i - 1]
  BY <1>2, <1>3, SubSeqProperties
<1>5. Len(SubSeq(s, 1, n)) = n /\ \A i \in 1 .. n : SubSeq(s, 1, n)[i] = s[i]
  BY <1>2, <1>4
<1> QED BY <1>4, <1>5, LinesOf

(* A draw of n bytes has n bytes, so that reading it back gives it again.  *)
(* The bytes are a recursive sum: b blocks that are not the last have 16b. *)
IsCount(f, x) ==
  f = [b \in 0 .. Len(x) |-> IF b = 0 THEN 0 ELSE f[b - 1] + x[b].put]

LEMMA DrawnLen ==
  ASSUME NEW k, NEW base, NEW n \in Nat \ {0}
  PROVE  Len(KAT!Drawn(At(k, base, 0), n)) = KAT!Blocks(n)
<1> DEFINE x == KAT!Drawn(At(k, base, 0), n)
<1>1. x = [b \in 1 .. KAT!Blocks(n) |-> x[b]]
  BY DEF KAT!Drawn
<1>2. KAT!Blocks(n) \in Nat
  BY BlocksOf
<1> DEFINE B == KAT!Blocks(n)
           T == { x[b] : b \in 1 .. B }
<1> HIDE DEF x, B
<1>3. x \in [1 .. B -> T]
  BY <1>1 DEF B
<1> HIDE DEF T
<1>4. x \in Seq(T) /\ DOMAIN x = 1 .. B
  BY <1>2, <1>3 DEF B
<1>5. Len(x) \in Nat /\ DOMAIN x = 1 .. Len(x)
  BY <1>4, LenProperties
<1>6. Len(x) = B
  BY <1>2, <1>4, <1>5 DEF B
<1> QED BY <1>6 DEF x, B

LEMMA BytesDrawn ==
  ASSUME NEW k, NEW base, NEW n \in Nat \ {0}
  PROVE  KAT!ReadHex(KAT!Drawn(At(k, base, 0), n), n) = KAT!Drawn(At(k, base, 0), n)
<1> DEFINE x == KAT!Drawn(At(k, base, 0), n)
           B == KAT!Blocks(n)
           f == [b \in 0 .. B |-> IF b < B THEN 16 * b ELSE n]
           Rec(g) == [b \in 0 .. Len(x) |-> IF b = 0 THEN 0 ELSE g[b - 1] + x[b].put]
           sum == CHOOSE g : g = Rec(g)
<1>1. B \in Nat \ {0} /\ 16 * B >= n /\ 16 * (B - 1) < n /\ Len(x) = B
  BY BlocksOf, DrawnLen
<1>2. \A b \in 1 .. B : x[b].put = IF n - (16 * (b - 1)) > 15 THEN 16 ELSE n - (16 * (b - 1))
  <2> HIDE DEF x
  <2>1. x = KAT!Drawn(At(k, base, 0), n)
    BY DEF x
  <2>2. /\ x = [b \in 1 .. B |-> x[b]]
        /\ \A b \in 1 .. B :
             x[b] = [block |-> Updated(k, base, 0, b),
                     put |-> IF n - (16 * (b - 1)) > 15 THEN 16 ELSE n - (16 * (b - 1))]
    BY <2>1, DrawnBlocks
  <2> HIDE DEF B
  <2> QED BY <2>2
<1> HIDE DEF x, B
<1>3. \A b \in 1 .. B : f[b] = f[b - 1] + x[b].put
  <2>1. SUFFICES ASSUME NEW b \in 1 .. B PROVE f[b] = f[b - 1] + x[b].put
    OBVIOUS
  <2>2. b \in 0 .. B /\ b - 1 \in 0 .. B /\ b - 1 < B
    BY <1>1
  <2>3. f[b - 1] = 16 * (b - 1) /\ f[b] = IF b < B THEN 16 * b ELSE n
    BY <2>2
  <2> HIDE DEF f
  <2> QED BY <1>1, <1>2, <2>3
<1>4. f = Rec(f)
  <2>1. f[0] = 0
    BY <1>1
  <2>2. f = [b \in 0 .. B |-> f[b]]
    OBVIOUS
  <2>3. ASSUME NEW b \in 0 .. B
        PROVE  f[b] = IF b = 0 THEN 0 ELSE f[b - 1] + x[b].put
    <3>1. CASE b = 0
      BY <2>1, <3>1
    <3>2. CASE b # 0
      <4>1. b \in 1 .. B
        BY <1>1, <3>2
      <4> HIDE DEF f
      <4> QED BY <1>3, <3>2, <4>1
    <3> QED BY <3>1, <3>2
  <2> HIDE DEF f
  <2> QED BY <1>1, <2>2, <2>3
<1> HIDE DEF f
<1>5. sum = Rec(sum)
  BY <1>4
<1>6. KAT!Bytes(x) = sum[Len(x)]
  BY DEF KAT!Bytes
<1> HIDE DEF sum
<1>7. \A b \in 0 .. B : sum[b] = f[b]
  <2> DEFINE S == { b \in 0 .. B : sum[b] = f[b] }
  <2>1. 0 \in S
    BY <1>1, <1>4, <1>5
  <2>2. ASSUME NEW b \in 0 .. B - 1, b \in S
        PROVE  b + 1 \in S
    <3>1. b + 1 \in 1 .. B /\ (b + 1) - 1 = b
      BY <1>1
    <3>2. sum[b + 1] = sum[b] + x[b + 1].put
      BY <1>1, <1>5, <3>1
    <3>3. f[b + 1] = f[b] + x[b + 1].put
      BY <1>1, <1>4, <3>1
    <3> QED BY <2>2, <3>1, <3>2, <3>3
  <2>3. \A b \in 0 .. B : b \in S
    <3> HIDE DEF S
    <3> QED BY <1>1, <2>1, <2>2, InductionUpTo
  <2> QED BY <2>3
<1>8. f[B] = n
  BY <1>1 DEF f
<1>9. KAT!Bytes(x) = n
  BY <1>1, <1>6, <1>7, <1>8
<1> QED BY <1>9 DEF KAT!ReadHex, x

-----------------------------------------------------------------------------
(* The generator after a vector's seed, and after the key pair's draw. *)
Seeded(seedline) == NewContext(<< >>, << >>, 0, seedline)
AfterKeypair(seedline) ==
  NewContext(Seeded(seedline).Key, Seeded(seedline).V.base, 2, << >>)

(* The lines of vector n in the request file, as far as it goes. *)
Requested ==
  \A n \in 0 .. Vectors - 1 :
    /\ 4 * n + 1 <= Len(req) => req[4 * n + 1] = KAT!Line("count", n)
    /\ 4 * n + 2 <= Len(req) =>
         /\ req[4 * n + 2].mark = "seed"
         /\ KAT!ReadHex(req[4 * n + 2].val, 48) = req[4 * n + 2].val
    /\ 4 * n + 3 <= Len(req) => req[4 * n + 3] = KAT!Line("mlen", 33 * (n + 1))
    /\ 4 * n + 4 <= Len(req) =>
         /\ req[4 * n + 4].mark = "msg"
         /\ KAT!ReadHex(req[4 * n + 4].val, 33 * (n + 1)) = req[4 * n + 4].val

(* The lines of vector n in the response file, as far as it goes. *)
Answered ==
  \A n \in 0 .. Vectors - 1 : \A j \in 1 .. 6 :
    6 * n + j <= Len(rsp) => rsp[6 * n + j] = KAT!Alone(n)[j]

(* Both passes: how far the files are at each point of the program. *)
FirstPass == {"start", "seed", "msg"}
Reached(r, a) == count \in 0 .. Vectors - 1 /\ pos = 4 * count + r /\ Len(rsp) = 6 * count + a
Progress ==
  /\ pc \in FirstPass => rsp = << >> /\ pos = 0 /\ count \in 0 .. Vectors
  /\ pc = "start" => req = << >> /\ count = 0
  /\ pc = "seed" => Len(req) = 4 * count
  /\ pc = "msg" => Len(req) = 4 * count + 2 /\ count < Vectors
  /\ pc \notin FirstPass => Len(req) <= 4 * Vectors /\ pos <= Len(req)
  /\ pc = "find" => \E k \in 0 .. Vectors : pos = 4 * k /\ Len(rsp) = 6 * k
  /\ pc = "reseed" => Reached(1, 1)
  /\ pc = "read" => Reached(2, 2)
  /\ pc = "calloc" => Reached(3, 3)
  /\ pc = "keypair" => Reached(4, 4)
  /\ pc = "sign" => Reached(4, 5)
  /\ pc = "open" => Reached(4, 6)
  /\ pc = "done" => 4 * Len(rsp) = 6 * Len(req)

(* What the vector being answered has from its lines. *)
Vector ==
  /\ pc \in {"read", "calloc", "keypair"} => DRBG_ctx = Seeded(req[4 * count + 2].val)
  /\ pc = "calloc" => mlen = 33 * (count + 1)
  /\ pc \in {"keypair", "sign", "open"} => m = req[4 * count + 4].val
  /\ pc = "sign" => /\ DRBG_ctx = AfterKeypair(req[4 * count + 2].val)
                    /\ sk = KAT!Drawn(Seeded(req[4 * count + 2].val), 32)

AnswerInv == Lines(req) /\ Lines(rsp) /\ Requested /\ Answered /\ Progress /\ Vector

LEMMA FindNext ==
  ASSUME Lines(req), pos \in Nat, pos <= Len(req), NEW mark
  PROVE  /\ pos = Len(req) => KAT!FindMarker(pos, mark) = 0
         /\ pos < Len(req) /\ req[pos + 1].mark = mark => KAT!FindMarker(pos, mark) = pos + 1
<1>1. Len(req) \in Nat
  BY OneMore
<1>2. ASSUME pos = Len(req)
      PROVE  KAT!FindMarker(pos, mark) = 0
  <2>1. KAT!Marked(pos, mark) = {}
    BY <1>1, <1>2 DEF KAT!Marked
  <2> QED BY <2>1 DEF KAT!FindMarker
<1>3. ASSUME pos < Len(req), req[pos + 1].mark = mark
      PROVE  KAT!FindMarker(pos, mark) = pos + 1
  <2> DEFINE M == KAT!Marked(pos, mark)
  <2>1. pos + 1 \in M /\ \A k \in M : k \in Nat /\ pos + 1 <= k
    BY <1>1, <1>3 DEF KAT!Marked
  <2>2. KAT!FindMarker(pos, mark) = CHOOSE n \in M : \A k \in M : n <= k
    BY <2>1 DEF KAT!FindMarker
  <2> HIDE DEF M
  <2>3. \A n \in M : (\A k \in M : n <= k) => n = pos + 1
    BY <1>1, <2>1
  <2> QED BY <2>1, <2>2, <2>3
<1> QED BY <1>2, <1>3

(* A draw of one or two whole blocks. *)
LEMMA DrawnOne ==
  ASSUME NEW k, NEW base
  PROVE  KAT!Drawn(At(k, base, 0), 16) = << [block |-> Updated(k, base, 0, 1), put |-> 16] >>
<1> DEFINE x == KAT!Drawn(At(k, base, 0), 16)
<1>1. KAT!Blocks(16) = 1
  BY DEF KAT!Blocks, KAT!Block
<1>2. x = [b \in 1 .. 1 |-> x[b]]
  BY <1>1 DEF KAT!Drawn
<1>3. x[1] = [block |-> [key |-> k, v |-> [base |-> base, off |-> 0 + 1]], put |-> 16]
  BY <1>1 DEF KAT!Drawn, KAT!AES256_ECB, KAT!After, KAT!Block, At
<1> HIDE DEF x
<1>4. x = <<x[1]>>
  BY <1>2
<1> QED BY <1>3, <1>4 DEF x, Updated

LEMMA DrawnTwo ==
  ASSUME NEW k, NEW base
  PROVE  KAT!Drawn(At(k, base, 0), 32) =
           << [block |-> Updated(k, base, 0, 1), put |-> 16],
              [block |-> Updated(k, base, 0, 2), put |-> 16] >>
<1> DEFINE x == KAT!Drawn(At(k, base, 0), 32)
<1>1. KAT!Blocks(32) = 2
  BY DEF KAT!Blocks, KAT!Block
<1>2. x = [b \in 1 .. 2 |-> x[b]]
  BY <1>1 DEF KAT!Drawn
<1>3. /\ x[1] = [block |-> [key |-> k, v |-> [base |-> base, off |-> 0 + 1]], put |-> 16]
      /\ x[2] = [block |-> [key |-> k, v |-> [base |-> base, off |-> 0 + 2]], put |-> 16]
  BY <1>1 DEF KAT!Drawn, KAT!AES256_ECB, KAT!After, KAT!Block, At
<1> HIDE DEF x
<1>4. x = <<x[1], x[2]>>
  BY <1>2
<1> QED BY <1>3, <1>4 DEF x, Updated

(* The context between calls, as an argument of the lemmas on draws. *)
LEMMA ContextIsAt ==
  ASSUME NEW k, NEW base, NEW off, NEW data
  PROVE  NewContext(k, base, off, data)
           = At(NewContext(k, base, off, data).Key, NewContext(k, base, off, data).V.base, 0)
  BY DEF NewContext, At

(* The generator of Alone, and what it draws. *)
NewAlone(g, from, data) ==
  LET t == [b \in 1 .. 3 |->
              [block |-> [key |-> g.Key, v |-> [base |-> g.V.base, off |-> from + b]], data |-> data]]
  IN [Key |-> <<t[1], t[2]>>, V |-> [base |-> t[3], off |-> 0]]
DrawAlone(g, k) == [block |-> [key |-> g.Key, v |-> [base |-> g.V.base, off |-> k]], put |-> 16]

LEMMA NewAloneIs ==
  ASSUME NEW g, NEW from, NEW data
  PROVE  NewAlone(g, from, data) = NewContext(g.Key, g.V.base, from, data)
<1> DEFINE t == [b \in 1 .. 3 |->
                   [block |-> [key |-> g.Key, v |-> [base |-> g.V.base, off |-> from + b]], data |-> data]]
<1>1. \A b \in 1 .. 3 : t[b] = [block |-> Updated(g.Key, g.V.base, from, b), data |-> data]
  BY DEF Updated
<1>2. NewAlone(g, from, data) = [Key |-> <<t[1], t[2]>>, V |-> [base |-> t[3], off |-> 0]]
  BY DEF NewAlone
<1> HIDE DEF t
<1> QED BY <1>1, <1>2 DEF NewContext

(* What Alone expects is what a freshly seeded generator draws. *)
SmOf(n) ==
  [m |-> req[(4 * n) + 4].val, sk |-> KAT!Drawn(Seeded(req[(4 * n) + 2].val), 32),
   salt |-> KAT!Drawn(AfterKeypair(req[(4 * n) + 2].val), 16)]
LEMMA AloneIs ==
  ASSUME NEW n
  PROVE  KAT!Alone(n) =
           << KAT!Line("count", n), KAT!Line("seed", req[(4 * n) + 2].val),
              KAT!Line("mlen", 33 * (n + 1)), KAT!Line("msg", req[(4 * n) + 4].val),
              KAT!Line("sk", KAT!Drawn(Seeded(req[(4 * n) + 2].val), 32)),
              KAT!Line("sm", SmOf(n)) >>
<1> DEFINE s == req[(4 * n) + 2].val
           msg == req[(4 * n) + 4].val
           first == Seeded(s)
           second == AfterKeypair(s)
           g1 == NewAlone(KAT!Zeroed, 0, s)
           g2 == NewAlone(g1, 2, << >>)
           keys == << DrawAlone(g1, 1), DrawAlone(g1, 2) >>
           salt == << DrawAlone(g2, 1) >>
<1>1. KAT!Drawn(first, 32) =
        << [block |-> Updated(first.Key, first.V.base, 0, 1), put |-> 16],
           [block |-> Updated(first.Key, first.V.base, 0, 2), put |-> 16] >>
  <2>1. first = At(first.Key, first.V.base, 0)
    BY ContextIsAt DEF Seeded
  <2> HIDE DEF first
  <2> QED BY <2>1, DrawnTwo
<1>2. KAT!Drawn(second, 16) =
        << [block |-> Updated(second.Key, second.V.base, 0, 1), put |-> 16] >>
  <2>1. second = At(second.Key, second.V.base, 0)
    BY ContextIsAt DEF AfterKeypair
  <2> HIDE DEF second
  <2> QED BY <2>1, DrawnOne
<1>3. g1 = first
  <2>1. KAT!Zeroed.Key = << >> /\ KAT!Zeroed.V.base = << >>
    BY DEF KAT!Zeroed
  <2> QED BY <2>1, NewAloneIs DEF Seeded
<1>4. g2 = second
  <2> HIDE DEF g1
  <2> QED BY <1>3, NewAloneIs DEF AfterKeypair
<1>5. KAT!Alone(n) =
        << KAT!Line("count", n), KAT!Line("seed", s), KAT!Line("mlen", 33 * (n + 1)),
           KAT!Line("msg", msg), KAT!Line("sk", keys),
           KAT!Line("sm", [m |-> msg, sk |-> keys, salt |-> salt]) >>
  BY DEF KAT!Alone, NewAlone, DrawAlone
<1> HIDE DEF g1, g2, first, second
<1>6. keys = KAT!Drawn(first, 32)
  BY <1>1, <1>3 DEF DrawAlone, Updated
<1>7. salt = KAT!Drawn(second, 16)
  BY <1>2, <1>4 DEF DrawAlone, Updated
<1> HIDE DEF keys, salt
<1> QED BY <1>5, <1>6, <1>7 DEF SmOf, first, second

LEMMA FilesSame ==
  ASSUME Lines(req), Lines(rsp), Requested, Answered, UNCHANGED <<req, rsp>>
  PROVE  Lines(req)' /\ Lines(rsp)' /\ Requested' /\ Answered'
<1>1. \A n : KAT!Alone(n)' = KAT!Alone(n)
  BY DEF KAT!Alone
<1> HIDE DEF KAT!Alone
<1> QED BY <1>1 DEF Requested, Answered, Lines

(* One more line of the answer to vector c. *)
LEMMA AnsweredMore ==
  ASSUME Lines(rsp), Answered, NEW c \in 0 .. Vectors - 1, NEW j \in 1 .. 6,
         Len(rsp) = 6 * c + (j - 1), req' = req, rsp' = Append(rsp, KAT!Alone(c)[j])
  PROVE  Lines(rsp)' /\ Answered' /\ Len(rsp') = 6 * c + j
<1> DEFINE line == KAT!Alone(c)[j]
<1>1. \A n : KAT!Alone(n)' = KAT!Alone(n)
  BY DEF KAT!Alone
<1>2. /\ Lines(rsp') /\ Len(rsp') = Len(rsp) + 1 /\ Len(rsp) \in Nat
      /\ rsp'[Len(rsp) + 1] = line
      /\ \A i \in 1 .. Len(rsp) : rsp'[i] = rsp[i]
  <2> HIDE DEF line
  <2>1. rsp' = Append(rsp, line)
    BY DEF line
  <2> QED BY <2>1, OneMore
<1>3. Len(rsp') = 6 * c + j /\ Lines(rsp)'
  <2>1. Len(rsp') = 6 * c + j
    BY <1>2, VectorsAssumption
  <2>2. Lines(rsp)'
    BY <1>2 DEF Lines
  <2> QED BY <2>1, <2>2
<1>4. ASSUME NEW n \in 0 .. Vectors - 1, NEW i \in 1 .. 6, 6 * n + i <= Len(rsp')
      PROVE  rsp'[6 * n + i] = KAT!Alone(n)[i]
  <2>1. CASE 6 * n + i <= Len(rsp)
    <3>1. 6 * n + i \in 1 .. Len(rsp)
      BY <1>2, <2>1, VectorsAssumption
    <3> QED BY <1>2, <2>1, <3>1 DEF Answered
  <2>2. CASE ~(6 * n + i <= Len(rsp))
    <3>1. n = c /\ i = j /\ 6 * n + i = Len(rsp) + 1
      BY <1>2, <1>4, <2>2, VectorsAssumption
    <3> QED BY <1>2, <3>1
  <2> QED BY <2>1, <2>2
<1>5. Answered'
  <2> HIDE DEF KAT!Alone
  <2>1. \A n \in 0 .. Vectors - 1 : \A i \in 1 .. 6 :
          6 * n + i <= Len(rsp') => rsp'[6 * n + i] = KAT!Alone(n)'[i]
    BY <1>1, <1>4
  <2> QED BY <2>1 DEF Answered
<1> QED BY <1>3, <1>5

AllInv == FreshInv /\ AnswerInv

LEMMA AnswerInvInit == KAT!Init => AnswerInv
<1> SUFFICES ASSUME KAT!Init PROVE AnswerInv
  OBVIOUS
<1>1. /\ pc = "start" /\ req = << >> /\ rsp = << >> /\ pos = 0 /\ count = 0
  BY DEF KAT!Init
<1>2. Len(req) = 0 /\ Len(rsp) = 0 /\ Lines(req) /\ Lines(rsp)
  BY <1>1 DEF Lines
<1>3. Requested /\ Answered
  BY <1>2, VectorsAssumption DEF Requested, Answered
<1>4. Progress
  BY <1>1, VectorsAssumption DEF Progress, FirstPass
<1> QED BY <1>1, <1>2, <1>3, <1>4 DEF AnswerInv, Vector

LEMMA RequestSeedStep == AllInv /\ KAT!RequestSeed => AnswerInv'
<1> SUFFICES ASSUME AllInv, KAT!RequestSeed PROVE AnswerInv'
  OBVIOUS
<1> DEFINE u == KAT!Line("count", count)
           v == KAT!Line("seed", seed')
<1>1. /\ pc = "seed" /\ pc' = "msg" /\ count < Vectors /\ count \in 0 .. Vectors
      /\ rsp = << >> /\ rsp' = rsp /\ pos' = pos /\ pos = 0 /\ count' = count
      /\ Len(req) = 4 * count
  BY DEF AllInv, AnswerInv, Progress, FirstPass, KAT!RequestSeed
<1>2. Lines(req) /\ Requested /\ Lines(rsp) /\ Answered
  BY DEF AllInv, AnswerInv
<1>3. req' = req \o <<u, v>> /\ seed' = KAT!Drawn(DRBG_ctx, 48)
  BY DEF KAT!RequestSeed
<1>4. KAT!ReadHex(seed', 48) = seed'
  <2>1. DRBG_ctx = At(DRBG_ctx.Key, DRBG_ctx.V.base, 0)
    BY <1>1 DEF AllInv, FreshInv, Fresh, ContextShape, At
  <2> QED BY <1>3, <2>1, BytesDrawn
<1>5. u.mark = "count" /\ v.mark = "seed" /\ v.val = seed'
  BY DEF KAT!Line
<1> HIDE DEF v
<1>6. /\ Lines(req') /\ Len(req') = Len(req) + 2 /\ Len(req) \in Nat
      /\ req'[Len(req) + 1] = u /\ req'[Len(req) + 2] = v
      /\ \A i \in 1 .. Len(req) : req'[i] = req[i]
  <2> HIDE DEF u
  <2>1. /\ Lines(req \o <<u, v>>) /\ Len(req \o <<u, v>>) = Len(req) + 2 /\ Len(req) \in Nat
        /\ (req \o <<u, v>>)[Len(req) + 1] = u /\ (req \o <<u, v>>)[Len(req) + 2] = v
        /\ \A i \in 1 .. Len(req) : (req \o <<u, v>>)[i] = req[i]
    BY <1>2, TwoMore
  <2> QED BY <1>3, <2>1
<1>7. Requested'
  <2>1. ASSUME NEW n \in 0 .. Vectors - 1
        PROVE  /\ 4 * n + 1 <= Len(req') => req'[4 * n + 1] = KAT!Line("count", n)
               /\ 4 * n + 2 <= Len(req') =>
                    /\ req'[4 * n + 2].mark = "seed"
                    /\ KAT!ReadHex(req'[4 * n + 2].val, 48) = req'[4 * n + 2].val
               /\ 4 * n + 3 <= Len(req') => req'[4 * n + 3] = KAT!Line("mlen", 33 * (n + 1))
               /\ 4 * n + 4 <= Len(req') =>
                    /\ req'[4 * n + 4].mark = "msg"
                    /\ KAT!ReadHex(req'[4 * n + 4].val, 33 * (n + 1)) = req'[4 * n + 4].val
    <3>1. n < count \/ n = count \/ n > count
      BY <1>1, VectorsAssumption
    <3>2. CASE n < count
      <4>1. \A r \in 1 .. 4 : 4 * n + r \in 1 .. Len(req)
        BY <1>1, <1>6, <3>2, VectorsAssumption
      <4>2. \A r \in 1 .. 4 : req'[4 * n + r] = req[4 * n + r] /\ 4 * n + r <= Len(req)
        BY <1>6, <4>1
      <4> QED BY <1>2, <4>2 DEF Requested
    <3>3. CASE n = count
      <4>1. 4 * n + 1 = Len(req) + 1 /\ 4 * n + 2 = Len(req) + 2
            /\ ~(4 * n + 3 <= Len(req')) /\ ~(4 * n + 4 <= Len(req'))
        BY <1>1, <1>6, <3>3, VectorsAssumption
      <4> QED BY <1>4, <1>5, <1>6, <3>3, <4>1
    <3>4. CASE n > count
      <4>1. \A r \in 1 .. 4 : ~(4 * n + r <= Len(req'))
        BY <1>1, <1>6, <3>4, VectorsAssumption
      <4> QED BY <4>1
    <3> QED BY <3>1, <3>2, <3>3, <3>4
  <2> QED BY <2>1 DEF Requested
<1>8. Lines(rsp') /\ Len(rsp') = 0 /\ Answered'
  <2>1. Lines(rsp') /\ Len(rsp') = 0
    BY <1>1, <1>2
  <2> QED BY <2>1, VectorsAssumption DEF Answered
<1>9. Progress'
  BY <1>1, <1>6, VectorsAssumption DEF Progress, FirstPass
<1>10. Vector'
  BY <1>1 DEF Vector
<1> QED BY <1>6, <1>7, <1>8, <1>9, <1>10 DEF AnswerInv, Lines

LEMMA RequestMsgStep == AllInv /\ KAT!RequestMsg => AnswerInv'
<1> SUFFICES ASSUME AllInv, KAT!RequestMsg PROVE AnswerInv'
  OBVIOUS
<1> DEFINE u == KAT!Line("mlen", mlen')
           v == KAT!Line("msg", m')
<1>1. /\ pc = "msg" /\ pc' = "seed" /\ count < Vectors /\ count \in 0 .. Vectors
      /\ rsp = << >> /\ rsp' = rsp /\ pos' = pos /\ pos = 0 /\ count' = count + 1
      /\ Len(req) = 4 * count + 2 /\ mlen' = 33 * (count + 1)
  BY DEF AllInv, AnswerInv, Progress, FirstPass, KAT!RequestMsg
<1>2. Lines(req) /\ Requested /\ Lines(rsp) /\ Answered
  BY DEF AllInv, AnswerInv
<1>3. req' = req \o <<u, v>> /\ m' = KAT!Drawn(DRBG_ctx, mlen')
  BY DEF KAT!RequestMsg
<1>4. KAT!ReadHex(m', mlen') = m'
  <2>1. DRBG_ctx = At(DRBG_ctx.Key, DRBG_ctx.V.base, 0)
    BY <1>1 DEF AllInv, FreshInv, Fresh, ContextShape, At
  <2>2. mlen' \in Nat \ {0}
    BY <1>1, VectorsAssumption
  <2> QED BY <1>3, <2>1, <2>2, BytesDrawn
<1>5. u = KAT!Line("mlen", 33 * (count + 1)) /\ v.mark = "msg" /\ v.val = m'
  BY <1>1 DEF KAT!Line
<1> HIDE DEF u, v
<1>6. /\ Lines(req') /\ Len(req') = Len(req) + 2 /\ Len(req) \in Nat
      /\ req'[Len(req) + 1] = u /\ req'[Len(req) + 2] = v
      /\ \A i \in 1 .. Len(req) : req'[i] = req[i]
  <2>1. /\ Lines(req \o <<u, v>>) /\ Len(req \o <<u, v>>) = Len(req) + 2 /\ Len(req) \in Nat
        /\ (req \o <<u, v>>)[Len(req) + 1] = u /\ (req \o <<u, v>>)[Len(req) + 2] = v
        /\ \A i \in 1 .. Len(req) : (req \o <<u, v>>)[i] = req[i]
    BY <1>2, TwoMore
  <2> QED BY <1>3, <2>1
<1>7. Requested'
  <2>1. ASSUME NEW n \in 0 .. Vectors - 1
        PROVE  /\ 4 * n + 1 <= Len(req') => req'[4 * n + 1] = KAT!Line("count", n)
               /\ 4 * n + 2 <= Len(req') =>
                    /\ req'[4 * n + 2].mark = "seed"
                    /\ KAT!ReadHex(req'[4 * n + 2].val, 48) = req'[4 * n + 2].val
               /\ 4 * n + 3 <= Len(req') => req'[4 * n + 3] = KAT!Line("mlen", 33 * (n + 1))
               /\ 4 * n + 4 <= Len(req') =>
                    /\ req'[4 * n + 4].mark = "msg"
                    /\ KAT!ReadHex(req'[4 * n + 4].val, 33 * (n + 1)) = req'[4 * n + 4].val
    <3>1. n < count \/ n = count \/ n > count
      BY <1>1, VectorsAssumption
    <3>2. CASE n < count
      <4>1. \A r \in 1 .. 4 : 4 * n + r \in 1 .. Len(req)
        BY <1>1, <1>6, <3>2, VectorsAssumption
      <4>2. \A r \in 1 .. 4 : req'[4 * n + r] = req[4 * n + r] /\ 4 * n + r <= Len(req)
        BY <1>6, <4>1
      <4> QED BY <1>2, <4>2 DEF Requested
    <3>3. CASE n = count
      <4>1. /\ 4 * n + 3 = Len(req) + 1 /\ 4 * n + 4 = Len(req) + 2
            /\ 4 * n + 1 <= Len(req) /\ 4 * n + 2 <= Len(req)
            /\ 4 * n + 1 \in 1 .. Len(req) /\ 4 * n + 2 \in 1 .. Len(req)
        BY <1>1, <1>6, <3>3, VectorsAssumption
      <4>2. req'[4 * n + 1] = req[4 * n + 1] /\ req'[4 * n + 2] = req[4 * n + 2]
        BY <1>6, <4>1
      <4>3. req'[4 * n + 3] = u /\ req'[4 * n + 4] = v
        BY <1>6, <4>1
      <4> QED BY <1>1, <1>2, <1>4, <1>5, <3>3, <4>1, <4>2, <4>3 DEF Requested
    <3>4. CASE n > count
      <4>1. \A r \in 1 .. 4 : ~(4 * n + r <= Len(req'))
        BY <1>1, <1>6, <3>4, VectorsAssumption
      <4> QED BY <4>1
    <3> QED BY <3>1, <3>2, <3>3, <3>4
  <2> QED BY <2>1 DEF Requested
<1>8. Lines(rsp') /\ Len(rsp') = 0 /\ Answered'
  <2>1. Lines(rsp') /\ Len(rsp') = 0
    BY <1>1, <1>2
  <2> QED BY <2>1, VectorsAssumption DEF Answered
<1>9. Progress'
  BY <1>1, <1>6, VectorsAssumption DEF Progress, FirstPass
<1>10. Vector'
  BY <1>1 DEF Vector
<1> QED BY <1>6, <1>7, <1>8, <1>9, <1>10 DEF AnswerInv, Lines

(* Reopened, the file holds the first n lines of what was written. *)
LEMMA ReopenStep == AllInv /\ KAT!Reopen => AnswerInv'
<1> SUFFICES ASSUME AllInv, KAT!Reopen PROVE AnswerInv'
  OBVIOUS
<1>1. /\ pc = "seed" /\ pc' = "find" /\ count = Vectors /\ Len(req) = 4 * count
      /\ rsp = << >> /\ rsp' = rsp /\ pos = 0 /\ pos' = pos
  BY DEF AllInv, AnswerInv, Progress, FirstPass, KAT!Reopen
<1>2. Lines(req) /\ Requested /\ Lines(rsp)
  BY DEF AllInv, AnswerInv
<1>3. PICK n \in 0 .. Len(req) : req' = SubSeq(req, 1, n)
  BY DEF KAT!Reopen
<1>4. Lines(req') /\ Len(req') = n /\ \A i \in 1 .. n : req'[i] = req[i]
  BY <1>2, <1>3, CutShort
<1>5. \A i \in 1 .. n : i <= Len(req) /\ i \in Nat
  BY <1>1, VectorsAssumption
<1>6. Requested'
  <2>1. ASSUME NEW j \in 0 .. Vectors - 1, NEW r \in 1 .. 4, 4 * j + r <= Len(req')
        PROVE  req'[4 * j + r] = req[4 * j + r] /\ 4 * j + r <= Len(req)
    <3>1. 4 * j + r \in 1 .. n
      BY <1>1, <1>4, <2>1, VectorsAssumption
    <3> QED BY <1>4, <1>5, <3>1
  <2> QED BY <1>2, <2>1 DEF Requested
<1>7. Lines(rsp') /\ Len(rsp') = 0 /\ Answered'
  <2>1. Lines(rsp') /\ Len(rsp') = 0
    BY <1>1, <1>2
  <2> QED BY <2>1, VectorsAssumption DEF Answered
<1>8. Progress'
  <2>1. Len(req') <= 4 * Vectors /\ pos' <= Len(req')
    BY <1>1, <1>4, VectorsAssumption
  <2>2. \E k \in 0 .. Vectors : pos' = 4 * k /\ Len(rsp') = 6 * k
    <3>1. 0 \in 0 .. Vectors /\ pos' = 4 * 0 /\ Len(rsp') = 6 * 0
      BY <1>1, <1>7, VectorsAssumption
    <3> QED BY <3>1
  <2> QED BY <1>1, <2>1, <2>2 DEF Progress, FirstPass
<1>9. Vector'
  BY <1>1 DEF Vector
<1> QED BY <1>4, <1>6, <1>7, <1>8, <1>9 DEF AnswerInv, Lines

(* The parts of the invariant, in the second pass. *)
LEMMA SecondPass ==
  ASSUME AllInv, pc \notin FirstPass
  PROVE  /\ Lines(req) /\ Lines(rsp) /\ Requested /\ Answered /\ Progress /\ Vector
         /\ Len(req) \in Nat /\ Len(req) <= 4 * Vectors /\ pos <= Len(req)
<1>1. Lines(req) /\ Lines(rsp) /\ Requested /\ Answered /\ Progress /\ Vector
  BY DEF AllInv, AnswerInv
<1>2. Len(req) \in Nat
  BY <1>1, OneMore
<1>3. Len(req) <= 4 * Vectors /\ pos <= Len(req)
  BY <1>1 DEF Progress
<1> QED BY <1>1, <1>2, <1>3

LEMMA FindCountStep == AllInv /\ KAT!FindCount => AnswerInv'
<1> SUFFICES ASSUME AllInv, KAT!FindCount PROVE AnswerInv'
  OBVIOUS
<1>1. pc = "find" /\ req' = req /\ pc \notin FirstPass
  BY DEF KAT!FindCount, FirstPass
<1>2. /\ Lines(req) /\ Lines(rsp) /\ Requested /\ Answered /\ Progress /\ Vector
      /\ Len(req) \in Nat /\ Len(req) <= 4 * Vectors /\ pos <= Len(req)
  BY <1>1, SecondPass
<1>3. PICK k \in 0 .. Vectors : pos = 4 * k /\ Len(rsp) = 6 * k
  BY <1>1, <1>2 DEF Progress
<1>4. pos \in Nat
  BY <1>3, VectorsAssumption
<1>5. CASE pos = Len(req)
  <2>1. KAT!FindMarker(pos, "count") = 0
    BY <1>2, <1>4, <1>5, FindNext
  <2>2. pc' = "done" /\ rsp' = rsp /\ pos' = pos
    BY <2>1 DEF KAT!FindCount
  <2>3. Lines(req)' /\ Lines(rsp)' /\ Requested' /\ Answered'
    BY <1>1, <1>2, <2>2, FilesSame
  <2>4. 4 * Len(rsp') = 6 * Len(req')
    BY <1>1, <1>3, <1>5, <2>2, VectorsAssumption
  <2>5. Progress'
    BY <1>1, <1>2, <2>2, <2>4 DEF Progress, FirstPass
  <2>6. Vector'
    BY <2>2 DEF Vector
  <2> QED BY <2>3, <2>5, <2>6 DEF AnswerInv
<1>6. CASE pos < Len(req)
  <2>1. k \in 0 .. Vectors - 1 /\ 4 * k + 1 = pos + 1 /\ 4 * k + 1 <= Len(req)
        /\ Len(rsp) = 6 * k + (1 - 1)
    BY <1>2, <1>3, <1>6, VectorsAssumption
  <2>2. req[pos + 1] = KAT!Line("count", k)
    BY <1>2, <2>1 DEF Requested
  <2>3. req[pos + 1].mark = "count" /\ req[pos + 1].val = k
    BY <2>2 DEF KAT!Line
  <2>4. KAT!FindMarker(pos, "count") = pos + 1 /\ pos + 1 # 0
    BY <1>2, <1>4, <1>6, <2>3, FindNext
  <2>5. pc' = "reseed" /\ pos' = pos + 1 /\ count' = k /\ rsp' = Append(rsp, KAT!Line("count", k))
    BY <2>3, <2>4 DEF KAT!FindCount
  <2>6. KAT!Alone(k)[1] = KAT!Line("count", k)
    BY AloneIs
  <2>7. Lines(rsp)' /\ Answered' /\ Len(rsp') = 6 * k + 1
    <3>1. rsp' = Append(rsp, KAT!Alone(k)[1])
      BY <2>5, <2>6
    <3> QED BY <1>1, <1>2, <2>1, <3>1, AnsweredMore
  <2>8. Lines(req)' /\ Requested'
    BY <1>1, <1>2 DEF Lines, Requested
  <2>9. Progress'
    BY <1>1, <1>2, <1>4, <1>6, <2>1, <2>5, <2>7 DEF Progress, FirstPass, Reached
  <2>10. Vector'
    BY <2>5 DEF Vector
  <2> QED BY <2>7, <2>8, <2>9, <2>10 DEF AnswerInv
<1> QED BY <1>2, <1>4, <1>5, <1>6

LEMMA ReadSeedStep == AllInv /\ KAT!ReadSeed => AnswerInv'
<1> SUFFICES ASSUME AllInv, KAT!ReadSeed PROVE AnswerInv'
  OBVIOUS
<1>1. pc = "reseed" /\ req' = req /\ count' = count /\ pc \notin FirstPass
  BY DEF KAT!ReadSeed, FirstPass
<1>2. /\ Lines(req) /\ Lines(rsp) /\ Requested /\ Answered /\ Progress /\ Vector
      /\ Len(req) \in Nat /\ Len(req) <= 4 * Vectors /\ pos <= Len(req)
  BY <1>1, SecondPass
<1>3. count \in 0 .. Vectors - 1 /\ pos = 4 * count + 1 /\ Len(rsp) = 6 * count + (2 - 1)
      /\ pos \in Nat
  BY <1>1, <1>2, VectorsAssumption DEF Progress, Reached
<1>4. CASE pos = Len(req)
  <2>1. KAT!FindMarker(pos, "seed") = 0
    BY <1>2, <1>3, <1>4, FindNext
  <2>2. pc' = "failed" /\ rsp' = rsp /\ pos' = pos
    BY <2>1 DEF KAT!ReadSeed
  <2>3. Lines(req)' /\ Lines(rsp)' /\ Requested' /\ Answered'
    BY <1>1, <1>2, <2>2, FilesSame
  <2>4. Progress' /\ Vector'
    BY <1>1, <1>2, <2>2 DEF Progress, Vector, FirstPass
  <2> QED BY <2>3, <2>4 DEF AnswerInv
<1>5. CASE pos < Len(req)
  <2>1. 4 * count + 2 = pos + 1 /\ 4 * count + 2 <= Len(req)
    BY <1>2, <1>3, <1>5
  <2>2. req[pos + 1].mark = "seed" /\ KAT!ReadHex(req[pos + 1].val, 48) = req[pos + 1].val
    BY <1>2, <1>3, <2>1 DEF Requested
  <2>3. KAT!FindMarker(pos, "seed") = pos + 1 /\ pos + 1 # 0
    BY <1>2, <1>3, <1>5, <2>2, FindNext
  <2> DEFINE s == req[4 * count + 2].val
  <2>4. s = req[pos + 1].val
    BY <2>1
  <2> HIDE DEF s
  <2>5. /\ pc' = "read" /\ pos' = pos + 1 /\ seed' = s
        /\ rsp' = Append(rsp, KAT!Line("seed", s)) /\ KAT!randombytes_init(s)
    BY <2>2, <2>3, <2>4 DEF KAT!ReadSeed
  <2>6. KAT!Alone(count)[2] = KAT!Line("seed", s)
    BY AloneIs DEF s
  <2>7. Lines(rsp)' /\ Answered' /\ Len(rsp') = 6 * count + 2
    <3>1. rsp' = Append(rsp, KAT!Alone(count)[2])
      BY <2>5, <2>6
    <3> QED BY <1>1, <1>2, <1>3, <3>1, AnsweredMore
  <2>8. Lines(req)' /\ Requested'
    BY <1>1, <1>2 DEF Lines, Requested
  <2>9. Progress'
    BY <1>1, <1>2, <1>3, <1>5, <2>1, <2>5, <2>7 DEF Progress, FirstPass, Reached
  <2>10. Vector'
    <3>1. DRBG_ctx' = Seeded(s)
      BY <2>5, InitGives DEF Seeded
    <3> QED BY <1>1, <2>5, <3>1 DEF Vector, s
  <2> QED BY <2>7, <2>8, <2>9, <2>10 DEF AnswerInv
<1> QED BY <1>2, <1>3, <1>4, <1>5

LEMMA ReadMlenStep == AllInv /\ KAT!ReadMlen => AnswerInv'
<1> SUFFICES ASSUME AllInv, KAT!ReadMlen PROVE AnswerInv'
  OBVIOUS
<1>1. pc = "read" /\ req' = req /\ count' = count /\ DRBG_ctx' = DRBG_ctx /\ pc \notin FirstPass
  BY DEF KAT!ReadMlen, FirstPass, KAT!drbg
<1>2. /\ Lines(req) /\ Lines(rsp) /\ Requested /\ Answered /\ Progress /\ Vector
      /\ Len(req) \in Nat /\ Len(req) <= 4 * Vectors /\ pos <= Len(req)
  BY <1>1, SecondPass
<1>3. count \in 0 .. Vectors - 1 /\ pos = 4 * count + 2 /\ Len(rsp) = 6 * count + (3 - 1)
      /\ pos \in Nat
  BY <1>1, <1>2, VectorsAssumption DEF Progress, Reached
<1>4. CASE pos = Len(req)
  <2>1. KAT!FindMarker(pos, "mlen") = 0
    BY <1>2, <1>3, <1>4, FindNext
  <2>2. pc' = "failed" /\ rsp' = rsp /\ pos' = pos
    BY <2>1 DEF KAT!ReadMlen
  <2>3. Lines(req)' /\ Lines(rsp)' /\ Requested' /\ Answered'
    BY <1>1, <1>2, <2>2, FilesSame
  <2>4. Progress' /\ Vector'
    BY <1>1, <1>2, <2>2 DEF Progress, Vector, FirstPass
  <2> QED BY <2>3, <2>4 DEF AnswerInv
<1>5. CASE pos < Len(req)
  <2>1. 4 * count + 3 = pos + 1 /\ 4 * count + 3 <= Len(req)
    BY <1>2, <1>3, <1>5
  <2>2. req[pos + 1] = KAT!Line("mlen", 33 * (count + 1))
    BY <1>2, <1>3, <2>1 DEF Requested
  <2>3. req[pos + 1].mark = "mlen" /\ req[pos + 1].val = 33 * (count + 1)
    BY <2>2 DEF KAT!Line
  <2>4. KAT!FindMarker(pos, "mlen") = pos + 1 /\ pos + 1 # 0
    BY <1>2, <1>3, <1>5, <2>3, FindNext
  <2>5. /\ pc' = "calloc" /\ pos' = pos + 1 /\ mlen' = 33 * (count + 1)
        /\ rsp' = Append(rsp, KAT!Line("mlen", 33 * (count + 1)))
    BY <2>3, <2>4 DEF KAT!ReadMlen
  <2>6. KAT!Alone(count)[3] = KAT!Line("mlen", 33 * (count + 1))
    BY AloneIs
  <2>7. Lines(rsp)' /\ Answered' /\ Len(rsp') = 6 * count + 3
    <3>1. rsp' = Append(rsp, KAT!Alone(count)[3])
      BY <2>5, <2>6
    <3> QED BY <1>1, <1>2, <1>3, <3>1, AnsweredMore
  <2>8. Lines(req)' /\ Requested'
    BY <1>1, <1>2 DEF Lines, Requested
  <2>9. Progress'
    BY <1>1, <1>2, <1>3, <1>5, <2>1, <2>5, <2>7 DEF Progress, FirstPass, Reached
  <2>10. Vector'
    BY <1>1, <1>2, <2>5 DEF Vector
  <2> QED BY <2>7, <2>8, <2>9, <2>10 DEF AnswerInv
<1> QED BY <1>2, <1>3, <1>4, <1>5

LEMMA ReadMsgStep == AllInv /\ KAT!ReadMsg => AnswerInv'
<1> SUFFICES ASSUME AllInv, KAT!ReadMsg PROVE AnswerInv'
  OBVIOUS
<1>1. pc = "calloc" /\ req' = req /\ count' = count /\ DRBG_ctx' = DRBG_ctx /\ pc \notin FirstPass
  BY DEF KAT!ReadMsg, FirstPass, KAT!drbg
<1>2. /\ Lines(req) /\ Lines(rsp) /\ Requested /\ Answered /\ Progress /\ Vector
      /\ Len(req) \in Nat /\ Len(req) <= 4 * Vectors /\ pos <= Len(req)
  BY <1>1, SecondPass
<1>3. count \in 0 .. Vectors - 1 /\ pos = 4 * count + 3 /\ Len(rsp) = 6 * count + (4 - 1)
      /\ pos \in Nat /\ mlen = 33 * (count + 1)
  BY <1>1, <1>2, VectorsAssumption DEF Progress, Reached, Vector
<1>4. CASE pos = Len(req)
  <2>1. KAT!FindMarker(pos, "msg") = 0
    BY <1>2, <1>3, <1>4, FindNext
  <2>2. pc' = "failed" /\ rsp' = rsp /\ pos' = pos
    BY <2>1 DEF KAT!ReadMsg
  <2>3. Lines(req)' /\ Lines(rsp)' /\ Requested' /\ Answered'
    BY <1>1, <1>2, <2>2, FilesSame
  <2>4. Progress' /\ Vector'
    BY <1>1, <1>2, <2>2 DEF Progress, Vector, FirstPass
  <2> QED BY <2>3, <2>4 DEF AnswerInv
<1>5. CASE pos < Len(req)
  <2>1. 4 * count + 4 = pos + 1 /\ 4 * count + 4 <= Len(req)
    BY <1>2, <1>3, <1>5
  <2>2. req[pos + 1].mark = "msg" /\ KAT!ReadHex(req[pos + 1].val, mlen) = req[pos + 1].val
    BY <1>2, <1>3, <2>1 DEF Requested
  <2>3. KAT!FindMarker(pos, "msg") = pos + 1 /\ pos + 1 # 0
    BY <1>2, <1>3, <1>5, <2>2, FindNext
  <2> DEFINE t == req[4 * count + 4].val
  <2>4. t = req[pos + 1].val
    BY <2>1
  <2> HIDE DEF t
  <2>5. /\ pc' = "keypair" /\ pos' = pos + 1 /\ m' = t
        /\ rsp' = Append(rsp, KAT!Line("msg", t))
    BY <2>2, <2>3, <2>4 DEF KAT!ReadMsg
  <2>6. KAT!Alone(count)[4] = KAT!Line("msg", t)
    BY AloneIs DEF t
  <2>7. Lines(rsp)' /\ Answered' /\ Len(rsp') = 6 * count + 4
    <3>1. rsp' = Append(rsp, KAT!Alone(count)[4])
      BY <2>5, <2>6
    <3> QED BY <1>1, <1>2, <1>3, <3>1, AnsweredMore
  <2>8. Lines(req)' /\ Requested'
    BY <1>1, <1>2 DEF Lines, Requested
  <2>9. Progress'
    BY <1>1, <1>2, <1>3, <1>5, <2>1, <2>5, <2>7 DEF Progress, FirstPass, Reached
  <2>10. Vector'
    BY <1>1, <1>2, <2>5 DEF Vector, t
  <2> QED BY <2>7, <2>8, <2>9, <2>10 DEF AnswerInv
<1> QED BY <1>2, <1>3, <1>4, <1>5

LEMMA KeypairStep == AllInv /\ KAT!crypto_sign_keypair => AnswerInv'
<1> SUFFICES ASSUME AllInv, KAT!crypto_sign_keypair PROVE AnswerInv'
  OBVIOUS
<1> DEFINE s == req[4 * count + 2].val
<1>1. /\ pc = "keypair" /\ pc' = "sign" /\ req' = req /\ count' = count /\ pos' = pos /\ m' = m
      /\ pc \notin FirstPass
  BY DEF KAT!crypto_sign_keypair, FirstPass
<1>2. /\ Lines(req) /\ Lines(rsp) /\ Requested /\ Answered /\ Progress /\ Vector
      /\ Len(req) \in Nat /\ Len(req) <= 4 * Vectors /\ pos <= Len(req)
  BY <1>1, SecondPass
<1>3. count \in 0 .. Vectors - 1 /\ pos = 4 * count + 4 /\ Len(rsp) = 6 * count + (5 - 1)
      /\ DRBG_ctx = Seeded(s)
  BY <1>1, <1>2, VectorsAssumption DEF Progress, Reached, Vector
<1>4. sk' = KAT!Drawn(Seeded(s), 32) /\ rsp' = Append(rsp, KAT!Line("sk", sk')) /\ KAT!randombytes(32)
  BY <1>3 DEF KAT!crypto_sign_keypair, KAT!LEN_SKSEED
<1>5. DRBG_ctx' = AfterKeypair(s)
  <2>1. ContextShape
    BY <1>1 DEF AllInv, FreshInv, Fresh
  <2>2. KAT!Blocks(32) = 2
    BY DEF KAT!Blocks, KAT!Block
  <2>3. DRBG_ctx' = NewContext(DRBG_ctx.Key, DRBG_ctx.V.base, 2, << >>)
    <3>1. DRBG_ctx' = NewContext(DRBG_ctx.Key, DRBG_ctx.V.base, KAT!Blocks(32), << >>)
      <4>1. KAT!randombytes(32) /\ 32 \in Nat \ {0}
        BY <1>4
      <4> HIDE DEF s
      <4> QED BY <2>1, <4>1, RandomBytesDoes, Zenon
    <3> QED BY <2>2, <3>1
  <2> QED BY <1>3, <2>3 DEF AfterKeypair
<1>6. KAT!Alone(count)[5] = KAT!Line("sk", sk')
  BY <1>4, AloneIs
<1>7. Lines(rsp)' /\ Answered' /\ Len(rsp') = 6 * count + 5
  <2>1. rsp' = Append(rsp, KAT!Alone(count)[5])
    BY <1>4, <1>6
  <2> QED BY <1>1, <1>2, <1>3, <2>1, AnsweredMore
<1>8. Lines(req)' /\ Requested'
  BY <1>1, <1>2 DEF Lines, Requested
<1>9. Progress'
  BY <1>1, <1>2, <1>3, <1>7 DEF Progress, FirstPass, Reached
<1>10. Vector'
  BY <1>1, <1>2, <1>4, <1>5 DEF Vector
<1> QED BY <1>7, <1>8, <1>9, <1>10 DEF AnswerInv

LEMMA SignStep == AllInv /\ KAT!crypto_sign => AnswerInv'
<1> SUFFICES ASSUME AllInv, KAT!crypto_sign PROVE AnswerInv'
  OBVIOUS
<1> DEFINE s == req[4 * count + 2].val
<1>1. /\ pc = "sign" /\ req' = req /\ count' = count /\ pos' = pos /\ m' = m
      /\ pc \notin FirstPass
  BY DEF KAT!crypto_sign, FirstPass
<1>2. /\ Lines(req) /\ Lines(rsp) /\ Requested /\ Answered /\ Progress /\ Vector
      /\ Len(req) \in Nat /\ Len(req) <= 4 * Vectors /\ pos <= Len(req)
  BY <1>1, SecondPass
<1>3. /\ count \in 0 .. Vectors - 1 /\ pos = 4 * count + 4 /\ Len(rsp) = 6 * count + (6 - 1)
      /\ DRBG_ctx = AfterKeypair(s) /\ sk = KAT!Drawn(Seeded(s), 32)
      /\ m = req[4 * count + 4].val
  BY <1>1, <1>2, VectorsAssumption DEF Progress, Reached, Vector
<1>4. sm' = SmOf(count)
  BY <1>3 DEF KAT!crypto_sign, KAT!SaltByte, SmOf
<1>5. KAT!Alone(count)[6] = KAT!Line("sm", sm')
  BY <1>4, AloneIs
<1>6. Lines(req)' /\ Requested'
  BY <1>1, <1>2 DEF Lines, Requested
<1>7. CASE pc' = "open" /\ rsp' = Append(rsp, KAT!Line("sm", sm'))
  <2>1. Lines(rsp)' /\ Answered' /\ Len(rsp') = 6 * count + 6
    <3>1. rsp' = Append(rsp, KAT!Alone(count)[6])
      BY <1>5, <1>7
    <3> QED BY <1>1, <1>2, <1>3, <3>1, AnsweredMore
  <2>2. Progress'
    BY <1>1, <1>2, <1>3, <1>7, <2>1 DEF Progress, FirstPass, Reached
  <2>3. Vector'
    BY <1>1, <1>2, <1>7 DEF Vector
  <2> QED BY <1>6, <2>1, <2>2, <2>3 DEF AnswerInv
<1>8. CASE pc' = "failed" /\ rsp' = rsp
  <2>1. Lines(req)' /\ Lines(rsp)' /\ Requested' /\ Answered'
    BY <1>1, <1>2, <1>8, FilesSame
  <2>2. Progress' /\ Vector'
    BY <1>1, <1>2, <1>8 DEF Progress, Vector, FirstPass
  <2> QED BY <2>1, <2>2 DEF AnswerInv
<1> QED BY <1>7, <1>8 DEF KAT!crypto_sign

LEMMA OpenStep == AllInv /\ KAT!crypto_sign_open => AnswerInv'
<1> SUFFICES ASSUME AllInv, KAT!crypto_sign_open PROVE AnswerInv'
  OBVIOUS
<1>1. /\ pc = "open" /\ pc' \in {"find", "failed"} /\ req' = req /\ rsp' = rsp /\ count' = count
      /\ pos' = pos /\ pc \notin FirstPass
  BY DEF KAT!crypto_sign_open, FirstPass, KAT!locals
<1>2. /\ Lines(req) /\ Lines(rsp) /\ Requested /\ Answered /\ Progress /\ Vector
      /\ Len(req) \in Nat /\ Len(req) <= 4 * Vectors /\ pos <= Len(req)
  BY <1>1, SecondPass
<1>3. count \in 0 .. Vectors - 1 /\ pos = 4 * count + 4 /\ Len(rsp) = 6 * count + 6
  BY <1>1, <1>2 DEF Progress, Reached
<1>4. \E k \in 0 .. Vectors : pos = 4 * k /\ Len(rsp) = 6 * k
  <2>1. count + 1 \in 0 .. Vectors /\ pos = 4 * (count + 1) /\ Len(rsp) = 6 * (count + 1)
    BY <1>3, VectorsAssumption
  <2> QED BY <2>1
<1>5. Lines(req)' /\ Lines(rsp)' /\ Requested' /\ Answered'
  BY <1>1, <1>2, FilesSame
<1>6. Progress' /\ Vector'
  BY <1>1, <1>2, <1>4 DEF Progress, Vector, FirstPass
<1> QED BY <1>5, <1>6 DEF AnswerInv

LEMMA SeedFirstStep == AllInv /\ KAT!SeedFirst => AnswerInv'
<1> SUFFICES ASSUME AllInv, KAT!SeedFirst PROVE AnswerInv'
  OBVIOUS
<1>1. /\ pc = "start" /\ pc' = "seed" /\ req' = req /\ rsp' = rsp /\ pos' = pos /\ count' = count
      /\ req = << >> /\ rsp = << >> /\ pos = 0 /\ count = 0
  BY DEF KAT!SeedFirst, AllInv, AnswerInv, Progress, FirstPass, KAT!locals
<1>2. Lines(req) /\ Lines(rsp) /\ Requested /\ Answered
  BY DEF AllInv, AnswerInv
<1>3. Lines(req)' /\ Lines(rsp)' /\ Requested' /\ Answered'
  BY <1>1, <1>2, FilesSame
<1>4. Progress' /\ Vector'
  BY <1>1, VectorsAssumption DEF Progress, Vector, FirstPass
<1> QED BY <1>3, <1>4 DEF AnswerInv

LEMMA AnswerInvStep == AllInv /\ [KAT!Next]_(KAT!vars) => AnswerInv'
<1> SUFFICES ASSUME AllInv, [KAT!Next]_(KAT!vars) PROVE AnswerInv'
  OBVIOUS
<1>1. CASE UNCHANGED KAT!vars
  <2>1. /\ UNCHANGED <<req, rsp>> /\ pc' = pc /\ pos' = pos /\ count' = count /\ mlen' = mlen
        /\ m' = m /\ sk' = sk /\ DRBG_ctx' = DRBG_ctx
    BY <1>1 DEF KAT!vars, KAT!drbg, KAT!locals
  <2>2. Lines(req) /\ Lines(rsp) /\ Requested /\ Answered /\ Progress /\ Vector
    BY DEF AllInv, AnswerInv
  <2>3. Lines(req)' /\ Lines(rsp)' /\ Requested' /\ Answered'
    BY <2>1, <2>2, FilesSame
  <2>4. Progress' /\ Vector'
    BY <2>1, <2>2 DEF Progress, Vector, Reached
  <2> QED BY <2>3, <2>4 DEF AnswerInv
<1> QED BY <1>1, SeedFirstStep, RequestSeedStep, RequestMsgStep, ReopenStep, FindCountStep,
           ReadSeedStep, ReadMlenStep, ReadMsgStep, KeypairStep, SignStep, OpenStep DEF KAT!Next

LEMMA AllInvImplies == AllInv => AnswersAlone
<1> SUFFICES ASSUME AllInv PROVE AnswersAlone
  OBVIOUS
<1>1. Lines(rsp) /\ Answered /\ Progress
  BY DEF AllInv, AnswerInv
<1>2. ASSUME NEW n \in 0 .. Vectors - 1, (6 * n) + 6 <= Len(rsp)
      PROVE  SubSeq(rsp, (6 * n) + 1, (6 * n) + 6) = KAT!Alone(n)
  <2> DEFINE a == KAT!Alone(n)
             t == SubSeq(rsp, (6 * n) + 1, (6 * n) + 6)
             T == { a[j] : j \in 1 .. 6 }
  <2>1. a = <<a[1], a[2], a[3], a[4], a[5], a[6]>>
    BY AloneIs
  <2> HIDE DEF a
  <2>2. a \in Seq(T) /\ Len(a) = 6
    <3>1. a[1] \in T /\ a[2] \in T /\ a[3] \in T /\ a[4] \in T /\ a[5] \in T /\ a[6] \in T
      OBVIOUS
    <3> HIDE DEF T
    <3>2. ASSUME NEW a1 \in T, NEW a2 \in T, NEW a3 \in T, NEW a4 \in T, NEW a5 \in T, NEW a6 \in T
          PROVE  <<a1, a2, a3, a4, a5, a6>> \in Seq(T) /\ Len(<<a1, a2, a3, a4, a5, a6>>) = 6
      OBVIOUS
    <3>3. <<a[1], a[2], a[3], a[4], a[5], a[6]>> \in Seq(T)
          /\ Len(<<a[1], a[2], a[3], a[4], a[5], a[6]>>) = 6
      BY <3>1, <3>2
    <3> QED BY <2>1, <3>3
  <2>3. \A j \in 1 .. 6 : rsp[6 * n + j] = a[j]
    <3>1. Len(rsp) \in Nat
      BY <1>1, OneMore
    <3>2. \A j \in 1 .. 6 : 6 * n + j <= Len(rsp)
      BY <1>2, <3>1, VectorsAssumption
    <3> QED BY <1>1, <3>2 DEF Answered, a
  <2>4. \A i \in (6 * n) + 1 .. (6 * n) + 6 : rsp[i] \in T
    <3>1. SUFFICES ASSUME NEW i \in (6 * n) + 1 .. (6 * n) + 6 PROVE rsp[i] \in T
      OBVIOUS
    <3>2. i - 6 * n \in 1 .. 6 /\ 6 * n + (i - 6 * n) = i
      BY VectorsAssumption
    <3>3. rsp[i] = a[i - 6 * n]
      BY <2>3, <3>2
    <3> QED BY <3>2, <3>3
  <2> DEFINE lo == (6 * n) + 1
             hi == (6 * n) + 6
  <2>5. /\ lo \in Int /\ hi \in Int /\ lo <= hi /\ hi - lo + 1 = 6
        /\ \A j \in 1 .. 6 : lo + j - 1 = 6 * n + j
    BY VectorsAssumption
  <2> HIDE DEF T
  <2>6. /\ t \in Seq(T) /\ Len(t) = 6 /\ \A j \in 1 .. 6 : t[j] = a[j]
    <3> HIDE DEF lo, hi
    <3>1. /\ SubSeq(rsp, lo, hi) \in Seq(T)
          /\ Len(SubSeq(rsp, lo, hi)) = IF lo <= hi THEN hi - lo + 1 ELSE 0
          /\ \A j \in 1 .. hi - lo + 1 : SubSeq(rsp, lo, hi)[j] = rsp[lo + j - 1]
      BY <2>4, <2>5, SubSeqProperties DEF lo, hi
    <3>2. /\ SubSeq(rsp, lo, hi) \in Seq(T) /\ Len(SubSeq(rsp, lo, hi)) = 6
          /\ \A j \in 1 .. 6 : SubSeq(rsp, lo, hi)[j] = a[j]
      BY <2>3, <2>5, <3>1
    <3> QED BY <3>2 DEF lo, hi
  <2> HIDE DEF t
  <2> QED BY <2>2, <2>6, SeqEqual DEF a, t
<1>3. pc = "done" => 4 * Len(rsp) = 6 * Len(req)
  BY <1>1 DEF Progress
<1> QED BY <1>2, <1>3 DEF AnswersAlone, KAT!AnswersAlone

(* KAT!AnswersAlone: what the known-answer program writes for a vector is  *)
(* a function of the vector's seed and message, as each vector seeds the   *)
(* one global generator of utils/nistkat/rng.c anew, and a run that ends   *)
(* well has answered all vectors of the file; for any number of vectors.   *)
THEOREM AnswersAlwaysAlone == KAT!Spec => []AnswersAlone
<1>1. KAT!Init => AllInv
  BY FreshInvInit, AnswerInvInit DEF AllInv
<1>2. AllInv /\ [KAT!Next]_(KAT!vars) => AllInv'
  BY FreshInvStep, AnswerInvStep DEF AllInv
<1> QED BY <1>1, <1>2, AllInvImplies, PTL DEF KAT!Spec
=============================================================================
